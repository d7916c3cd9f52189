--------------------------- MODULE TransmitProofs ---------------------------
(***************************************************************************)
(* What the runs of Transmit show for small instances, proved for every    *)
(* number of processes, scans and batches and for every budget of faults:  *)
(* first what holds of the acknowledgements and of removal, then of the    *)
(* spool as a whole.  Exit code 0 is the truth, a backlog of another       *)
(* server is left alone and spoken of, a spooled scan is found again, and  *)
(* the spool directory implements Delivery.                                *)
(***************************************************************************)
EXTENDS Transmit, FiniteSetTheorems, TLAPS

-----------------------------------------------------------------------------
(* Lemmas about the operators of Transmit.                                 *)

\* What is below a smaller bound of a bigger set.
LEMMA HasBelowMonotone ==
  ASSUME NEW S, NEW T, S \subseteq T, NEW k \in Nat, HasBelow(S, k)
  PROVE  HasBelow(T, k)
BY DEF HasBelow

\* Nothing is below 0.
LEMMA HasBelowZero == ASSUME NEW S PROVE HasBelow(S, 0)
BY DEF HasBelow

\* An acknowledgement moves the bound by one.
LEMMA HasBelowNext ==
  ASSUME NEW S, NEW k \in Nat, HasBelow(S, k), k \in S
  PROVE  HasBelow(S, k + 1)
BY DEF HasBelow

\* A new spool has a name.
LEMMA OwnIsName == ASSUME NEW s \in Scans PROVE Own(s) \in Names /\ Own(s)[1] = s
BY DEF Own, Names

\* The scan of a spool is a scan.
LEMMA ScanOfSpool == ASSUME NEW sp \in Spool PROVE ScanOf(sp) \in Scans /\ sp.name \in Names /\ sp.name[1] \in Scans
BY DEF ScanOf, Spool, Names

-----------------------------------------------------------------------------
(* The type invariant.  It is inductive only with what the program counter *)
(* says of the other variables of a process.                               *)

Sending ==
  {"open", "rename", "adopt", "forget", "status", "read", "post", "ack", "close", "tidy1", "tidy2"}

Control ==
  \A p \in Procs :
    /\ pc[p] \in Sending => cur[p] \in Spool
    /\ pc[p] \in {"rename", "adopt", "forget"} => sid[ScanOf(cur[p])] # "unknown"
    /\ pc[p] \in {"state", "unspool"} => want[p] \in Scans

TypeInv == TypeOK /\ Control

\* The identifier the server has for the scan in hand names a spool.
LEMMA NewNameIsName ==
  ASSUME TypeInv, NEW p \in Procs, pc[p] \in {"rename", "adopt", "forget"}
  PROVE  NewName(p) \in Names /\ NewName(p)[1] = ScanOf(cur[p])
<1>1. cur[p] \in Spool /\ sid[ScanOf(cur[p])] # "unknown"
  BY DEF TypeInv, Control, Sending
<1>2. ScanOf(cur[p]) \in Scans
  BY <1>1, ScanOfSpool
<1>3. sid[ScanOf(cur[p])] \in {"own", "minted"}
  BY <1>1, <1>2 DEF TypeInv, TypeOK
<1> QED
  BY <1>2, <1>3 DEF NewName, Names

LEMMA TypeInvInit == Init => TypeInv
<1> SUFFICES ASSUME Init PROVE TypeInv
  OBVIOUS
<1>1. TypeOK
  BY ConstantsAssumption DEF Init, TypeOK, PCs
<1>2. Control
  BY DEF Init, Control, Sending
<1> QED
  BY <1>1, <1>2 DEF TypeInv

\* A fault is taken from a budget that is not used up.
LEMMA SpendTypes ==
  ASSUME TypeOK, NEW k \in Kinds, Spend(k)
  PROVE  budget' \in [Kinds -> Nat]
<1>1. budget \in [Kinds -> Nat] /\ budget[k] \in Nat
  BY DEF TypeOK
<1>2. budget[k] - 1 \in Nat
  BY <1>1 DEF Spend
<1> QED
  BY <1>1, <1>2 DEF Spend

\* Where a process gives up, it has nothing in hand.
LEMMA GiveUpTypes ==
  ASSUME TypeOK, NEW p \in Procs, GiveUp(p)
  PROVE  /\ pc' \in [Procs -> PCs]
         /\ cur' \in [Procs -> Spool \union {NoSpool}]
         /\ idx' \in [Procs -> Nat]
         /\ exit' \in [Procs -> {"ok", "failed", "killed"}]
BY DEF TypeOK, GiveUp, Goto, PCs

LEMMA SpoolingFailsTypes ==
  ASSUME TypeOK, NEW p \in Procs, SpoolingFails(p)
  PROVE  /\ pc' \in [Procs -> PCs]
         /\ want' \in [Procs -> Scans \union {NoScan}]
         /\ queue' \in [Procs -> SUBSET Spool]
         /\ exit' \in [Procs -> {"ok", "failed", "killed"}]
BY DEF TypeOK, SpoolingFails, Goto, PCs

LEMMA SaveStateTypes ==
  ASSUME TypeOK, NEW n \in Names, NEW a \in Nat, NEW c \in Nat,
         SaveState(n, a, c) \/ SaveStateFails(n, a, c)
  PROVE  /\ st' \in [Names -> {"none", "ok", "garbled"}]
         /\ acked' \in [Names -> Nat]
         /\ created' \in [Names -> Nat]
BY DEF TypeOK, SaveState, SaveStateFails, files

LEMMA GotoTypes ==
  ASSUME TypeOK, NEW p \in Procs, NEW l \in PCs, Goto(p, l)
  PROVE  pc' \in [Procs -> PCs]
BY DEF TypeOK, Goto

\* What a process holds while it is sending.
LEMMA CurTypes ==
  ASSUME TypeInv, NEW p \in Procs, pc[p] \in Sending
  PROVE  /\ cur[p] \in Spool /\ cur[p].name \in Names
         /\ cur[p].acked \in Nat /\ cur[p].created \in Nat
         /\ ScanOf(cur[p]) \in Scans
BY ScanOfSpool DEF TypeInv, Control, Spool

\* A batch that is taken keeps the types, and takes nothing back.
LEMMA TakeGrows ==
  ASSUME TypeOK, NEW s \in Scans, NEW i \in Nat, Take(s, i)
  PROVE  /\ stored' \in [Scans -> SUBSET Nat] /\ accepted' \in [Scans -> SUBSET Nat]
         /\ \A t \in Scans : accepted[t] \subseteq accepted'[t]
         /\ \A t \in Scans : stored[t] \subseteq accepted[t] => stored'[t] \subseteq accepted'[t]
         /\ i \in accepted'[s]
<1>1. stored \in [Scans -> SUBSET Nat] /\ accepted \in [Scans -> SUBSET Nat]
  BY DEF TypeOK
<1>2. /\ stored' = [stored EXCEPT ![s] = @ \union {i}]
      /\ accepted' = [accepted EXCEPT ![s] = @ \union {i}]
  BY DEF Take
<1> QED
  BY <1>1, <1>2

\* A process that gives up moves itself only.
LEMMA GiveUpMoves ==
  ASSUME TypeOK, NEW p \in Procs, GiveUp(p)
  PROVE  /\ pc'[p] = "next"
         /\ \A q \in Procs \ {p} : pc'[q] = pc[q] /\ cur'[q] = cur[q] /\ idx'[q] = idx[q]
<1>1. pc \in [Procs -> PCs] /\ DOMAIN cur = Procs /\ DOMAIN idx = Procs
  BY DEF TypeOK
<1> QED
  BY <1>1 DEF GiveUp, Goto

\* Control, when one process moves and the server forgets no scan.
LEMMA ControlFrame ==
  ASSUME Control, NEW p \in Procs, UNCHANGED sid,
         \A q \in Procs \ {p} : pc'[q] = pc[q] /\ cur'[q] = cur[q] /\ want'[q] = want[q],
         /\ pc'[p] \in Sending => cur'[p] \in Spool
         /\ pc'[p] \in {"rename", "adopt", "forget"} => sid[ScanOf(cur'[p])] # "unknown"
         /\ pc'[p] \in {"state", "unspool"} => want'[p] \in Scans
  PROVE  Control'
BY DEF Control

LEMMA TypeInvStep == TypeInv /\ [Next]_vars => TypeInv'
<1> SUFFICES ASSUME TypeInv, [Next]_vars PROVE TypeInv'
  OBVIOUS
<1>a. TypeOK /\ Control
  BY DEF TypeInv
<1> USE DEF PCs, Sending, Kinds, disk, files, server, plan, hist
<1>1. ASSUME NEW p \in Procs, TransmitReport(p) PROVE TypeInv'
  <2>1. TypeOK'
    BY <1>a, <1>1 DEF TransmitReport, Scope, Goto, TypeOK
  <2>2. Control'
    BY <1>a, <2>1, <1>1, ScanOfSpool DEF TransmitReport, Scope, Goto, TypeOK, Control
  <2> QED
    BY <2>1, <2>2 DEF TypeInv
<1>2. ASSUME NEW p \in Procs, TransmitOnly(p) PROVE TypeInv'
  <2>1. TypeOK'
    BY <1>a, <1>2 DEF TransmitOnly, Scope, Goto, TypeOK
  <2>2. Control'
    BY <1>a, <2>1, <1>2, ScanOfSpool DEF TransmitOnly, Scope, Goto, TypeOK, Control
  <2> QED
    BY <2>1, <2>2 DEF TypeInv
<1>3. ASSUME NEW p \in Procs, TransmitFrom(p) PROVE TypeInv'
  <2>1. TypeOK'
    BY <1>a, <1>3 DEF TransmitFrom, Scope, Goto, Spend, TypeOK
  <2>2. Control'
    BY <1>a, <2>1, <1>3, ScanOfSpool DEF TransmitFrom, Scope, Goto, Spend, TypeOK, Control
  <2> QED
    BY <2>1, <2>2 DEF TypeInv
<1>4. ASSUME NEW p \in Procs, LoadNext(p) PROVE TypeInv'
  <2>1. TypeOK'
    <3>1. \A n \in listing[p] : n \in Names /\ n[1] \in Scans /\ (st[n] = "ok" => Loaded(n) \in Spool)
      BY <1>a DEF TypeOK, Names, Loaded, Spool
    <3>2. listing' \in [Procs -> SUBSET Names]
      <4>1. PICK n \in listing[p] :
              listing' \in {[listing EXCEPT ![p] = @ \ {n}], [listing EXCEPT ![p] = {}]}
        BY <1>4 DEF LoadNext
      <4>2. listing \in [Procs -> SUBSET Names]
        BY <1>a DEF TypeOK
      <4> QED
        BY <4>1, <4>2
    <3>3. pc' \in [Procs -> PCs]
      BY <1>a, <1>4 DEF LoadNext, Goto, TypeOK
    <3>4. queue' \in [Procs -> SUBSET Spool] /\ promised' \in [Procs -> SUBSET Scans]
      <4>1. PICK n \in listing[p] :
              \/ UNCHANGED <<queue, promised>>
              \/ /\ st[n] = "ok"
                 /\ queue' = [queue EXCEPT ![p] = @ \union {Loaded(n)}]
                 /\ promised' = [promised EXCEPT ![p] = @ \union {n[1]}]
        BY <1>4 DEF LoadNext
      <4>2. queue \in [Procs -> SUBSET Spool] /\ promised \in [Procs -> SUBSET Scans]
        BY <1>a DEF TypeOK
      <4> QED
        BY <3>1, <4>1, <4>2
    <3> QED
      BY <1>a, <1>4, <3>2, <3>3, <3>4 DEF LoadNext, TypeOK
  <2>2. Control'
    BY <1>a, <2>1, <1>4, ScanOfSpool DEF LoadNext, Goto, Loaded, Spool, TypeOK, Control
  <2> QED
    BY <2>1, <2>2 DEF TypeInv
<1>5. ASSUME NEW p \in Procs, PendingReturns(p) PROVE TypeInv'
  <2>1. TypeOK'
    BY <1>a, <1>5 DEF PendingReturns, Goto, TypeOK
  <2>2. Control'
    BY <1>a, <2>1, <1>5, ScanOfSpool DEF PendingReturns, Goto, TypeOK, Control
  <2> QED
    BY <2>1, <2>2 DEF TypeInv
<1>6. ASSUME NEW p \in Procs, CountAll(p) PROVE TypeInv'
  <2>1. TypeOK'
    BY <1>a, <1>6 DEF CountAll, Goto, TypeOK
  <2>2. Control'
    BY <1>a, <2>1, <1>6, ScanOfSpool DEF CountAll, Goto, TypeOK, Control
  <2> QED
    BY <2>1, <2>2 DEF TypeInv
<1>7. ASSUME NEW p \in Procs, NoNewSpool(p) PROVE TypeInv'
  <2>1. TypeOK'
    BY <1>a, <1>7 DEF NoNewSpool, Goto, TypeOK
  <2>2. Control'
    BY <1>a, <2>1, <1>7, ScanOfSpool DEF NoNewSpool, Goto, TypeOK, Control
  <2> QED
    BY <2>1, <2>2 DEF TypeInv
<1>8. ASSUME NEW p \in Procs, WritePayload(p) PROVE TypeInv'
  <2>1. TypeOK'
    <3>1. payload' \in [Names -> BOOLEAN]
      <4>1. Own(want[p]) \in Names
        BY <1>a, <1>8, OwnIsName DEF WritePayload, TypeOK
      <4> QED
        BY <1>a, <1>8, <4>1 DEF WritePayload, TypeOK
    <3>2. /\ pc' \in [Procs -> PCs] /\ want' \in [Procs -> Scans \union {NoScan}]
          /\ queue' \in [Procs -> SUBSET Spool]
          /\ exit' \in [Procs -> {"ok", "failed", "killed"}]
      <4>1. CASE SpoolingFails(p)
        BY <1>a, <4>1, SpoolingFailsTypes
      <4>2. CASE Goto(p, "state") /\ UNCHANGED <<exit, queue, want>>
        BY <1>a, <4>2, GotoTypes DEF TypeOK
      <4> QED
        BY <1>8, <4>1, <4>2 DEF WritePayload
    <3>3. budget' \in [Kinds -> Nat]
      BY <1>a, <1>8, SpendTypes DEF WritePayload, TypeOK
    <3> QED
      BY <1>a, <1>8, <3>1, <3>2, <3>3 DEF WritePayload, TypeOK
  <2>2. Control'
    BY <1>a, <2>1, <1>8, ScanOfSpool DEF WritePayload, Goto, Spend, SpoolingFails, TypeOK, Control
  <2> QED
    BY <2>1, <2>2 DEF TypeInv
<1>9. ASSUME NEW p \in Procs, WriteState(p) PROVE TypeInv'
  <2>1. TypeOK'
    <3>1. /\ want[p] \in Scans /\ Own(want[p]) \in Names /\ clock \in Nat
          /\ [name |-> Own(want[p]), acked |-> 0, created |-> clock] \in Spool
      BY <1>a, <1>9, OwnIsName DEF WriteState, TypeOK, Control, Spool
    <3>2. /\ st' \in [Names -> {"none", "ok", "garbled"}]
          /\ acked' \in [Names -> Nat] /\ created' \in [Names -> Nat]
      BY <1>a, <1>9, <3>1, SaveStateTypes DEF WriteState
    <3>3. fresh' \in [Procs -> SUBSET Spool]
      <4>1. \/ UNCHANGED fresh
            \/ fresh' = [fresh EXCEPT ![p] = {[name |-> Own(want[p]), acked |-> 0, created |-> clock]}]
        BY <1>9 DEF WriteState
      <4>2. fresh \in [Procs -> SUBSET Spool]
        BY <1>a DEF TypeOK
      <4> QED
        BY <3>1, <4>1, <4>2
    <3>4. promised' \in [Procs -> SUBSET Scans]
      <4>1. UNCHANGED promised \/ promised' = [promised EXCEPT ![p] = @ \union {want[p]}]
        BY <1>9 DEF WriteState
      <4>2. promised \in [Procs -> SUBSET Scans]
        BY <1>a DEF TypeOK
      <4> QED
        BY <3>1, <4>1, <4>2
    <3>5. want' \in [Procs -> Scans \union {NoScan}]
      BY <1>a, <1>9 DEF WriteState, TypeOK
    <3>6. pc' \in [Procs -> PCs]
      BY <1>a, <1>9 DEF WriteState, Goto, TypeOK
    <3>7. spooled' \subseteq Scans /\ clock' \in Nat
      BY <1>a, <1>9, <3>1 DEF WriteState, TypeOK
    <3>8. budget' \in [Kinds -> Nat]
      BY <1>a, <1>9, SpendTypes DEF WriteState, SaveStateFails, TypeOK
    <3> QED
      BY <1>a, <1>9, <3>2, <3>3, <3>4, <3>5, <3>6, <3>7, <3>8 DEF WriteState, TypeOK
  <2>2. Control'
    BY <1>a, <2>1, <1>9, ScanOfSpool DEF WriteState, Goto, Spend, SaveState, SaveStateFails, Spool, TypeOK, Control
  <2> QED
    BY <2>1, <2>2 DEF TypeInv
<1>10. ASSUME NEW p \in Procs, Unspool(p) PROVE TypeInv'
  <2>1. TypeOK'
    BY <1>a, <1>10, OwnIsName, SpendTypes, SpoolingFailsTypes DEF Unspool, TypeOK, TypeInv, Control
  <2>2. Control'
    BY <1>a, <2>1, <1>10, ScanOfSpool DEF Unspool, Goto, Spend, SpoolingFails, TypeOK, Control
  <2> QED
    BY <2>1, <2>2 DEF TypeInv
<1>11. ASSUME NEW p \in Procs, SendNext(p) PROVE TypeInv'
  <2>1. TypeOK'
    <3>1. \A sp \in queue[p] \union fresh[p] : sp \in Spool
      BY <1>a DEF TypeOK
    <3>2. queue' \in [Procs -> SUBSET Spool] /\ fresh' \in [Procs -> SUBSET Spool]
      BY <1>a, <1>11 DEF SendNext, TypeOK
    <3>3. /\ pc' \in [Procs -> PCs] /\ cur' \in [Procs -> Spool \union {NoSpool}]
          /\ idx' \in [Procs -> Nat] /\ exit' \in [Procs -> {"ok", "failed", "killed"}]
      <4>1. CASE GiveUp(p)
        BY <1>a, <4>1, GiveUpTypes
      <4>2. CASE \E sp \in Spool : /\ cur' = [cur EXCEPT ![p] = sp] /\ Goto(p, "open")
                                   /\ UNCHANGED <<idx, exit>>
        BY <1>a, <4>2 DEF Goto, TypeOK
      <4> QED
        BY <1>11, <3>1, <4>1, <4>2 DEF SendNext
    <3> QED
      BY <1>a, <1>11, <3>2, <3>3 DEF SendNext, TypeOK
  <2>2. Control'
    BY <1>a, <2>1, <1>11, ScanOfSpool DEF SendNext, Goto, GiveUp, TypeOK, Control
  <2> QED
    BY <2>1, <2>2 DEF TypeInv
<1>12. ASSUME NEW p \in Procs, RunEnds(p) PROVE TypeInv'
  <2>1. TypeOK'
    BY <1>a, <1>12 DEF RunEnds, Goto, TypeOK
  <2>2. Control'
    BY <1>a, <2>1, <1>12, ScanOfSpool DEF RunEnds, Goto, TypeOK, Control
  <2> QED
    BY <2>1, <2>2 DEF TypeInv
<1>13. ASSUME NEW p \in Procs, OpenScan(p) PROVE TypeInv'
  <2>1. TypeOK'
    <3>1. cur[p] \in Spool /\ ScanOf(cur[p]) \in Scans
      BY <1>13, CurTypes DEF OpenScan
    <3>2. \A id \in ServerIds(ScanOf(cur[p])) : id \in {"unknown", "own", "minted"}
      BY <1>a, <3>1 DEF ServerIds, TypeOK
    <3>3. sid' \in [Scans -> {"unknown", "own", "minted"}]
      BY <1>a, <1>13, <3>1, <3>2 DEF OpenScan, TypeOK
    <3>4. /\ pc' \in [Procs -> PCs] /\ cur' \in [Procs -> Spool \union {NoSpool}]
          /\ idx' \in [Procs -> Nat] /\ exit' \in [Procs -> {"ok", "failed", "killed"}]
      BY <1>a, <1>13, GiveUpTypes, GotoTypes DEF OpenScan, RequestFails, ResumePoints, AfterOpen, TypeOK
    <3>5. budget' \in [Kinds -> Nat]
      BY <1>a, <1>13, SpendTypes DEF OpenScan, RequestFails, TypeOK
    <3> QED
      BY <1>a, <1>13, <3>3, <3>4, <3>5 DEF OpenScan, TypeOK
  <2>2. Control'
    BY <1>a, <2>1, <1>13, ScanOfSpool DEF OpenScan, Goto, Spend, GiveUp, RequestFails, ServerIds, ResumePoints, AfterOpen, Spool, TypeOK, Control
  <2> QED
    BY <2>1, <2>2 DEF TypeInv
<1>14. ASSUME NEW p \in Procs, RenamePayload(p) PROVE TypeInv'
  <2>1. TypeOK'
    <3>1. cur[p].name \in Names /\ NewName(p) \in Names
      BY <1>14, CurTypes, NewNameIsName DEF RenamePayload
    <3>2. payload' \in [Names -> BOOLEAN]
      BY <1>a, <1>14, <3>1 DEF RenamePayload, TypeOK
    <3>3. /\ pc' \in [Procs -> PCs] /\ cur' \in [Procs -> Spool \union {NoSpool}]
          /\ idx' \in [Procs -> Nat] /\ exit' \in [Procs -> {"ok", "failed", "killed"}]
      <4>1. CASE GiveUp(p)
        BY <1>a, <4>1, GiveUpTypes
      <4>2. CASE Goto(p, "adopt") /\ UNCHANGED <<cur, idx, exit>>
        BY <1>a, <4>2, GotoTypes DEF TypeOK
      <4> QED
        BY <1>14, <4>1, <4>2 DEF RenamePayload
    <3>4. budget' \in [Kinds -> Nat]
      BY <1>a, <1>14, SpendTypes DEF RenamePayload, TypeOK
    <3> QED
      BY <1>a, <1>14, <3>2, <3>3, <3>4 DEF RenamePayload, TypeOK
  <2>2. Control'
    BY <1>a, <2>1, <1>14, ScanOfSpool DEF RenamePayload, Goto, Spend, GiveUp, Spool, TypeOK, Control
  <2> QED
    BY <2>1, <2>2 DEF TypeInv
<1>15. ASSUME NEW p \in Procs, AdoptState(p) PROVE TypeInv'
  <2>1. TypeOK'
    <3>1. cur[p].acked \in Nat /\ cur[p].created \in Nat /\ NewName(p) \in Names
      BY <1>15, CurTypes, NewNameIsName DEF AdoptState
    <3>2. /\ st' \in [Names -> {"none", "ok", "garbled"}]
          /\ acked' \in [Names -> Nat] /\ created' \in [Names -> Nat]
      BY <1>a, <1>15, <3>1, SaveStateTypes DEF AdoptState
    <3>3. /\ pc' \in [Procs -> PCs] /\ cur' \in [Procs -> Spool \union {NoSpool}]
          /\ idx' \in [Procs -> Nat] /\ exit' \in [Procs -> {"ok", "failed", "killed"}]
      <4>1. CASE GiveUp(p)
        BY <1>a, <4>1, GiveUpTypes
      <4>2. CASE Goto(p, "forget") /\ UNCHANGED <<cur, idx, exit>>
        BY <1>a, <4>2, GotoTypes DEF TypeOK
      <4> QED
        BY <1>15, <4>1, <4>2 DEF AdoptState
    <3>4. budget' \in [Kinds -> Nat]
      BY <1>a, <1>15, SpendTypes DEF AdoptState, SaveStateFails, TypeOK
    <3> QED
      BY <1>a, <1>15, <3>2, <3>3, <3>4 DEF AdoptState, TypeOK
  <2>2. Control'
    BY <1>a, <2>1, <1>15, ScanOfSpool DEF AdoptState, Goto, Spend, GiveUp, SaveState, SaveStateFails, Spool, TypeOK, Control
  <2> QED
    BY <2>1, <2>2 DEF TypeInv
<1>16. ASSUME NEW p \in Procs, ForgetOldState(p) PROVE TypeInv'
  <2>1. TypeOK'
    <3>1. cur[p] \in Spool /\ cur[p].name \in Names /\ NewName(p) \in Names
      BY <1>16, CurTypes, NewNameIsName DEF ForgetOldState
    <3>2. st' \in [Names -> {"none", "ok", "garbled"}]
      BY <1>a, <1>16, <3>1 DEF ForgetOldState, TypeOK
    <3>3. cur' \in [Procs -> Spool \union {NoSpool}]
      <4>1. [cur[p] EXCEPT !.name = NewName(p)] \in Spool
        BY <3>1 DEF Spool
      <4>2. cur' = [cur EXCEPT ![p] = [cur[p] EXCEPT !.name = NewName(p)]]
        BY <1>16 DEF ForgetOldState
      <4> QED
        BY <1>a, <4>1, <4>2 DEF TypeOK
    <3>4. pc' \in [Procs -> PCs]
      BY <1>a, <1>16, GotoTypes DEF ForgetOldState, AfterOpen
    <3>5. budget' \in [Kinds -> Nat]
      BY <1>a, <1>16, SpendTypes DEF ForgetOldState, TypeOK
    <3> QED
      BY <1>a, <1>16, <3>2, <3>3, <3>4, <3>5 DEF ForgetOldState, TypeOK
  <2>2. Control'
    <3>1. cur[p] \in Spool /\ NewName(p) \in Names /\ cur'[p] = [cur[p] EXCEPT !.name = NewName(p)]
      BY <1>a, <1>16, CurTypes, NewNameIsName DEF ForgetOldState, TypeOK
    <3>2. cur'[p] \in Spool
      BY <3>1 DEF Spool
    <3>3. pc'[p] \in {"status", "read"}
      BY <1>a, <1>16 DEF ForgetOldState, Goto, AfterOpen, TypeOK
    <3> QED
      BY <1>a, <1>16, <3>2, <3>3 DEF ForgetOldState, Goto, TypeOK, Control
  <2> QED
    BY <2>1, <2>2 DEF TypeInv
<1>17. ASSUME NEW p \in Procs, AskStatus(p) PROVE TypeInv'
  <2>1. TypeOK'
    <3>1. /\ pc' \in [Procs -> PCs] /\ cur' \in [Procs -> Spool \union {NoSpool}]
          /\ idx' \in [Procs -> Nat] /\ exit' \in [Procs -> {"ok", "failed", "killed"}]
      BY <1>a, <1>17, GiveUpTypes DEF AskStatus, Goto, RequestFails, ResumePoints, TypeOK
    <3>2. budget' \in [Kinds -> Nat]
      BY <1>a, <1>17, SpendTypes DEF AskStatus, RequestFails, TypeOK
    <3> QED
      BY <1>a, <1>17, <3>1, <3>2 DEF AskStatus, TypeOK
  <2>2. Control'
    BY <1>a, <2>1, <1>17, ScanOfSpool DEF AskStatus, Goto, Spend, GiveUp, RequestFails, ResumePoints, TypeOK, Control
  <2> QED
    BY <2>1, <2>2 DEF TypeInv
<1>18. ASSUME NEW p \in Procs, OpenPayload(p) PROVE TypeInv'
  <2>1. TypeOK'
    <3>1. /\ pc' \in [Procs -> PCs] /\ cur' \in [Procs -> Spool \union {NoSpool}]
          /\ idx' \in [Procs -> Nat] /\ exit' \in [Procs -> {"ok", "failed", "killed"}]
      <4>1. CASE GiveUp(p)
        BY <1>a, <4>1, GiveUpTypes
      <4>2. CASE Goto(p, "post") /\ UNCHANGED <<cur, idx, exit>>
        BY <1>a, <4>2, GotoTypes DEF TypeOK
      <4> QED
        BY <1>18, <4>1, <4>2 DEF OpenPayload
    <3> QED
      BY <1>a, <1>18, <3>1 DEF OpenPayload, TypeOK
  <2>2. Control'
    BY <1>a, <2>1, <1>18, ScanOfSpool DEF OpenPayload, Goto, GiveUp, TypeOK, Control
  <2> QED
    BY <2>1, <2>2 DEF TypeInv
<1>19. ASSUME NEW p \in Procs, PostBatch(p) PROVE TypeInv'
  <2>1. TypeOK'
    <3>1. ScanOf(cur[p]) \in Scans /\ idx[p] \in Nat
      BY <1>a, <1>19, CurTypes DEF PostBatch, TypeOK
    <3>2. stored' \in [Scans -> SUBSET Nat] /\ accepted' \in [Scans -> SUBSET Nat]
      <4>1. Take(ScanOf(cur[p]), idx[p]) \/ UNCHANGED <<stored, accepted>>
        BY <1>19 DEF PostBatch
      <4> QED
        BY <1>a, <3>1, <4>1, TakeGrows DEF TypeOK
    <3>3. late' \subseteq Scans \X Nat
      BY <1>a, <1>19, <3>1 DEF PostBatch, TypeOK
    <3>4. /\ pc' \in [Procs -> PCs] /\ cur' \in [Procs -> Spool \union {NoSpool}]
          /\ idx' \in [Procs -> Nat] /\ exit' \in [Procs -> {"ok", "failed", "killed"}]
      BY <1>a, <1>19, GiveUpTypes DEF PostBatch, Goto, RequestFails, TypeOK
    <3>5. budget' \in [Kinds -> Nat]
      BY <1>a, <1>19, SpendTypes DEF PostBatch, RequestFails, TypeOK
    <3> QED
      BY <1>a, <1>19, <3>2, <3>3, <3>4, <3>5 DEF PostBatch, TypeOK
  <2>2. Control'
    BY <1>a, <2>1, <1>19, ScanOfSpool DEF PostBatch, Goto, Spend, GiveUp, RequestFails, Take, Spool, TypeOK, Control
  <2> QED
    BY <2>1, <2>2 DEF TypeInv
<1>20. ASSUME NEW p \in Procs, Ack(p) PROVE TypeInv'
  <2>1. TypeOK'
    <3>1. /\ cur[p] \in Spool /\ cur[p].name \in Names /\ cur[p].created \in Nat
          /\ idx[p] + 1 \in Nat /\ [cur[p] EXCEPT !.acked = idx[p] + 1] \in Spool
      BY <1>a, <1>20, CurTypes DEF Ack, TypeOK, Spool
    <3>2. /\ st' \in [Names -> {"none", "ok", "garbled"}]
          /\ acked' \in [Names -> Nat] /\ created' \in [Names -> Nat]
      BY <1>a, <1>20, <3>1, SaveStateTypes DEF Ack, TypeOK
    <3>3. /\ pc' \in [Procs -> PCs] /\ idx' \in [Procs -> Nat]
          /\ exit' \in [Procs -> {"ok", "failed", "killed"}]
      <4>1. CASE GiveUp(p)
        BY <1>a, <4>1, GiveUpTypes
      <4>2. CASE idx' = [idx EXCEPT ![p] = idx[p] + 1] /\ Goto(p, "post") /\ UNCHANGED exit
        BY <1>a, <3>1, <4>2, GotoTypes DEF TypeOK
      <4> QED
        BY <1>20, <4>1, <4>2 DEF Ack
    <3>4. cur' \in [Procs -> Spool \union {NoSpool}]
      <4>1. CASE UNCHANGED cur
        BY <1>a, <4>1 DEF TypeOK
      <4>2. CASE cur' = [cur EXCEPT ![p] = [cur[p] EXCEPT !.acked = idx[p] + 1]]
        BY <1>a, <3>1, <4>2 DEF TypeOK
      <4>3. CASE GiveUp(p)
        BY <1>a, <4>3, GiveUpTypes
      <4> QED
        BY <1>20, <4>1, <4>2, <4>3 DEF Ack
    <3>5. budget' \in [Kinds -> Nat]
      BY <1>a, <1>20, SpendTypes DEF Ack, SaveStateFails, TypeOK
    <3> QED
      BY <1>a, <1>20, <3>2, <3>3, <3>4, <3>5 DEF Ack, TypeOK
  <2>2. Control'
    <3>1. UNCHANGED <<sid, want>>
      BY <1>20 DEF Ack
    <3>2. CASE GiveUp(p)
      BY <1>a, <3>1, <3>2, GiveUpMoves, ControlFrame
    <3>3. CASE Goto(p, "post") /\ (UNCHANGED cur \/ cur' = [cur EXCEPT ![p].acked = idx[p] + 1])
      <4>1. cur[p] \in Spool /\ idx[p] \in Nat
        BY <1>a, <1>20, CurTypes DEF Ack, TypeOK
      <4>2. cur'[p] \in Spool
        BY <1>a, <3>3, <4>1 DEF Spool, TypeOK
      <4>3. pc'[p] = "post" /\ \A q \in Procs \ {p} : pc'[q] = pc[q] /\ cur'[q] = cur[q]
        BY <1>a, <3>3 DEF Goto, TypeOK
      <4> QED
        BY <1>a, <3>1, <4>2, <4>3, ControlFrame
    <3> QED
      BY <1>20, <3>2, <3>3 DEF Ack
  <2> QED
    BY <2>1, <2>2 DEF TypeInv
<1>21. ASSUME NEW p \in Procs, BatchesDone(p) PROVE TypeInv'
  <2>1. TypeOK'
    BY <1>a, <1>21 DEF BatchesDone, Goto, TypeOK
  <2>2. Control'
    BY <1>a, <2>1, <1>21, ScanOfSpool DEF BatchesDone, Goto, TypeOK, Control
  <2> QED
    BY <2>1, <2>2 DEF TypeInv
<1>22. ASSUME NEW p \in Procs, CloseScan(p) PROVE TypeInv'
  <2>1. TypeOK'
    BY <1>a, <1>22, CurTypes, SpendTypes, GiveUpTypes DEF CloseScan, Goto, RequestFails, TypeOK, TypeInv, Control
  <2>2. Control'
    <3>1. UNCHANGED <<sid, want>>
      BY <1>22 DEF CloseScan
    <3>2. CASE GiveUp(p)
      BY <1>a, <3>1, <3>2, GiveUpMoves, ControlFrame
    <3>3. CASE Goto(p, "tidy1") /\ UNCHANGED cur
      <4>1. cur[p] \in Spool
        BY <1>22, CurTypes DEF CloseScan
      <4>2. pc'[p] = "tidy1" /\ \A q \in Procs \ {p} : pc'[q] = pc[q]
        BY <1>a, <3>3 DEF Goto, TypeOK
      <4> QED
        BY <1>a, <3>1, <3>3, <4>1, <4>2, ControlFrame
    <3> QED
      BY <1>22, <3>2, <3>3 DEF CloseScan, RequestFails
  <2> QED
    BY <2>1, <2>2 DEF TypeInv
<1>23. ASSUME NEW p \in Procs, RemovePayload(p) PROVE TypeInv'
  <2>1. TypeOK'
    BY <1>a, <1>23, CurTypes, SpendTypes DEF RemovePayload, Goto, TypeOK, TypeInv, Control
  <2>2. Control'
    BY <1>a, <2>1, <1>23, ScanOfSpool DEF RemovePayload, Goto, Spend, Spool, TypeOK, Control
  <2> QED
    BY <2>1, <2>2 DEF TypeInv
<1>24. ASSUME NEW p \in Procs, RemoveState(p) PROVE TypeInv'
  <2>1. TypeOK'
    <3>1. st' \in [Names -> {"none", "ok", "garbled"}]
      BY <1>a, <1>24, CurTypes, SpendTypes DEF RemoveState, Goto, TypeOK, TypeInv, Control
    <3>2. /\ cur' \in [Procs -> Spool \union {NoSpool}]
         /\ idx' \in [Procs -> Nat]
         /\ pc' \in [Procs -> PCs]
      BY <1>a, <1>24, CurTypes, SpendTypes DEF RemoveState, Goto, TypeOK, TypeInv, Control
    <3>3. budget' \in [Kinds -> Nat]
      BY <1>a, <1>24, CurTypes, SpendTypes DEF RemoveState, Goto, TypeOK, TypeInv, Control
    <3> QED
      BY <1>a, <1>24, <3>1, <3>2, <3>3 DEF RemoveState, TypeOK
  <2>2. Control'
    BY <1>a, <2>1, <1>24, ScanOfSpool DEF RemoveState, Goto, Spend, Spool, TypeOK, Control
  <2> QED
    BY <2>1, <2>2 DEF TypeInv
<1>25. ASSUME NEW p \in Procs, Crash(p) PROVE TypeInv'
  <2>1. TypeOK'
    BY <1>a, <1>25 DEF Crash, Goto, Spend, TypeOK
  <2>2. Control'
    BY <1>a, <2>1, <1>25, ScanOfSpool DEF Crash, Goto, Spend, TypeOK, Control
  <2> QED
    BY <2>1, <2>2 DEF TypeInv
<1>26. ASSUME ServerRestarts PROVE TypeInv'
  <2>1. TypeOK'
    BY <1>a, <1>26 DEF ServerRestarts, Spend, TypeOK
  <2>2. Control'
    BY <1>a, <2>1, <1>26, ScanOfSpool DEF ServerRestarts, Spend, TypeOK, Control
  <2> QED
    BY <2>1, <2>2 DEF TypeInv
<1>27. ASSUME LateBatch PROVE TypeInv'
  <2>1. TypeOK'
    BY <1>a, <1>27 DEF LateBatch, Take, TypeOK
  <2>2. Control'
    BY <1>a, <2>1, <1>27, ScanOfSpool DEF LateBatch, Take, TypeOK, Control
  <2> QED
    BY <2>1, <2>2 DEF TypeInv
<1>28. ASSUME GarbleState PROVE TypeInv'
  <2>1. TypeOK'
    BY <1>a, <1>28 DEF GarbleState, Spend, TypeOK
  <2>2. Control'
    BY <1>a, <2>1, <1>28, ScanOfSpool DEF GarbleState, Spend, TypeOK, Control
  <2> QED
    BY <2>1, <2>2 DEF TypeInv
<1>z. CASE UNCHANGED vars
  BY <1>a, <1>z DEF vars, TypeInv, TypeOK, Control
<1> QED
  BY <1>1, <1>2, <1>3, <1>4, <1>5, <1>6, <1>7, <1>8, <1>9, <1>10, <1>11, <1>12, <1>13, <1>14, <1>15, <1>16, <1>17, <1>18, <1>19, <1>20, <1>21, <1>22, <1>23, <1>24, <1>25, <1>26, <1>27, <1>28, <1>z DEF Next, Starts, Works, Environment

\* Every state of every behaviour is typed, whatever fails or dies.
THEOREM TypeCorrect == Spec => []TypeOK
<1>1. Init => TypeInv
  BY TypeInvInit
<1>2. TypeInv /\ [Next]_vars => TypeInv'
  BY TypeInvStep
<1>3. TypeInv => TypeOK
  BY DEF TypeInv
<1> QED
  BY <1>1, <1>2, <1>3, PTL DEF Spec

-----------------------------------------------------------------------------
(* Acknowledgements.  The inductive invariant speaks of the state files of *)
(* the directory, of the copies of them in the memory of a process, and of *)
(* the index a process works at: all three are places a number of          *)
(* acknowledged batches comes from, and the next one is written from it.   *)

StoredWasTaken == \A s \in Scans : stored[s] \subseteq accepted[s]

FilesNeverAhead == \A n \in Names : HasBelow(accepted[n[1]], acked[n])

QueuesNeverAhead ==
  \A p \in Procs : \A sp \in queue[p] \union fresh[p] :
    HasBelow(accepted[ScanOf(sp)], sp.acked)

InHandNeverAhead ==
  \A p \in Procs :
    /\ pc[p] \in Sending => HasBelow(accepted[ScanOf(cur[p])], cur[p].acked)
    /\ pc[p] \in Sending \ {"open"} => HasBelow(accepted[ScanOf(cur[p])], idx[p])
    /\ pc[p] = "ack" => idx[p] \in accepted[ScanOf(cur[p])]

NeverAhead == StoredWasTaken /\ FilesNeverAhead /\ QueuesNeverAhead /\ InHandNeverAhead

AckInv == TypeInv /\ NeverAhead

LEMMA AckInvInit == Init => AckInv
<1> SUFFICES ASSUME Init PROVE AckInv
  OBVIOUS
<1>1. TypeInv
  BY TypeInvInit
<1>2. StoredWasTaken /\ QueuesNeverAhead /\ InHandNeverAhead
  BY DEF Init, StoredWasTaken, QueuesNeverAhead, InHandNeverAhead, Sending
<1>3. FilesNeverAhead
  BY HasBelowZero DEF Init, FilesNeverAhead
<1> QED
  BY <1>1, <1>2, <1>3 DEF AckInv, NeverAhead

\* What a process has in hand, when one process moves and the server takes nothing back.
LEMMA InHandFrame ==
  ASSUME InHandNeverAhead, NEW p \in Procs, UNCHANGED accepted,
         \A q \in Procs \ {p} : pc'[q] = pc[q] /\ cur'[q] = cur[q] /\ idx'[q] = idx[q],
         /\ pc'[p] \in Sending => HasBelow(accepted[ScanOf(cur'[p])], cur'[p].acked)
         /\ pc'[p] \in Sending \ {"open"} => HasBelow(accepted[ScanOf(cur'[p])], idx'[p])
         /\ pc'[p] = "ack" => idx'[p] \in accepted[ScanOf(cur'[p])]
  PROVE  InHandNeverAhead'
BY DEF InHandNeverAhead

LEMMA AckInvStep == AckInv /\ [Next]_vars => AckInv'
<1> SUFFICES ASSUME AckInv, [Next]_vars PROVE AckInv'
  OBVIOUS
<1>t. TypeInv /\ TypeOK
  BY DEF AckInv, TypeInv
<1>a. StoredWasTaken /\ FilesNeverAhead /\ QueuesNeverAhead /\ InHandNeverAhead
  BY DEF AckInv, NeverAhead
<1> SUFFICES NeverAhead'
  BY <1>t, TypeInvStep DEF AckInv
<1> USE DEF Sending, disk, files, server, plan, hist
<1>1. ASSUME NEW p \in Procs, TransmitReport(p) PROVE NeverAhead'
  BY <1>t, <1>a, <1>1 DEF TransmitReport, Scope, Goto, TypeOK, NeverAhead, StoredWasTaken, FilesNeverAhead, QueuesNeverAhead, InHandNeverAhead
<1>2. ASSUME NEW p \in Procs, TransmitOnly(p) PROVE NeverAhead'
  BY <1>t, <1>a, <1>2 DEF TransmitOnly, Scope, Goto, TypeOK, NeverAhead, StoredWasTaken, FilesNeverAhead, QueuesNeverAhead, InHandNeverAhead
<1>3. ASSUME NEW p \in Procs, TransmitFrom(p) PROVE NeverAhead'
  BY <1>t, <1>a, <1>3 DEF TransmitFrom, Scope, Goto, Spend, TypeOK, NeverAhead, StoredWasTaken, FilesNeverAhead, QueuesNeverAhead, InHandNeverAhead
<1>4. ASSUME NEW p \in Procs, LoadNext(p) PROVE NeverAhead'
  <2>1. \A n \in listing[p] : n \in Names /\ HasBelow(accepted[ScanOf(Loaded(n))], Loaded(n).acked)
    BY <1>t, <1>a DEF TypeOK, Loaded, ScanOf, FilesNeverAhead
  <2>2. QueuesNeverAhead'
    <3>1. PICK n \in listing[p] : UNCHANGED queue \/ queue' = [queue EXCEPT ![p] = @ \union {Loaded(n)}]
      BY <1>4 DEF LoadNext
    <3>2. UNCHANGED <<accepted, fresh>> /\ DOMAIN queue = Procs
      BY <1>t, <1>4 DEF LoadNext, TypeOK
    <3> QED
      BY <1>a, <2>1, <3>1, <3>2 DEF QueuesNeverAhead
  <2> QED
    BY <1>t, <1>a, <1>4, <2>2 DEF LoadNext, Goto, TypeOK, NeverAhead, StoredWasTaken,
      FilesNeverAhead, InHandNeverAhead
<1>5. ASSUME NEW p \in Procs, PendingReturns(p) PROVE NeverAhead'
  BY <1>t, <1>a, <1>5 DEF PendingReturns, Goto, TypeOK, NeverAhead, StoredWasTaken, FilesNeverAhead, QueuesNeverAhead, InHandNeverAhead
<1>6. ASSUME NEW p \in Procs, CountAll(p) PROVE NeverAhead'
  BY <1>t, <1>a, <1>6 DEF CountAll, Goto, TypeOK, NeverAhead, StoredWasTaken, FilesNeverAhead, QueuesNeverAhead, InHandNeverAhead
<1>7. ASSUME NEW p \in Procs, NoNewSpool(p) PROVE NeverAhead'
  BY <1>t, <1>a, <1>7 DEF NoNewSpool, Goto, TypeOK, NeverAhead, StoredWasTaken, FilesNeverAhead, QueuesNeverAhead, InHandNeverAhead
<1>8. ASSUME NEW p \in Procs, WritePayload(p) PROVE NeverAhead'
  BY <1>t, <1>a, <1>8 DEF WritePayload, Goto, Spend, SpoolingFails, TypeOK, NeverAhead, StoredWasTaken, FilesNeverAhead, QueuesNeverAhead, InHandNeverAhead
<1>9. ASSUME NEW p \in Procs, WriteState(p) PROVE NeverAhead'
  <2>1. Own(want[p]) \in Names
    BY <1>t, <1>9, OwnIsName DEF WriteState, TypeInv, Control
  <2>2. FilesNeverAhead'
    <3>1. acked' = acked \/ acked' = [acked EXCEPT ![Own(want[p])] = 0]
      BY <1>9 DEF WriteState, SaveState, SaveStateFails
    <3>2. accepted' = accepted
      BY <1>9 DEF WriteState
    <3> QED
      BY <1>t, <1>a, <3>1, <3>2, HasBelowZero DEF TypeOK, FilesNeverAhead
  <2>3. QueuesNeverAhead'
    BY <1>t, <1>a, <1>9, HasBelowZero DEF WriteState, TypeOK, QueuesNeverAhead
  <2> QED
    BY <1>t, <1>a, <1>9, <2>2, <2>3 DEF WriteState, Goto, TypeOK, NeverAhead, StoredWasTaken, InHandNeverAhead
<1>10. ASSUME NEW p \in Procs, Unspool(p) PROVE NeverAhead'
  BY <1>t, <1>a, <1>10 DEF Unspool, Goto, Spend, SpoolingFails, TypeOK, NeverAhead, StoredWasTaken, FilesNeverAhead, QueuesNeverAhead, InHandNeverAhead
<1>11. ASSUME NEW p \in Procs, SendNext(p) PROVE NeverAhead'
  BY <1>t, <1>a, <1>11 DEF SendNext, Goto, GiveUp, TypeOK, NeverAhead, StoredWasTaken, FilesNeverAhead, QueuesNeverAhead, InHandNeverAhead
<1>12. ASSUME NEW p \in Procs, RunEnds(p) PROVE NeverAhead'
  BY <1>t, <1>a, <1>12 DEF RunEnds, Goto, TypeOK, NeverAhead, StoredWasTaken, FilesNeverAhead, QueuesNeverAhead, InHandNeverAhead
<1>13. ASSUME NEW p \in Procs, OpenScan(p) PROVE NeverAhead'
  <2>1. /\ cur[p] \in Spool /\ ScanOf(cur[p]) \in Scans
        /\ \A k \in ResumePoints(ScanOf(cur[p])) : HasBelow(accepted[ScanOf(cur[p])], k)
    <3>1. ScanOf(cur[p]) \in Scans /\ cur[p] \in Spool
      BY <1>t, <1>13, CurTypes DEF OpenScan
    <3>2. NumBatches[ScanOf(cur[p])] \in Nat
      BY <3>1, ConstantsAssumption
    <3> QED
      BY <1>a, <3>1, <3>2, HasBelowMonotone DEF ResumePoints, StoredWasTaken
  <2>2. InHandNeverAhead'
    BY <1>t, <1>a, <1>13, <2>1 DEF OpenScan, RequestFails, GiveUp, Goto, AfterOpen, TypeOK, InHandNeverAhead
  <2> QED
    BY <1>t, <1>a, <1>13, <2>2 DEF OpenScan, RequestFails, GiveUp, TypeOK, NeverAhead, StoredWasTaken,
      FilesNeverAhead, QueuesNeverAhead
<1>14. ASSUME NEW p \in Procs, RenamePayload(p) PROVE NeverAhead'
  <2>1. InHandNeverAhead'
    <3>1. UNCHANGED accepted
      BY <1>14 DEF RenamePayload
    <3>2. CASE GiveUp(p)
      BY <1>t, <1>a, <3>1, <3>2, GiveUpMoves, InHandFrame
    <3>3. CASE Goto(p, "adopt") /\ UNCHANGED <<cur, idx>>
      <4>1. pc'[p] = "adopt" /\ \A q \in Procs \ {p} : pc'[q] = pc[q]
        BY <1>t, <3>3 DEF Goto, TypeOK
      <4>2. pc[p] = "rename"
        BY <1>14 DEF RenamePayload
      <4> QED
        BY <1>a, <3>1, <3>3, <4>1, <4>2 DEF InHandNeverAhead
    <3> QED
      BY <1>14, <3>2, <3>3 DEF RenamePayload
  <2> QED
    BY <1>t, <1>a, <1>14, <2>1 DEF RenamePayload, TypeOK, NeverAhead, StoredWasTaken,
      FilesNeverAhead, QueuesNeverAhead
<1>15. ASSUME NEW p \in Procs, AdoptState(p) PROVE NeverAhead'
  <2>1. /\ NewName(p) \in Names /\ NewName(p)[1] = ScanOf(cur[p])
        /\ HasBelow(accepted[ScanOf(cur[p])], cur[p].acked)
    BY <1>t, <1>a, <1>15, NewNameIsName DEF AdoptState, InHandNeverAhead
  <2>2. FilesNeverAhead'
    BY <1>t, <1>a, <1>15, <2>1 DEF AdoptState, SaveState, SaveStateFails, TypeOK, FilesNeverAhead
  <2>3. InHandNeverAhead'
    BY <1>t, <1>a, <1>15 DEF AdoptState, GiveUp, Goto, TypeOK, InHandNeverAhead
  <2> QED
    BY <1>t, <1>a, <1>15, <2>2, <2>3 DEF AdoptState, TypeOK, NeverAhead, StoredWasTaken, QueuesNeverAhead
<1>16. ASSUME NEW p \in Procs, ForgetOldState(p) PROVE NeverAhead'
  <2>1. /\ cur[p] \in Spool /\ NewName(p) \in Names /\ NewName(p)[1] = ScanOf(cur[p])
    BY <1>t, <1>16, CurTypes, NewNameIsName DEF ForgetOldState
  <2>2. cur'[p].acked = cur[p].acked /\ ScanOf(cur'[p]) = ScanOf(cur[p])
    BY <1>t, <1>16, <2>1 DEF ForgetOldState, TypeOK, Spool, ScanOf
  <2>3. InHandNeverAhead'
    BY <1>t, <1>a, <1>16, <2>2 DEF ForgetOldState, Goto, AfterOpen, TypeOK, InHandNeverAhead
  <2> QED
    BY <1>t, <1>a, <1>16, <2>3 DEF ForgetOldState, TypeOK, NeverAhead, StoredWasTaken,
      FilesNeverAhead, QueuesNeverAhead
<1>17. ASSUME NEW p \in Procs, AskStatus(p) PROVE NeverAhead'
  <2>1. /\ cur[p] \in Spool /\ ScanOf(cur[p]) \in Scans
        /\ \A k \in ResumePoints(ScanOf(cur[p])) : HasBelow(accepted[ScanOf(cur[p])], k)
    <3>1. ScanOf(cur[p]) \in Scans /\ cur[p] \in Spool
      BY <1>t, <1>17, CurTypes DEF AskStatus
    <3>2. NumBatches[ScanOf(cur[p])] \in Nat
      BY <3>1, ConstantsAssumption
    <3> QED
      BY <1>a, <3>1, <3>2, HasBelowMonotone DEF ResumePoints, StoredWasTaken
  <2>2. InHandNeverAhead'
    BY <1>t, <1>a, <1>17, <2>1 DEF AskStatus, RequestFails, GiveUp, Goto, TypeOK, InHandNeverAhead
  <2> QED
    BY <1>t, <1>a, <1>17, <2>2 DEF AskStatus, RequestFails, GiveUp, TypeOK, NeverAhead, StoredWasTaken,
      FilesNeverAhead, QueuesNeverAhead
<1>18. ASSUME NEW p \in Procs, OpenPayload(p) PROVE NeverAhead'
  BY <1>t, <1>a, <1>18 DEF OpenPayload, Goto, GiveUp, TypeOK, NeverAhead, StoredWasTaken, FilesNeverAhead, QueuesNeverAhead, InHandNeverAhead
<1>19. ASSUME NEW p \in Procs, PostBatch(p) PROVE NeverAhead'
  <2>1. ScanOf(cur[p]) \in Scans /\ idx[p] \in Nat
    BY <1>t, <1>19, CurTypes DEF PostBatch, TypeOK
  <2>t. Take(ScanOf(cur[p]), idx[p]) \/ UNCHANGED <<stored, accepted>>
    BY <1>19 DEF PostBatch
  <2>2. \A t \in Scans, k \in Nat : HasBelow(accepted[t], k) => HasBelow(accepted'[t], k)
    BY <1>t, <2>1, <2>t, TakeGrows, HasBelowMonotone
  <2>3. StoredWasTaken'
    BY <1>t, <1>a, <2>1, <2>t, TakeGrows DEF StoredWasTaken
  <2>4. FilesNeverAhead'
    BY <1>t, <1>a, <1>19, <2>2 DEF PostBatch, TypeOK, FilesNeverAhead, Names
  <2>5. QueuesNeverAhead'
    <3>1. \A q \in Procs : \A sp \in queue[q] \union fresh[q] : ScanOf(sp) \in Scans /\ sp.acked \in Nat
      BY <1>t, ScanOfSpool DEF TypeOK, Spool
    <3> QED
      BY <1>t, <1>a, <1>19, <2>2, <3>1 DEF PostBatch, TypeOK, QueuesNeverAhead
  <2>6. \A q \in Procs : pc[q] \in Sending =>
          ScanOf(cur[q]) \in Scans /\ cur[q].acked \in Nat /\ idx[q] \in Nat
    BY <1>t, CurTypes DEF TypeOK
  <2>7. \A t \in Scans : accepted[t] \subseteq accepted'[t]
    BY <1>t, <1>19, <2>1 DEF PostBatch, Take, TypeOK
  <2>8. InHandNeverAhead'
    <3>1. CASE Take(ScanOf(cur[p]), idx[p]) /\ Goto(p, "ack") /\ UNCHANGED <<cur, idx>>
      <4>1. idx'[p] \in accepted'[ScanOf(cur'[p])] /\ pc[p] = "post"
        BY <1>t, <1>19, <2>1, <3>1 DEF PostBatch, Take, TypeOK
      <4>2. \A q \in Procs : q # p => pc'[q] = pc[q]
        BY <1>t, <3>1 DEF Goto, TypeOK
      <4>3. pc'[p] = "ack"
        BY <1>t, <3>1 DEF Goto, TypeOK
      <4> QED
        BY <1>a, <2>2, <2>6, <2>7, <3>1, <4>1, <4>2, <4>3 DEF InHandNeverAhead
    <3>2. CASE GiveUp(p)
      BY <1>t, <1>a, <1>19, <2>2, <2>6, <2>7, <3>2 DEF GiveUp, Goto, TypeOK, InHandNeverAhead
    <3> QED
      BY <1>19, <3>1, <3>2 DEF PostBatch, RequestFails
  <2> QED
    BY <2>3, <2>4, <2>5, <2>8 DEF NeverAhead
<1>20. ASSUME NEW p \in Procs, Ack(p) PROVE NeverAhead'
  <2>1. /\ cur[p] \in Spool /\ cur[p].name \in Names /\ cur[p].name[1] = ScanOf(cur[p])
        /\ HasBelow(accepted[ScanOf(cur[p])], idx[p] + 1)
    BY <1>t, <1>a, <1>20, CurTypes, HasBelowNext DEF Ack, TypeOK, ScanOf, InHandNeverAhead
  <2>2. FilesNeverAhead'
    BY <1>t, <1>a, <1>20, <2>1 DEF Ack, SaveState, SaveStateFails, TypeOK, FilesNeverAhead
  <2>3. InHandNeverAhead'
    <3>1. CASE GiveUp(p)
      BY <1>t, <1>a, <1>20, <3>1 DEF Ack, GiveUp, Goto, TypeOK, InHandNeverAhead
    <3>2. CASE UNCHANGED cur /\ idx' = [idx EXCEPT ![p] = idx[p] + 1] /\ Goto(p, "post")
      BY <1>t, <1>a, <1>20, <2>1, <3>2 DEF Ack, Goto, TypeOK, InHandNeverAhead
    <3>3. CASE /\ cur' = [cur EXCEPT ![p].acked = idx[p] + 1]
               /\ idx' = [idx EXCEPT ![p] = idx[p] + 1] /\ Goto(p, "post")
      <4>1. cur'[p].acked = idx[p] + 1 /\ ScanOf(cur'[p]) = ScanOf(cur[p])
        BY <1>t, <2>1, <3>3 DEF TypeOK, Spool, ScanOf
      <4> QED
        BY <1>t, <1>a, <1>20, <2>1, <3>3, <4>1 DEF Ack, Goto, TypeOK, InHandNeverAhead
    <3> QED
      BY <1>20, <3>1, <3>2, <3>3 DEF Ack
  <2> QED
    BY <1>t, <1>a, <1>20, <2>2, <2>3 DEF Ack, TypeOK, NeverAhead, StoredWasTaken, QueuesNeverAhead
<1>21. ASSUME NEW p \in Procs, BatchesDone(p) PROVE NeverAhead'
  BY <1>t, <1>a, <1>21 DEF BatchesDone, Goto, TypeOK, NeverAhead, StoredWasTaken, FilesNeverAhead, QueuesNeverAhead, InHandNeverAhead
<1>22. ASSUME NEW p \in Procs, CloseScan(p) PROVE NeverAhead'
  BY <1>t, <1>a, <1>22 DEF CloseScan, Goto, Spend, GiveUp, RequestFails, TypeOK, NeverAhead, StoredWasTaken, FilesNeverAhead, QueuesNeverAhead, InHandNeverAhead
<1>23. ASSUME NEW p \in Procs, RemovePayload(p) PROVE NeverAhead'
  BY <1>t, <1>a, <1>23 DEF RemovePayload, Goto, Spend, TypeOK, NeverAhead, StoredWasTaken, FilesNeverAhead, QueuesNeverAhead, InHandNeverAhead
<1>24. ASSUME NEW p \in Procs, RemoveState(p) PROVE NeverAhead'
  BY <1>t, <1>a, <1>24 DEF RemoveState, Goto, Spend, TypeOK, NeverAhead, StoredWasTaken, FilesNeverAhead, QueuesNeverAhead, InHandNeverAhead
<1>25. ASSUME NEW p \in Procs, Crash(p) PROVE NeverAhead'
  BY <1>t, <1>a, <1>25 DEF Crash, Goto, Spend, TypeOK, NeverAhead, StoredWasTaken, FilesNeverAhead, QueuesNeverAhead, InHandNeverAhead
<1>26. ASSUME ServerRestarts PROVE NeverAhead'
  BY <1>t, <1>a, <1>26 DEF ServerRestarts, Spend, TypeOK, NeverAhead, StoredWasTaken, FilesNeverAhead, QueuesNeverAhead, InHandNeverAhead
<1>27. ASSUME LateBatch PROVE NeverAhead'
  <2>1. late \subseteq Scans \X Nat
    BY <1>t DEF TypeOK
  <2>2. \A t \in Scans, k \in Nat : HasBelow(accepted[t], k) => HasBelow(accepted'[t], k)
    BY <1>t, <1>27, <2>1, HasBelowMonotone DEF LateBatch, Take, TypeOK
  <2>3. StoredWasTaken'
    BY <1>t, <1>a, <1>27, <2>1 DEF LateBatch, Take, TypeOK, StoredWasTaken
  <2>4. FilesNeverAhead'
    BY <1>t, <1>a, <1>27, <2>2 DEF LateBatch, TypeOK, FilesNeverAhead, Names
  <2>5. QueuesNeverAhead'
    <3>1. \A q \in Procs : \A sp \in queue[q] \union fresh[q] : ScanOf(sp) \in Scans /\ sp.acked \in Nat
      BY <1>t, ScanOfSpool DEF TypeOK, Spool
    <3> QED
      BY <1>t, <1>a, <1>27, <2>2, <3>1 DEF LateBatch, TypeOK, QueuesNeverAhead
  <2>6. \A q \in Procs : pc[q] \in Sending =>
          ScanOf(cur[q]) \in Scans /\ cur[q].acked \in Nat /\ idx[q] \in Nat
    BY <1>t, CurTypes DEF TypeOK
  <2>7. \A t \in Scans : accepted[t] \subseteq accepted'[t]
    BY <1>t, <1>27, <2>1 DEF LateBatch, Take, TypeOK
  <2>8. InHandNeverAhead'
    BY <1>t, <1>a, <1>27, <2>2, <2>6, <2>7 DEF LateBatch, TypeOK, InHandNeverAhead
  <2> QED
    BY <2>3, <2>4, <2>5, <2>8 DEF NeverAhead
<1>28. ASSUME GarbleState PROVE NeverAhead'
  BY <1>t, <1>a, <1>28 DEF GarbleState, Spend, TypeOK, NeverAhead, StoredWasTaken, FilesNeverAhead, QueuesNeverAhead, InHandNeverAhead
<1>z. CASE UNCHANGED vars
  BY <1>a, <1>z DEF vars, NeverAhead, StoredWasTaken, FilesNeverAhead, QueuesNeverAhead, InHandNeverAhead
<1> QED
  BY <1>1, <1>2, <1>3, <1>4, <1>5, <1>6, <1>7, <1>8, <1>9, <1>10, <1>11, <1>12, <1>13, <1>14, <1>15, <1>16, <1>17, <1>18, <1>19, <1>20, <1>21, <1>22, <1>23, <1>24, <1>25, <1>26, <1>27, <1>28, <1>z DEF Next, Starts, Works, Environment

\* A state file on the disk never runs ahead of the server, for any number of
\* runs, scans and batches and any faults.
THEOREM AckedNeverAheadAlways == Spec => []AckedNeverAhead
<1>1. AckInv => AckedNeverAhead
  BY DEF AckInv, NeverAhead, FilesNeverAhead, AckedNeverAhead
<1> QED
  BY <1>1, AckInvInit, AckInvStep, PTL DEF Spec

\* No run is ever past a batch that the server never took.
THEOREM NeverSkipsAlways == Spec => []NeverSkips
<1>1. AckInv => NeverSkips
  BY DEF AckInv, NeverAhead, InHandNeverAhead, NeverSkips, Sending
<1> QED
  BY <1>1, AckInvInit, AckInvStep, PTL DEF Spec

-----------------------------------------------------------------------------
(* The spool is emptied of nothing that is not reconciled, as long as no   *)
(* scan is spooled twice.  (When --transmit-from spools a scan that waits  *)
(* already and its state file cannot be written, NewSpool removes the      *)
(* payload of both: TransmitRespool shows it.)                             *)

\* Whoever spools a scan is the only one to do it, and has not done it yet.
OwnWork ==
  /\ budget["respool"] = 0
  /\ spooled \subseteq taken
  /\ \A p \in Procs : want[p] \in Scans =>
       /\ want[p] \in taken \ spooled
       /\ \A q \in Procs \ {p} : want[q] # want[p]

\* What is about to be removed was closed with equal counts.
TidiesReconciled ==
  \A p \in Procs : pc[p] = "tidy1" => reconciled[ScanOf(cur[p])]

RemovalInv == TypeInv /\ OwnWork /\ TidiesReconciled

LEMMA RemovalInvInit ==
  ASSUME FaultBudget["respool"] = 0
  PROVE  Init => RemovalInv
BY TypeInvInit, ConstantsAssumption DEF Init, RemovalInv, OwnWork, TidiesReconciled

LEMMA RemovalInvStep == RemovalInv /\ [Next]_vars => RemovalInv'
<1> SUFFICES ASSUME RemovalInv, [Next]_vars PROVE RemovalInv'
  OBVIOUS
<1>t. TypeInv /\ TypeOK
  BY DEF RemovalInv, TypeInv
<1>a. OwnWork /\ TidiesReconciled
  BY DEF RemovalInv
<1> SUFFICES OwnWork' /\ TidiesReconciled'
  BY <1>t, TypeInvStep DEF RemovalInv
<1> USE DEF Kinds, disk, files, server, plan, hist
<1>1. ASSUME NEW p \in Procs, TransmitReport(p) PROVE OwnWork' /\ TidiesReconciled'
  <2>1. OwnWork'
    BY <1>t, <1>a, <1>1, ConstantsAssumption DEF TransmitReport, Scope, Goto, TypeOK, OwnWork
  <2>2. TidiesReconciled'
    BY <1>t, <1>a, <1>1 DEF TransmitReport, Scope, Goto, TypeOK, TidiesReconciled
  <2> QED
    BY <2>1, <2>2
<1>2. ASSUME NEW p \in Procs, TransmitOnly(p) PROVE OwnWork' /\ TidiesReconciled'
  <2>1. OwnWork'
    BY <1>t, <1>a, <1>2, ConstantsAssumption DEF TransmitOnly, Scope, Goto, TypeOK, OwnWork
  <2>2. TidiesReconciled'
    BY <1>t, <1>a, <1>2 DEF TransmitOnly, Scope, Goto, TypeOK, TidiesReconciled
  <2> QED
    BY <2>1, <2>2
<1>3. ASSUME NEW p \in Procs, TransmitFrom(p) PROVE OwnWork' /\ TidiesReconciled'
  <2>1. OwnWork'
    BY <1>t, <1>a, <1>3, ConstantsAssumption DEF TransmitFrom, Scope, Goto, Spend, TypeOK, OwnWork
  <2>2. TidiesReconciled'
    BY <1>t, <1>a, <1>3 DEF TransmitFrom, Scope, Goto, Spend, TypeOK, TidiesReconciled
  <2> QED
    BY <2>1, <2>2
<1>4. ASSUME NEW p \in Procs, LoadNext(p) PROVE OwnWork' /\ TidiesReconciled'
  <2>1. OwnWork'
    BY <1>t, <1>a, <1>4, ConstantsAssumption DEF LoadNext, Goto, Loaded, TypeOK, OwnWork
  <2>2. TidiesReconciled'
    BY <1>t, <1>a, <1>4 DEF LoadNext, Goto, Loaded, TypeOK, TidiesReconciled
  <2> QED
    BY <2>1, <2>2
<1>5. ASSUME NEW p \in Procs, PendingReturns(p) PROVE OwnWork' /\ TidiesReconciled'
  <2>1. OwnWork'
    BY <1>t, <1>a, <1>5, ConstantsAssumption DEF PendingReturns, Goto, TypeOK, OwnWork
  <2>2. TidiesReconciled'
    BY <1>t, <1>a, <1>5 DEF PendingReturns, Goto, TypeOK, TidiesReconciled
  <2> QED
    BY <2>1, <2>2
<1>6. ASSUME NEW p \in Procs, CountAll(p) PROVE OwnWork' /\ TidiesReconciled'
  <2>1. OwnWork'
    BY <1>t, <1>a, <1>6, ConstantsAssumption DEF CountAll, Goto, TypeOK, OwnWork
  <2>2. TidiesReconciled'
    BY <1>t, <1>a, <1>6 DEF CountAll, Goto, TypeOK, TidiesReconciled
  <2> QED
    BY <2>1, <2>2
<1>7. ASSUME NEW p \in Procs, NoNewSpool(p) PROVE OwnWork' /\ TidiesReconciled'
  <2>1. OwnWork'
    BY <1>t, <1>a, <1>7, ConstantsAssumption DEF NoNewSpool, Goto, TypeOK, OwnWork
  <2>2. TidiesReconciled'
    BY <1>t, <1>a, <1>7 DEF NoNewSpool, Goto, TypeOK, TidiesReconciled
  <2> QED
    BY <2>1, <2>2
<1>8. ASSUME NEW p \in Procs, WritePayload(p) PROVE OwnWork' /\ TidiesReconciled'
  <2>1. OwnWork'
    BY <1>t, <1>a, <1>8, ConstantsAssumption DEF WritePayload, Goto, Spend, SpoolingFails, TypeOK, OwnWork
  <2>2. TidiesReconciled'
    BY <1>t, <1>a, <1>8 DEF WritePayload, Goto, Spend, SpoolingFails, TypeOK, TidiesReconciled
  <2> QED
    BY <2>1, <2>2
<1>9. ASSUME NEW p \in Procs, WriteState(p) PROVE OwnWork' /\ TidiesReconciled'
  <2>1. OwnWork'
    <3>1. want[p] \in Scans
      BY <1>t, <1>9 DEF WriteState, TypeInv, Control
    <3>2. CASE spooled' = spooled \union {want[p]} /\ want' = [want EXCEPT ![p] = NoScan] /\ UNCHANGED budget
      BY <1>t, <1>a, <1>9, <3>1, <3>2, ConstantsAssumption DEF WriteState, TypeOK, OwnWork
    <3>3. CASE Spend("disk") /\ UNCHANGED <<want, spooled>>
      BY <1>t, <1>a, <1>9, <3>3 DEF WriteState, Spend, TypeOK, OwnWork
    <3> QED
      BY <1>9, <3>2, <3>3 DEF WriteState, SaveStateFails
  <2>2. TidiesReconciled'
    BY <1>t, <1>a, <1>9 DEF WriteState, Goto, Spend, SaveState, SaveStateFails, TypeOK, TidiesReconciled
  <2> QED
    BY <2>1, <2>2
<1>10. ASSUME NEW p \in Procs, Unspool(p) PROVE OwnWork' /\ TidiesReconciled'
  <2>1. OwnWork'
    BY <1>t, <1>a, <1>10, ConstantsAssumption DEF Unspool, Goto, Spend, SpoolingFails, TypeOK, OwnWork
  <2>2. TidiesReconciled'
    BY <1>t, <1>a, <1>10 DEF Unspool, Goto, Spend, SpoolingFails, TypeOK, TidiesReconciled
  <2> QED
    BY <2>1, <2>2
<1>11. ASSUME NEW p \in Procs, SendNext(p) PROVE OwnWork' /\ TidiesReconciled'
  <2>1. OwnWork'
    BY <1>t, <1>a, <1>11, ConstantsAssumption DEF SendNext, Goto, GiveUp, TypeOK, OwnWork
  <2>2. TidiesReconciled'
    BY <1>t, <1>a, <1>11 DEF SendNext, Goto, GiveUp, TypeOK, TidiesReconciled
  <2> QED
    BY <2>1, <2>2
<1>12. ASSUME NEW p \in Procs, RunEnds(p) PROVE OwnWork' /\ TidiesReconciled'
  <2>1. OwnWork'
    BY <1>t, <1>a, <1>12, ConstantsAssumption DEF RunEnds, Goto, TypeOK, OwnWork
  <2>2. TidiesReconciled'
    BY <1>t, <1>a, <1>12 DEF RunEnds, Goto, TypeOK, TidiesReconciled
  <2> QED
    BY <2>1, <2>2
<1>13. ASSUME NEW p \in Procs, OpenScan(p) PROVE OwnWork' /\ TidiesReconciled'
  <2>1. OwnWork'
    BY <1>t, <1>a, <1>13, ConstantsAssumption DEF OpenScan, Goto, Spend, GiveUp, RequestFails, ServerIds, ResumePoints, AfterOpen, TypeOK, OwnWork
  <2>2. TidiesReconciled'
    BY <1>t, <1>a, <1>13 DEF OpenScan, Goto, Spend, GiveUp, RequestFails, ServerIds, ResumePoints, AfterOpen, TypeOK, TidiesReconciled
  <2> QED
    BY <2>1, <2>2
<1>14. ASSUME NEW p \in Procs, RenamePayload(p) PROVE OwnWork' /\ TidiesReconciled'
  <2>1. OwnWork'
    BY <1>t, <1>a, <1>14, ConstantsAssumption DEF RenamePayload, Goto, Spend, GiveUp, TypeOK, OwnWork
  <2>2. TidiesReconciled'
    BY <1>t, <1>a, <1>14 DEF RenamePayload, Goto, Spend, GiveUp, TypeOK, TidiesReconciled
  <2> QED
    BY <2>1, <2>2
<1>15. ASSUME NEW p \in Procs, AdoptState(p) PROVE OwnWork' /\ TidiesReconciled'
  <2>1. OwnWork'
    BY <1>t, <1>a, <1>15, ConstantsAssumption DEF AdoptState, Goto, Spend, GiveUp, SaveState, SaveStateFails, TypeOK, OwnWork
  <2>2. TidiesReconciled'
    BY <1>t, <1>a, <1>15 DEF AdoptState, Goto, Spend, GiveUp, SaveState, SaveStateFails, TypeOK, TidiesReconciled
  <2> QED
    BY <2>1, <2>2
<1>16. ASSUME NEW p \in Procs, ForgetOldState(p) PROVE OwnWork' /\ TidiesReconciled'
  <2>1. OwnWork'
    BY <1>t, <1>a, <1>16, ConstantsAssumption DEF ForgetOldState, Goto, Spend, AfterOpen, TypeOK, OwnWork
  <2>2. TidiesReconciled'
    BY <1>t, <1>a, <1>16 DEF ForgetOldState, Goto, Spend, AfterOpen, TypeOK, TidiesReconciled
  <2> QED
    BY <2>1, <2>2
<1>17. ASSUME NEW p \in Procs, AskStatus(p) PROVE OwnWork' /\ TidiesReconciled'
  <2>1. OwnWork'
    BY <1>t, <1>a, <1>17, ConstantsAssumption DEF AskStatus, Goto, Spend, GiveUp, RequestFails, ResumePoints, TypeOK, OwnWork
  <2>2. TidiesReconciled'
    BY <1>t, <1>a, <1>17 DEF AskStatus, Goto, Spend, GiveUp, RequestFails, ResumePoints, TypeOK, TidiesReconciled
  <2> QED
    BY <2>1, <2>2
<1>18. ASSUME NEW p \in Procs, OpenPayload(p) PROVE OwnWork' /\ TidiesReconciled'
  <2>1. OwnWork'
    BY <1>t, <1>a, <1>18, ConstantsAssumption DEF OpenPayload, Goto, GiveUp, TypeOK, OwnWork
  <2>2. TidiesReconciled'
    BY <1>t, <1>a, <1>18 DEF OpenPayload, Goto, GiveUp, TypeOK, TidiesReconciled
  <2> QED
    BY <2>1, <2>2
<1>19. ASSUME NEW p \in Procs, PostBatch(p) PROVE OwnWork' /\ TidiesReconciled'
  <2>1. OwnWork'
    BY <1>t, <1>a, <1>19, ConstantsAssumption DEF PostBatch, Goto, Spend, GiveUp, RequestFails, Take, TypeOK, OwnWork
  <2>2. TidiesReconciled'
    BY <1>t, <1>a, <1>19 DEF PostBatch, Goto, Spend, GiveUp, RequestFails, Take, TypeOK, TidiesReconciled
  <2> QED
    BY <2>1, <2>2
<1>20. ASSUME NEW p \in Procs, Ack(p) PROVE OwnWork' /\ TidiesReconciled'
  <2>1. OwnWork'
    BY <1>t, <1>a, <1>20, ConstantsAssumption DEF Ack, Goto, Spend, GiveUp, SaveState, SaveStateFails, TypeOK, OwnWork
  <2>2. TidiesReconciled'
    BY <1>t, <1>a, <1>20 DEF Ack, Goto, Spend, GiveUp, SaveState, SaveStateFails, TypeOK, TidiesReconciled
  <2> QED
    BY <2>1, <2>2
<1>21. ASSUME NEW p \in Procs, BatchesDone(p) PROVE OwnWork' /\ TidiesReconciled'
  <2>1. OwnWork'
    BY <1>t, <1>a, <1>21, ConstantsAssumption DEF BatchesDone, Goto, TypeOK, OwnWork
  <2>2. TidiesReconciled'
    BY <1>t, <1>a, <1>21 DEF BatchesDone, Goto, TypeOK, TidiesReconciled
  <2> QED
    BY <2>1, <2>2
<1>22. ASSUME NEW p \in Procs, CloseScan(p) PROVE OwnWork' /\ TidiesReconciled'
  <2>1. OwnWork'
    BY <1>t, <1>a, <1>22, ConstantsAssumption DEF CloseScan, Goto, Spend, GiveUp, RequestFails, TypeOK, OwnWork
  <2>2. TidiesReconciled'
    <3>1. ScanOf(cur[p]) \in Scans
      BY <1>t, <1>22, CurTypes DEF CloseScan, Sending
    <3>2. \A t \in Scans : reconciled[t] => reconciled'[t]
      BY <1>t, <1>22, <3>1 DEF CloseScan, TypeOK
    <3>3. \A q \in Procs : pc[q] = "tidy1" => ScanOf(cur[q]) \in Scans
      BY <1>t, CurTypes DEF Sending
    <3>4. CASE Goto(p, "tidy1") /\ reconciled'[ScanOf(cur[p])] /\ UNCHANGED cur
      BY <1>t, <1>a, <3>2, <3>3, <3>4 DEF Goto, TypeOK, TidiesReconciled
    <3>5. CASE GiveUp(p)
      BY <1>t, <1>a, <3>2, <3>3, <3>5 DEF GiveUp, Goto, TypeOK, TidiesReconciled
    <3> QED
      BY <1>t, <1>22, <3>1, <3>4, <3>5 DEF CloseScan, RequestFails, TypeOK
  <2> QED
    BY <2>1, <2>2
<1>23. ASSUME NEW p \in Procs, RemovePayload(p) PROVE OwnWork' /\ TidiesReconciled'
  <2>1. OwnWork'
    BY <1>t, <1>a, <1>23, ConstantsAssumption DEF RemovePayload, Goto, Spend, TypeOK, OwnWork
  <2>2. TidiesReconciled'
    BY <1>t, <1>a, <1>23 DEF RemovePayload, Goto, Spend, TypeOK, TidiesReconciled
  <2> QED
    BY <2>1, <2>2
<1>24. ASSUME NEW p \in Procs, RemoveState(p) PROVE OwnWork' /\ TidiesReconciled'
  <2>1. OwnWork'
    BY <1>t, <1>a, <1>24, ConstantsAssumption DEF RemoveState, Goto, Spend, TypeOK, OwnWork
  <2>2. TidiesReconciled'
    BY <1>t, <1>a, <1>24 DEF RemoveState, Goto, Spend, TypeOK, TidiesReconciled
  <2> QED
    BY <2>1, <2>2
<1>25. ASSUME NEW p \in Procs, Crash(p) PROVE OwnWork' /\ TidiesReconciled'
  <2>1. OwnWork'
    BY <1>t, <1>a, <1>25, ConstantsAssumption DEF Crash, Goto, Spend, TypeOK, OwnWork
  <2>2. TidiesReconciled'
    BY <1>t, <1>a, <1>25 DEF Crash, Goto, Spend, TypeOK, TidiesReconciled
  <2> QED
    BY <2>1, <2>2
<1>26. ASSUME ServerRestarts PROVE OwnWork' /\ TidiesReconciled'
  <2>1. OwnWork'
    BY <1>t, <1>a, <1>26, ConstantsAssumption DEF ServerRestarts, Spend, TypeOK, OwnWork
  <2>2. TidiesReconciled'
    BY <1>t, <1>a, <1>26 DEF ServerRestarts, Spend, TypeOK, TidiesReconciled
  <2> QED
    BY <2>1, <2>2
<1>27. ASSUME LateBatch PROVE OwnWork' /\ TidiesReconciled'
  <2>1. OwnWork'
    BY <1>t, <1>a, <1>27, ConstantsAssumption DEF LateBatch, Take, TypeOK, OwnWork
  <2>2. TidiesReconciled'
    BY <1>t, <1>a, <1>27 DEF LateBatch, Take, TypeOK, TidiesReconciled
  <2> QED
    BY <2>1, <2>2
<1>28. ASSUME GarbleState PROVE OwnWork' /\ TidiesReconciled'
  <2>1. OwnWork'
    BY <1>t, <1>a, <1>28, ConstantsAssumption DEF GarbleState, Spend, TypeOK, OwnWork
  <2>2. TidiesReconciled'
    BY <1>t, <1>a, <1>28 DEF GarbleState, Spend, TypeOK, TidiesReconciled
  <2> QED
    BY <2>1, <2>2
<1>z. CASE UNCHANGED vars
  BY <1>a, <1>z DEF vars, OwnWork, TidiesReconciled
<1> QED
  BY <1>1, <1>2, <1>3, <1>4, <1>5, <1>6, <1>7, <1>8, <1>9, <1>10, <1>11, <1>12, <1>13, <1>14, <1>15, <1>16, <1>17, <1>18, <1>19, <1>20, <1>21, <1>22, <1>23, <1>24, <1>25, <1>26, <1>27, <1>28, <1>z DEF Next, Starts, Works, Environment

\* One step: a scan whose last payload goes is reconciled.
LEMMA RemovalStep ==
  ASSUME RemovalInv, Next, NEW s \in spooled, HasPayload(s), ~HasPayload(s)'
  PROVE  reconciled[s]
<1>t. TypeInv /\ TypeOK
  BY DEF RemovalInv, TypeInv
<1>a. OwnWork /\ TidiesReconciled
  BY DEF RemovalInv
<1>1. PICK n \in Names : n[1] = s /\ payload[n] /\ ~payload'[n]
  BY DEF HasPayload
<1> USE DEF disk, files, server, plan, hist
<1>2. ASSUME NEW p \in Procs, WritePayload(p) PROVE FALSE
  BY <1>t, <1>1, <1>2 DEF WritePayload, TypeOK
<1>3. ASSUME NEW p \in Procs, Unspool(p) PROVE FALSE
  <2>1. want[p] \in Scans /\ Own(want[p])[1] = want[p] /\ n # Own(want[p])
    BY <1>t, <1>a, <1>1, <1>3, OwnIsName DEF Unspool, TypeInv, Control, OwnWork
  <2> QED
    BY <1>t, <1>1, <1>3, <2>1 DEF Unspool, TypeOK
<1>4. ASSUME NEW p \in Procs, RenamePayload(p) PROVE FALSE
  <2>1. NewName(p) \in Names /\ NewName(p)[1] = ScanOf(cur[p])
    BY <1>t, <1>4, NewNameIsName DEF RenamePayload
  <2>2. cur[p].name \in Names /\ cur[p].name[1] = ScanOf(cur[p])
    BY <1>t, <1>4, CurTypes DEF RenamePayload, Sending, ScanOf
  <2>3. payload' = [payload EXCEPT ![cur[p].name] = FALSE, ![NewName(p)] = TRUE]
    BY <1>1, <1>4 DEF RenamePayload
  <2>4. n = cur[p].name /\ payload'[NewName(p)]
    BY <1>t, <1>1, <2>1, <2>2, <2>3 DEF TypeOK
  <2> QED
    BY <1>1, <2>1, <2>2, <2>4 DEF HasPayload
<1>5. ASSUME NEW p \in Procs, RemovePayload(p) PROVE reconciled[s]
  <2>1. cur[p].name \in Names /\ cur[p].name[1] = ScanOf(cur[p])
    BY <1>t, <1>5, CurTypes DEF RemovePayload, Sending, ScanOf
  <2>2. n = cur[p].name
    BY <1>t, <1>1, <1>5, <2>1 DEF RemovePayload, TypeOK
  <2> QED
    BY <1>a, <1>1, <1>5, <2>1, <2>2 DEF RemovePayload, TidiesReconciled
<1>6. ASSUME NEW p \in Procs, TransmitReport(p) PROVE FALSE
  BY <1>1, <1>6 DEF TransmitReport, Scope
<1>7. ASSUME NEW p \in Procs, TransmitOnly(p) PROVE FALSE
  BY <1>1, <1>7 DEF TransmitOnly, Scope
<1>8. ASSUME NEW p \in Procs, TransmitFrom(p) PROVE FALSE
  BY <1>1, <1>8 DEF TransmitFrom, Scope
<1>9. ASSUME NEW p \in Procs, LoadNext(p) PROVE FALSE
  BY <1>1, <1>9 DEF LoadNext
<1>10. ASSUME NEW p \in Procs, PendingReturns(p) PROVE FALSE
  BY <1>1, <1>10 DEF PendingReturns
<1>11. ASSUME NEW p \in Procs, CountAll(p) PROVE FALSE
  BY <1>1, <1>11 DEF CountAll
<1>12. ASSUME NEW p \in Procs, NoNewSpool(p) PROVE FALSE
  BY <1>1, <1>12 DEF NoNewSpool
<1>13. ASSUME NEW p \in Procs, WriteState(p) PROVE FALSE
  BY <1>1, <1>13 DEF WriteState
<1>14. ASSUME NEW p \in Procs, SendNext(p) PROVE FALSE
  BY <1>1, <1>14 DEF SendNext
<1>15. ASSUME NEW p \in Procs, RunEnds(p) PROVE FALSE
  BY <1>1, <1>15 DEF RunEnds
<1>16. ASSUME NEW p \in Procs, OpenScan(p) PROVE FALSE
  BY <1>1, <1>16 DEF OpenScan
<1>17. ASSUME NEW p \in Procs, AdoptState(p) PROVE FALSE
  BY <1>1, <1>17 DEF AdoptState
<1>18. ASSUME NEW p \in Procs, ForgetOldState(p) PROVE FALSE
  BY <1>1, <1>18 DEF ForgetOldState
<1>19. ASSUME NEW p \in Procs, AskStatus(p) PROVE FALSE
  BY <1>1, <1>19 DEF AskStatus
<1>20. ASSUME NEW p \in Procs, OpenPayload(p) PROVE FALSE
  BY <1>1, <1>20 DEF OpenPayload
<1>21. ASSUME NEW p \in Procs, PostBatch(p) PROVE FALSE
  BY <1>1, <1>21 DEF PostBatch
<1>22. ASSUME NEW p \in Procs, Ack(p) PROVE FALSE
  BY <1>1, <1>22 DEF Ack
<1>23. ASSUME NEW p \in Procs, BatchesDone(p) PROVE FALSE
  BY <1>1, <1>23 DEF BatchesDone
<1>24. ASSUME NEW p \in Procs, CloseScan(p) PROVE FALSE
  BY <1>1, <1>24 DEF CloseScan
<1>25. ASSUME NEW p \in Procs, RemoveState(p) PROVE FALSE
  BY <1>1, <1>25 DEF RemoveState
<1>26. ASSUME NEW p \in Procs, Crash(p) PROVE FALSE
  BY <1>1, <1>26 DEF Crash
<1>27. ASSUME ServerRestarts PROVE FALSE
  BY <1>1, <1>27 DEF ServerRestarts
<1>28. ASSUME LateBatch PROVE FALSE
  BY <1>1, <1>28 DEF LateBatch
<1>29. ASSUME GarbleState PROVE FALSE
  BY <1>1, <1>29 DEF GarbleState
<1> QED
  BY <1>2, <1>3, <1>4, <1>5, <1>6, <1>7, <1>8, <1>9, <1>10, <1>11, <1>12, <1>13, <1>14, <1>15, <1>16, <1>17, <1>18, <1>19, <1>20, <1>21, <1>22, <1>23, <1>24, <1>25, <1>26, <1>27, <1>28, <1>29 DEF Next, Starts, Works, Environment

\* Whatever is killed, fails or restarts, and however many runs share the
\* directory: a spooled scan leaves it only after the server reconciled it.
THEOREM RemovedOnlyWhenReconciledAlways ==
  ASSUME FaultBudget["respool"] = 0
  PROVE  Spec => RemovedOnlyWhenReconciled
<1>1. Init => RemovalInv
  BY RemovalInvInit
<1>2. RemovalInv /\ [Next]_vars =>
        [\A s \in spooled : HasPayload(s) /\ ~HasPayload(s)' => reconciled[s]]_vars
  BY RemovalStep
<1> QED
  BY <1>1, <1>2, RemovalInvStep, PTL DEF Spec, RemovedOnlyWhenReconciled


-----------------------------------------------------------------------------
(* Which steps write what.                                                 *)

LEMMA PayloadWriters ==
  ASSUME Next
  PROVE  \/ UNCHANGED payload
         \/ \E p \in Procs : WritePayload(p) \/ Unspool(p) \/ RenamePayload(p) \/ RemovePayload(p)
BY ZenonT(30) DEF Next, Starts, Works, Environment, disk, TransmitReport, TransmitOnly, TransmitFrom, Scope,
  LoadNext, PendingReturns, CountAll, NoNewSpool, WriteState, SendNext, RunEnds, OpenScan,
  AdoptState, ForgetOldState, AskStatus, OpenPayload, PostBatch, Ack, BatchesDone, CloseScan,
  RemoveState, Crash, ServerRestarts, LateBatch, GarbleState

LEMMA StWriters ==
  ASSUME Next
  PROVE  \/ UNCHANGED st
         \/ \E p \in Procs : \/ WriteState(p) \/ AdoptState(p) \/ ForgetOldState(p)
                             \/ Ack(p) \/ RemoveState(p)
         \/ GarbleState
BY ZenonT(30) DEF Next, Starts, Works, Environment, disk, files, TransmitReport, TransmitOnly, TransmitFrom,
  Scope, LoadNext, PendingReturns, CountAll, NoNewSpool, WritePayload, Unspool, SendNext, RunEnds,
  OpenScan, RenamePayload, AskStatus, OpenPayload, PostBatch, BatchesDone, CloseScan,
  RemovePayload, Crash, ServerRestarts, LateBatch

LEMMA SidWriters ==
  ASSUME Next
  PROVE  UNCHANGED sid \/ \E p \in Procs : OpenScan(p)
BY ZenonT(30) DEF Next, Starts, Works, Environment, server, TransmitReport, TransmitOnly, TransmitFrom,
  Scope, LoadNext, PendingReturns, CountAll, NoNewSpool, WritePayload, WriteState, Unspool,
  SendNext, RunEnds, RenamePayload, AdoptState, ForgetOldState, AskStatus, OpenPayload, PostBatch,
  Ack, BatchesDone, CloseScan, RemovePayload, RemoveState, Crash, ServerRestarts, LateBatch,
  GarbleState

LEMMA ReconciledWriters ==
  ASSUME Next
  PROVE  UNCHANGED reconciled \/ \E p \in Procs : CloseScan(p)
BY ZenonT(30) DEF Next, Starts, Works, Environment, server, TransmitReport, TransmitOnly, TransmitFrom,
  Scope, LoadNext, PendingReturns, CountAll, NoNewSpool, WritePayload, WriteState, Unspool,
  SendNext, RunEnds, OpenScan, RenamePayload, AdoptState, ForgetOldState, AskStatus, OpenPayload,
  PostBatch, Ack, BatchesDone, RemovePayload, RemoveState, Crash, ServerRestarts, LateBatch,
  GarbleState

LEMMA WantWriters ==
  ASSUME Next
  PROVE  \/ UNCHANGED <<want, taken, spooled>>
         \/ \E p \in Procs : \/ Starts(p) \/ TransmitFrom(p) \/ WritePayload(p)
                             \/ WriteState(p) \/ Unspool(p) \/ Crash(p)
<1> USE DEF plan, hist
<1>1. ASSUME NEW p \in Procs, Works(p), ~WritePayload(p), ~WriteState(p), ~Unspool(p)
      PROVE  UNCHANGED <<want, taken, spooled>>
  BY <1>1 DEF Works, LoadNext, PendingReturns, CountAll, NoNewSpool, SendNext, RunEnds, OpenScan,
    RenamePayload, AdoptState, ForgetOldState, AskStatus, OpenPayload, PostBatch, Ack,
    BatchesDone, CloseScan, RemovePayload, RemoveState
<1>2. ASSUME Environment PROVE UNCHANGED <<want, taken, spooled>>
  BY <1>2 DEF Environment, ServerRestarts, LateBatch, GarbleState
<1> QED
  BY <1>1, <1>2 DEF Next

-----------------------------------------------------------------------------
(* What a process holds: the names of the spools it has still to send, and *)
(* of the one it is sending.                                               *)

Holds(p, n) ==
  \/ \E c \in queue[p] \union fresh[p] : c.name = n
  \/ pc[p] \in Sending /\ cur[p].name = n

\* A process comes by a spool in three ways: it reads its state file, it
\* made it, or it renamed one it had.
LEMMA HoldsMoves ==
  ASSUME TypeInv, Next, NEW p \in Procs, NEW n \in Names, Holds(p, n)'
  PROVE  \/ Holds(p, n)
         \/ LoadNext(p) /\ st[n] = "ok" /\ Ours(n)
         \/ WriteState(p) /\ n = Own(want[p]) /\ spooled' = spooled \union {want[p]}
         \/ ForgetOldState(p) /\ n = NewName(p)
<1> DEFINE Goal == \/ Holds(p, n)
                   \/ LoadNext(p) /\ st[n] = "ok" /\ Ours(n)
                   \/ WriteState(p) /\ n = Own(want[p]) /\ spooled' = spooled \union {want[p]}
                   \/ ForgetOldState(p) /\ n = NewName(p)
<1>t. /\ pc \in [Procs -> PCs] /\ cur \in [Procs -> Spool \union {NoSpool}]
      /\ queue \in [Procs -> SUBSET Spool] /\ fresh \in [Procs -> SUBSET Spool]
  BY DEF TypeInv, TypeOK
<1> USE DEF Holds, Sending, Goto, GiveUp, RequestFails, SpoolingFails, plan
<1>1. CASE \E q \in Procs : TransmitReport(q) \/ TransmitOnly(q) \/ TransmitFrom(q)
  BY <1>t, <1>1 DEF TransmitReport, TransmitOnly, TransmitFrom, Scope
<1>2. CASE \E q \in Procs : LoadNext(q)
  BY <1>t, <1>2 DEF LoadNext, Loaded
<1>3. CASE \E q \in Procs : PendingReturns(q) \/ CountAll(q) \/ NoNewSpool(q) \/ RunEnds(q)
  BY <1>t, <1>3 DEF PendingReturns, CountAll, NoNewSpool, RunEnds
<1>4. CASE \E q \in Procs : WritePayload(q) \/ Unspool(q)
  BY <1>t, <1>4 DEF WritePayload, Unspool
<1>5. CASE \E q \in Procs : WriteState(q)
  BY <1>t, <1>5 DEF WriteState
<1>6. CASE \E q \in Procs : SendNext(q)
  BY <1>t, <1>6 DEF SendNext
<1>7. CASE \E q \in Procs : OpenScan(q) \/ AskStatus(q) \/ OpenPayload(q)
  BY <1>t, <1>7 DEF OpenScan, AskStatus, OpenPayload, AfterOpen
<1>8. CASE \E q \in Procs : RenamePayload(q) \/ AdoptState(q)
  BY <1>t, <1>8 DEF RenamePayload, AdoptState
<1>9. CASE \E q \in Procs : ForgetOldState(q)
  <2>1. PICK q \in Procs : ForgetOldState(q)
    BY <1>9
  <2>2. cur[q] \in Spool /\ cur' = [cur EXCEPT ![q] = [cur[q] EXCEPT !.name = NewName(q)]]
    BY <2>1, CurTypes DEF ForgetOldState
  <2>3. cur'[q].name = NewName(q)
    BY <1>t, <2>2 DEF Spool
  <2> QED
    BY <1>t, <2>1, <2>2, <2>3 DEF ForgetOldState, AfterOpen
<1>10. CASE \E q \in Procs : PostBatch(q) \/ BatchesDone(q) \/ CloseScan(q)
  BY <1>t, <1>10 DEF PostBatch, BatchesDone, CloseScan
<1>11. CASE \E q \in Procs : Ack(q)
  <2>1. PICK q \in Procs : Ack(q)
    BY <1>11
  <2>2. \A r \in Procs : pc'[r] \in Sending => pc[r] \in Sending /\ cur'[r].name = cur[r].name
    <3>1. CASE UNCHANGED cur
      BY <1>t, <2>1, <3>1 DEF Ack
    <3>2. CASE GiveUp(q)
      BY <1>t, <3>2
    <3>3. CASE cur' = [cur EXCEPT ![q].acked = idx[q] + 1] /\ Goto(q, "post")
      <4>1. cur[q] \in Spool /\ cur' = [cur EXCEPT ![q] = [cur[q] EXCEPT !.acked = idx[q] + 1]]
        BY <2>1, <3>3, CurTypes DEF Ack
      <4>2. cur'[q].name = cur[q].name
        BY <1>t, <4>1 DEF Spool
      <4> QED
        BY <1>t, <2>1, <3>3, <4>1, <4>2 DEF Ack
    <3> QED
      BY <2>1, <3>1, <3>2, <3>3 DEF Ack
  <2> QED
    BY <2>1, <2>2 DEF Ack
<1>12. CASE \E q \in Procs : RemovePayload(q) \/ RemoveState(q) \/ Crash(q)
  BY <1>t, <1>12 DEF RemovePayload, RemoveState, Crash
<1>13. CASE Environment
  BY <1>t, <1>13 DEF Environment, ServerRestarts, LateBatch, GarbleState
<1> QED
  BY <1>1, <1>2, <1>3, <1>4, <1>5, <1>6, <1>7, <1>8, <1>9, <1>10, <1>11, <1>12, <1>13
     DEF Next, Starts, Works

\* The name of the spool in hand is among the names a process holds.
LEMMA HoldsInHand ==
  ASSUME TypeInv, NEW p \in Procs, pc[p] \in Sending
  PROVE  /\ cur[p].name \in Names /\ Holds(p, cur[p].name)
         /\ cur[p].name[1] = ScanOf(cur[p]) /\ ScanOf(cur[p]) \in Scans
BY CurTypes DEF Holds, ScanOf

\* How a payload comes and goes.
LEMMA PayloadMoves ==
  ASSUME TypeInv, Next, NEW n \in Names, payload'[n] # payload[n]
  PROVE  \E p \in Procs :
           \/ WritePayload(p) /\ want[p] \in Scans /\ n = Own(want[p]) /\ payload'[n]
           \/ Unspool(p) /\ want[p] \in Scans /\ n = Own(want[p])
           \/ RenamePayload(p) /\ payload[cur[p].name] /\ payload'[NewName(p)]
                /\ n \in {cur[p].name, NewName(p)}
           \/ RemovePayload(p) /\ n = cur[p].name
<1>t. payload \in [Names -> BOOLEAN] /\ want \in [Procs -> Scans \union {NoScan}]
  BY DEF TypeInv, TypeOK
<1>1. ASSUME NEW p \in Procs, WritePayload(p)
      PROVE  want[p] \in Scans /\ n = Own(want[p]) /\ payload'[n]
  <2>1. want[p] \in Scans /\ Own(want[p]) \in Names
    BY <1>t, <1>1, OwnIsName DEF WritePayload
  <2> QED
    BY <1>t, <1>1, <2>1 DEF WritePayload
<1>2. ASSUME NEW p \in Procs, Unspool(p)
      PROVE  want[p] \in Scans /\ n = Own(want[p])
  <2>1. want[p] \in Scans /\ Own(want[p]) \in Names
    BY <1>2, OwnIsName DEF Unspool, TypeInv, Control
  <2> QED
    BY <1>t, <1>2, <2>1 DEF Unspool
<1>3. ASSUME NEW p \in Procs, RenamePayload(p)
      PROVE  payload[cur[p].name] /\ payload'[NewName(p)] /\ n \in {cur[p].name, NewName(p)}
  <2>1. cur[p].name \in Names /\ NewName(p) \in Names
    BY <1>3, HoldsInHand, NewNameIsName DEF RenamePayload, Sending
  <2>2. /\ payload[cur[p].name]
        /\ payload' = [payload EXCEPT ![cur[p].name] = FALSE, ![NewName(p)] = TRUE]
    BY <1>3 DEF RenamePayload
  <2> QED
    BY <1>t, <2>1, <2>2
<1>4. ASSUME NEW p \in Procs, RemovePayload(p) PROVE n = cur[p].name
  <2>1. cur[p].name \in Names
    BY <1>4, HoldsInHand DEF RemovePayload, Sending
  <2> QED
    BY <1>t, <1>4, <2>1 DEF RemovePayload
<1> QED
  BY <1>1, <1>2, <1>3, <1>4, PayloadWriters

\* How a state file comes and goes.
LEMMA StateMoves ==
  ASSUME TypeInv, Next, NEW n \in Names, st'[n] # st[n]
  PROVE  \/ \E p \in Procs :
              \/ WriteState(p) /\ want[p] \in Scans /\ n = Own(want[p]) /\ st'[n] = "ok"
              \/ AdoptState(p) /\ n = NewName(p) /\ st'[n] = "ok"
              \/ Ack(p) /\ n = cur[p].name /\ st'[n] = "ok"
              \/ ForgetOldState(p) /\ n = cur[p].name
              \/ RemoveState(p) /\ n = cur[p].name
         \/ GarbleState /\ st[n] = "ok" /\ st'[n] = "garbled"
<1>t. st \in [Names -> {"none", "ok", "garbled"}]
  BY DEF TypeInv, TypeOK
<1> USE DEF SaveState, SaveStateFails, files
<1>1. ASSUME NEW p \in Procs, WriteState(p)
      PROVE  want[p] \in Scans /\ n = Own(want[p]) /\ st'[n] = "ok"
  <2>1. want[p] \in Scans /\ Own(want[p]) \in Names
    BY <1>1, OwnIsName DEF WriteState, TypeInv, Control
  <2>2. st' = [st EXCEPT ![Own(want[p])] = "ok"] \/ UNCHANGED st
    BY <1>1 DEF WriteState
  <2> QED
    BY <1>t, <2>1, <2>2
<1>2. ASSUME NEW p \in Procs, AdoptState(p) PROVE n = NewName(p) /\ st'[n] = "ok"
  <2>1. NewName(p) \in Names
    BY <1>2, NewNameIsName DEF AdoptState
  <2>2. st' = [st EXCEPT ![NewName(p)] = "ok"] \/ UNCHANGED st
    BY <1>2 DEF AdoptState
  <2> QED
    BY <1>t, <2>1, <2>2
<1>3. ASSUME NEW p \in Procs, Ack(p) PROVE n = cur[p].name /\ st'[n] = "ok"
  <2>1. cur[p].name \in Names
    BY <1>3, HoldsInHand DEF Ack, Sending
  <2>2. st' = [st EXCEPT ![cur[p].name] = "ok"] \/ UNCHANGED st
    BY <1>3 DEF Ack
  <2> QED
    BY <1>t, <2>1, <2>2
<1>4. ASSUME NEW p \in Procs, ForgetOldState(p) \/ RemoveState(p) PROVE n = cur[p].name
  <2>1. cur[p].name \in Names
    BY <1>4, HoldsInHand DEF ForgetOldState, RemoveState, Sending
  <2>2. st' = [st EXCEPT ![cur[p].name] = "none"] \/ UNCHANGED st
    BY <1>4 DEF ForgetOldState, RemoveState
  <2> QED
    BY <1>t, <2>1, <2>2
<1>5. ASSUME GarbleState PROVE st[n] = "ok" /\ st'[n] = "garbled"
  BY <1>t, <1>5 DEF GarbleState
<1> QED
  BY <1>1, <1>2, <1>3, <1>4, <1>5, StWriters

\* The server learns of a scan when it is opened, and keeps its identifier.
LEMMA SidMoves ==
  ASSUME TypeInv, Next, NEW s \in Scans, sid'[s] # sid[s]
  PROVE  sid[s] = "unknown" /\ \E p \in Procs : OpenScan(p) /\ s = ScanOf(cur[p])
<1>t. sid \in [Scans -> {"unknown", "own", "minted"}]
  BY DEF TypeInv, TypeOK
<1>1. PICK p \in Procs : OpenScan(p)
  BY SidWriters
<1>2. ScanOf(cur[p]) \in Scans
  BY <1>1, HoldsInHand DEF OpenScan, Sending
<1>3. PICK id \in ServerIds(ScanOf(cur[p])) : sid' = [sid EXCEPT ![ScanOf(cur[p])] = id]
  BY <1>1 DEF OpenScan
<1>4. s = ScanOf(cur[p])
  BY <1>t, <1>2, <1>3
<1>5. sid[s] = "unknown"
  BY <1>t, <1>2, <1>3, <1>4 DEF ServerIds
<1> QED
  BY <1>1, <1>4, <1>5

\* Where the batches a server holds come from.
LEMMA StoredMoves ==
  ASSUME TypeInv, Next, NEW s \in Scans
  PROVE  /\ \/ stored'[s] \subseteq stored[s]
            \/ \E p \in Procs : PostBatch(p) /\ s = ScanOf(cur[p])
            \/ \E r \in late : r[1] = s
         /\ \A r \in late' : r \in late \/ \E p \in Procs : PostBatch(p) /\ r[1] = ScanOf(cur[p])
<1>t. stored \in [Scans -> SUBSET Nat] /\ late \subseteq Scans \X Nat
  BY DEF TypeInv, TypeOK
<1>1. \/ UNCHANGED <<stored, late>>
      \/ \E p \in Procs : PostBatch(p)
      \/ LateBatch \/ ServerRestarts
  <2> USE DEF server
  <2>1. ASSUME NEW p \in Procs, Works(p), ~PostBatch(p) PROVE UNCHANGED <<stored, late>>
    BY <2>1 DEF Works, LoadNext, PendingReturns, CountAll, NoNewSpool, WritePayload, WriteState,
      Unspool, SendNext, RunEnds, OpenScan, RenamePayload, AdoptState, ForgetOldState, AskStatus,
      OpenPayload, Ack, BatchesDone, CloseScan, RemovePayload, RemoveState
  <2>2. ASSUME NEW p \in Procs, Starts(p) \/ TransmitFrom(p) \/ Crash(p) PROVE UNCHANGED <<stored, late>>
    BY <2>2 DEF Starts, TransmitReport, TransmitOnly, TransmitFrom, Scope, Crash
  <2>3. GarbleState => UNCHANGED <<stored, late>>
    BY DEF GarbleState
  <2> QED
    BY <2>1, <2>2, <2>3 DEF Next, Environment
<1>2. ASSUME NEW p \in Procs, PostBatch(p)
      PROVE  /\ stored'[s] \subseteq stored[s] \/ s = ScanOf(cur[p])
             /\ \A r \in late' : r \in late \/ r[1] = ScanOf(cur[p])
  <2>1. ScanOf(cur[p]) \in Scans
    BY <1>2, HoldsInHand DEF PostBatch, Sending
  <2> QED
    BY <1>t, <1>2, <2>1 DEF PostBatch, Take
<1>3. ASSUME LateBatch
      PROVE  (stored'[s] \subseteq stored[s] \/ \E r \in late : r[1] = s) /\ late' \subseteq late
  <2>1. PICK r \in late : Take(r[1], r[2]) /\ late' = late \ {r}
    BY <1>3 DEF LateBatch
  <2>2. r[1] \in Scans
    BY <1>t, <2>1
  <2> QED
    BY <1>t, <2>1, <2>2 DEF Take
<1>4. ASSUME ServerRestarts PROVE stored'[s] \subseteq stored[s] /\ late' = late
  BY <1>t, <1>4 DEF ServerRestarts
<1> QED
  BY <1>1, <1>2, <1>3, <1>4

\* Whose scan a process sets out to spool, and what becomes of it.
LEMMA WantMoves ==
  ASSUME TypeInv, Next, NEW p \in Procs
  PROVE  /\ \/ want'[p] = want[p]
            \/ want'[p] \notin Scans
            \/ /\ TransmitReport(p)
               /\ want'[p] \in Scans \ taken
               /\ taken' = taken \union {want'[p]}
            \/ TransmitFrom(p) /\ want'[p] \in spooled
         /\ \/ UNCHANGED spooled
            \/ \E q \in Procs : /\ WriteState(q) /\ want[q] \in Scans
                                /\ spooled' = spooled \union {want[q]}
                                /\ want' = [want EXCEPT ![q] = NoScan]
         /\ taken \subseteq taken'
<1>t. want \in [Procs -> Scans \union {NoScan}] /\ NoScan \notin Scans /\ spooled \subseteq Scans
  BY ConstantsAssumption DEF TypeInv, TypeOK
<1> USE DEF plan, hist
<1>1. CASE UNCHANGED <<want, taken, spooled>>
  BY <1>1
<1>2. CASE \E q \in Procs : TransmitReport(q) \/ TransmitOnly(q) \/ TransmitFrom(q)
  BY <1>t, <1>2 DEF TransmitReport, TransmitOnly, TransmitFrom, Scope
<1>3. CASE \E q \in Procs : WritePayload(q) \/ Unspool(q) \/ Crash(q)
  BY <1>t, <1>3 DEF WritePayload, Unspool, SpoolingFails, Crash
<1>4. CASE \E q \in Procs : WriteState(q)
  BY <1>t, <1>4 DEF WriteState, TypeInv, Control
<1> QED
  BY <1>1, <1>2, <1>3, <1>4, WantWriters DEF Starts

-----------------------------------------------------------------------------
(* Exit code 0.                                                            *)

\* What the server reconciled stays reconciled, and only a close reconciles.
LEMMA ReconciledStays ==
  ASSUME TypeInv, Next, NEW s \in Scans
  PROVE  /\ reconciled[s] => reconciled'[s]
         /\ reconciled'[s] => \/ reconciled[s]
                              \/ \E p \in Procs : CloseScan(p) /\ s = ScanOf(cur[p])
<1>1. reconciled \in [Scans -> BOOLEAN]
  BY DEF TypeInv, TypeOK
<1>2. ASSUME NEW p \in Procs, CloseScan(p)
      PROVE  /\ ScanOf(cur[p]) \in Scans
             /\ \/ UNCHANGED reconciled
                \/ reconciled' = [reconciled EXCEPT ![ScanOf(cur[p])] = TRUE]
                \/ reconciled' = [reconciled EXCEPT ![ScanOf(cur[p])] = @ \/ stored[ScanOf(cur[p])] = Batches(ScanOf(cur[p]))]
  BY <1>2, CurTypes DEF CloseScan, Sending
<1>3. CASE UNCHANGED reconciled
  BY <1>3
<1>4. ASSUME NEW p \in Procs, CloseScan(p)
      PROVE  /\ reconciled[s] => reconciled'[s]
             /\ reconciled'[s] => reconciled[s] \/ s = ScanOf(cur[p])
  BY <1>1, <1>2, <1>4
<1> QED
  BY <1>3, <1>4, ReconciledWriters

\* What a process has still to send, or is sending and has not closed.
Owes(p, s) ==
  \/ \E c \in queue[p] \union fresh[p] : c.name[1] = s
  \/ pc[p] \in Sending \ {"tidy1", "tidy2"} /\ ScanOf(cur[p]) = s

\* A run makes one spool at most, after its listing and before its sends, and
\* ends with nothing left to send.
OneFresh ==
  \A p \in Procs :
    /\ pc[p] \in {"idle", "list", "count", "payload", "state", "unspool"} => fresh[p] = {}
    /\ pc[p] = "idle" => queue[p] = {}
    /\ \A a, b \in fresh[p] : a = b

\* A run that still means to exit 0 has sent, or has still to send, every scan
\* it set out to send.
Accounted ==
  \A p \in Procs : exit[p] = "ok" => \A s \in promised[p] : reconciled[s] \/ Owes(p, s)

ExitInv == TypeInv /\ OneFresh /\ Accounted

LEMMA ExitInvInit == Init => ExitInv
BY TypeInvInit DEF Init, ExitInv, OneFresh, Accounted

LEMMA OneFreshStep == TypeInv /\ OneFresh /\ Next => OneFresh'
<1> SUFFICES ASSUME TypeInv, OneFresh, Next, NEW p \in Procs
             PROVE  /\ pc'[p] \in {"idle", "list", "count", "payload", "state", "unspool"} => fresh'[p] = {}
                    /\ pc'[p] = "idle" => queue'[p] = {}
                    /\ \A a, b \in fresh'[p] : a = b
  BY DEF OneFresh
<1>t. /\ pc \in [Procs -> PCs] /\ queue \in [Procs -> SUBSET Spool] /\ fresh \in [Procs -> SUBSET Spool]
  BY DEF TypeInv, TypeOK
<1> USE DEF OneFresh, Goto, GiveUp, RequestFails, SpoolingFails, plan
<1>1. CASE \E q \in Procs : TransmitReport(q) \/ TransmitOnly(q) \/ TransmitFrom(q)
  BY <1>t, <1>1 DEF TransmitReport, TransmitOnly, TransmitFrom, Scope
<1>2. CASE \E q \in Procs : LoadNext(q) \/ PendingReturns(q) \/ CountAll(q) \/ NoNewSpool(q) \/ RunEnds(q)
  BY <1>t, <1>2 DEF LoadNext, PendingReturns, CountAll, NoNewSpool, RunEnds
<1>3. CASE \E q \in Procs : WritePayload(q) \/ WriteState(q) \/ Unspool(q)
  BY <1>t, <1>3 DEF WritePayload, WriteState, Unspool
<1>4. CASE \E q \in Procs : SendNext(q)
  BY <1>t, <1>4 DEF SendNext
<1>5. CASE \E q \in Procs : OpenScan(q) \/ AskStatus(q) \/ OpenPayload(q) \/ RenamePayload(q)
                            \/ AdoptState(q) \/ ForgetOldState(q)
  BY <1>t, <1>5 DEF OpenScan, AskStatus, OpenPayload, AfterOpen, RenamePayload, AdoptState, ForgetOldState
<1>6. CASE \E q \in Procs : PostBatch(q) \/ BatchesDone(q) \/ CloseScan(q) \/ Ack(q)
  BY <1>t, <1>6 DEF PostBatch, BatchesDone, CloseScan, Ack
<1>7. CASE \E q \in Procs : RemovePayload(q) \/ RemoveState(q) \/ Crash(q)
  BY <1>t, <1>7 DEF RemovePayload, RemoveState, Crash
<1>8. CASE Environment
  BY <1>t, <1>8 DEF Environment, ServerRestarts, LateBatch, GarbleState
<1> QED
  BY <1>1, <1>2, <1>3, <1>4, <1>5, <1>6, <1>7, <1>8 DEF Next, Starts, Works

LEMMA AccountedStep == ExitInv /\ Next => Accounted'
<1> SUFFICES ASSUME ExitInv, Next, NEW p \in Procs, exit'[p] = "ok", NEW s \in promised'[p]
             PROVE  reconciled'[s] \/ Owes(p, s)'
  BY DEF Accounted
<1>t. /\ pc \in [Procs -> PCs] /\ queue \in [Procs -> SUBSET Spool] /\ fresh \in [Procs -> SUBSET Spool]
      /\ cur \in [Procs -> Spool \union {NoSpool}] /\ promised \in [Procs -> SUBSET Scans]
      /\ exit \in [Procs -> {"ok", "failed", "killed"}]
  BY DEF ExitInv, TypeInv, TypeOK
<1>a. TypeInv /\ OneFresh /\ Accounted
  BY DEF ExitInv
<1>r. \A t \in Scans : reconciled[t] => reconciled'[t]
  BY <1>a, ReconciledStays
<1>b. s \in promised[p] /\ exit[p] = "ok" => s \in Scans /\ (reconciled'[s] \/ Owes(p, s))
  BY <1>t, <1>a, <1>r DEF Accounted
<1> USE DEF Owes, Sending, Goto, GiveUp, RequestFails, SpoolingFails, plan
<1>1. CASE \E q \in Procs : TransmitReport(q) \/ TransmitOnly(q) \/ TransmitFrom(q)
  BY <1>t, <1>b, <1>1 DEF TransmitReport, TransmitOnly, TransmitFrom, Scope
<1>2. CASE \E q \in Procs : LoadNext(q)
  <2>1. PICK q \in Procs : LoadNext(q)
    BY <1>2
  <2>2. UNCHANGED <<fresh, cur, exit, reconciled>> /\ pc[q] = "list"
    BY <2>1 DEF LoadNext, server
  <2>3. CASE UNCHANGED <<queue, promised>>
    BY <1>t, <1>b, <2>1, <2>2, <2>3 DEF LoadNext
  <2>4. ASSUME NEW n \in listing[q],
               queue' = [queue EXCEPT ![q] = @ \union {Loaded(n)}],
               promised' = [promised EXCEPT ![q] = @ \union {n[1]}],
               UNCHANGED pc
        PROVE  reconciled'[s] \/ Owes(p, s)'
    <3>1. Loaded(n).name[1] = n[1]
      BY DEF Loaded
    <3> QED
      BY <1>t, <1>b, <2>2, <2>4, <3>1
  <2> QED
    BY <2>1, <2>3, <2>4 DEF LoadNext
<1>3. CASE \E q \in Procs : PendingReturns(q) \/ CountAll(q) \/ NoNewSpool(q) \/ RunEnds(q)
  BY <1>t, <1>b, <1>3 DEF PendingReturns, CountAll, NoNewSpool, RunEnds
<1>4. CASE \E q \in Procs : WritePayload(q) \/ Unspool(q)
  BY <1>t, <1>b, <1>4 DEF WritePayload, Unspool
<1>5. CASE \E q \in Procs : WriteState(q)
  <2>1. PICK q \in Procs : WriteState(q)
    BY <1>5
  <2>2. fresh[q] = {} /\ UNCHANGED <<queue, cur, exit, reconciled>> /\ pc[q] = "state"
    BY <1>a, <2>1 DEF WriteState, OneFresh, server
  <2>3. CASE UNCHANGED <<fresh, promised>> /\ Goto(q, "unspool")
    BY <1>t, <1>b, <2>2, <2>3
  <2>4. CASE /\ fresh' = [fresh EXCEPT ![q] = {[name |-> Own(want[q]), acked |-> 0, created |-> clock]}]
             /\ promised' = [promised EXCEPT ![q] = @ \union {want[q]}]
             /\ Goto(q, "next")
    <3>1. fresh'[q] = {[name |-> Own(want[q]), acked |-> 0, created |-> clock]}
      BY <1>t, <2>4
    <3>2. \E c \in fresh'[q] : c.name[1] = want[q]
      BY <3>1 DEF Own
    <3> QED
      BY <1>t, <1>b, <2>2, <2>4, <3>2
  <2> QED
    BY <2>1, <2>3, <2>4 DEF WriteState
<1>6. CASE \E q \in Procs : SendNext(q)
  BY <1>t, <1>a, <1>b, <1>6 DEF SendNext, OneFresh, ScanOf
<1>7. CASE \E q \in Procs : OpenScan(q) \/ AskStatus(q) \/ OpenPayload(q)
  BY <1>t, <1>b, <1>7 DEF OpenScan, AskStatus, OpenPayload, AfterOpen
<1>8. CASE \E q \in Procs : RenamePayload(q) \/ AdoptState(q)
  BY <1>t, <1>b, <1>8 DEF RenamePayload, AdoptState
<1>9. CASE \E q \in Procs : ForgetOldState(q)
  <2>1. PICK q \in Procs : ForgetOldState(q)
    BY <1>9
  <2>2. cur[q] \in Spool /\ cur' = [cur EXCEPT ![q] = [cur[q] EXCEPT !.name = NewName(q)]]
    BY <1>a, <2>1, CurTypes DEF ForgetOldState
  <2>3. ScanOf(cur'[q]) = ScanOf(cur[q])
    BY <1>t, <2>2 DEF Spool, ScanOf, NewName
  <2> QED
    BY <1>t, <1>b, <2>1, <2>2, <2>3 DEF ForgetOldState, AfterOpen
<1>10. CASE \E q \in Procs : PostBatch(q) \/ BatchesDone(q)
  BY <1>t, <1>b, <1>10 DEF PostBatch, BatchesDone
<1>11. CASE \E q \in Procs : CloseScan(q)
  <2>1. PICK q \in Procs : CloseScan(q)
    BY <1>11
  <2>2. ScanOf(cur[q]) \in Scans /\ reconciled \in [Scans -> BOOLEAN] /\ pc[q] = "close"
    BY <1>a, <2>1, CurTypes DEF CloseScan, TypeInv, TypeOK
  <2>3. CASE GiveUp(q)
    BY <1>t, <1>b, <2>1, <2>2, <2>3 DEF CloseScan
  <2>4. CASE reconciled' = [reconciled EXCEPT ![ScanOf(cur[q])] = TRUE] /\ Goto(q, "tidy1") /\ UNCHANGED <<cur, exit>>
    BY <1>t, <1>b, <2>1, <2>2, <2>4 DEF CloseScan
  <2> QED
    BY <2>1, <2>3, <2>4 DEF CloseScan
<1>12. CASE \E q \in Procs : Ack(q)
  <2>1. PICK q \in Procs : Ack(q)
    BY <1>12
  <2>2. CASE GiveUp(q)
    BY <1>t, <1>b, <2>1, <2>2 DEF Ack
  <2>3. CASE UNCHANGED <<cur, exit>> /\ Goto(q, "post")
    BY <1>t, <1>b, <2>1, <2>3 DEF Ack
  <2>4. CASE cur' = [cur EXCEPT ![q].acked = idx[q] + 1] /\ UNCHANGED exit /\ Goto(q, "post")
    <3>1. cur[q] \in Spool /\ cur' = [cur EXCEPT ![q] = [cur[q] EXCEPT !.acked = idx[q] + 1]]
      BY <1>a, <2>1, <2>4, CurTypes DEF Ack
    <3>2. ScanOf(cur'[q]) = ScanOf(cur[q])
      BY <1>t, <3>1 DEF Spool, ScanOf
    <3> QED
      BY <1>t, <1>b, <2>1, <2>4, <3>1, <3>2 DEF Ack
  <2> QED
    BY <2>1, <2>2, <2>3, <2>4 DEF Ack
<1>13. CASE \E q \in Procs : RemovePayload(q) \/ RemoveState(q) \/ Crash(q)
  BY <1>t, <1>b, <1>13 DEF RemovePayload, RemoveState, Crash
<1>14. CASE Environment
  BY <1>t, <1>b, <1>14 DEF Environment, ServerRestarts, LateBatch, GarbleState
<1> QED
  BY <1>1, <1>2, <1>3, <1>4, <1>5, <1>6, <1>7, <1>8, <1>9, <1>10, <1>11, <1>12, <1>13, <1>14
     DEF Next, Starts, Works

LEMMA ExitInvStep == ExitInv /\ [Next]_vars => ExitInv'
<1>1. ExitInv /\ Next => ExitInv'
  BY TypeInvStep, OneFreshStep, AccountedStep DEF ExitInv
<1>2. ExitInv /\ UNCHANGED vars => ExitInv'
  BY TypeInvStep DEF ExitInv, OneFresh, Accounted, Owes, vars, plan, server
<1> QED
  BY <1>1, <1>2

\* Exit code 0 is the truth for any number of runs over one directory, and
\* whatever fails: nothing of what the run set out to send is unaccounted for.
THEOREM ExitOKMeansDeliveredAlways == Spec => []ExitOKMeansDelivered
<1>1. ExitInv => ExitOKMeansDelivered
  BY DEF ExitInv, OneFresh, Accounted, Owes, ExitOKMeansDelivered, Sending
<1> QED
  BY <1>1, ExitInvInit, ExitInvStep, PTL DEF Spec

-----------------------------------------------------------------------------
(* The backlog of another server.                                          *)

\* No run of this endpoint holds, wants or sends a foreign scan.
ForeignApart ==
  /\ ForeignScans \subseteq taken \ spooled
  /\ \A p \in Procs : want[p] \notin ForeignScans
  /\ \A p \in Procs, n \in Names : Holds(p, n) => n[1] \notin ForeignScans
  /\ \A r \in late : r[1] \notin ForeignScans

\* Its spools lie where they were, and this server knows nothing of them.
ForeignKept ==
  \A s \in ForeignScans :
    sid[s] = "unknown" /\ stored[s] = {} /\ payload[Own(s)] /\ st[Own(s)] # "none"

ForeignInv == TypeInv /\ ForeignApart /\ ForeignKept

LEMMA ForeignInvInit == Init => ForeignInv
<1> SUFFICES ASSUME Init PROVE ForeignInv
  OBVIOUS
<1>1. ForeignApart
  BY ConstantsAssumption DEF Init, ForeignApart, Holds, Sending
<1>2. ForeignKept
  BY ConstantsAssumption, OwnIsName DEF Init, ForeignKept
<1> QED
  BY <1>1, <1>2, TypeInvInit DEF ForeignInv

LEMMA ForeignApartStep == ForeignInv /\ Next => ForeignApart'
<1> SUFFICES ASSUME ForeignInv, Next PROVE ForeignApart'
  OBVIOUS
<1>a. TypeInv /\ ForeignApart
  BY DEF ForeignInv
<1>1. ForeignScans \subseteq taken' \ spooled'
  <2>1. taken \subseteq taken' \/ Procs = {}
    BY <1>a, WantMoves
  <2>2. Procs = {} => UNCHANGED taken
    BY DEF Next, Environment, ServerRestarts, LateBatch, GarbleState, hist
  <2>3. \A s \in spooled' : s \in spooled \/ \E q \in Procs : s = want[q]
    <3>1. Procs = {} => UNCHANGED spooled
      BY DEF Next, Environment, ServerRestarts, LateBatch, GarbleState, hist
    <3>2. ASSUME NEW p \in Procs
          PROVE  UNCHANGED spooled \/ \E q \in Procs : spooled' = spooled \union {want[q]}
      BY <1>a, WantMoves
    <3> QED
      BY <3>1, <3>2
  <2> QED
    BY <1>a, <2>1, <2>2, <2>3 DEF ForeignApart
<1>2. ASSUME NEW p \in Procs PROVE want'[p] \notin ForeignScans
  BY <1>a, WantMoves, ConstantsAssumption DEF ForeignApart
<1>3. ASSUME NEW p \in Procs, NEW n \in Names, Holds(p, n)' PROVE n[1] \notin ForeignScans
  <2>1. CASE LoadNext(p) /\ st[n] = "ok" /\ Ours(n)
    BY <2>1 DEF Ours
  <2>2. CASE WriteState(p) /\ n = Own(want[p])
    BY <1>a, <2>2 DEF ForeignApart, Own
  <2>3. CASE ForgetOldState(p) /\ n = NewName(p)
    BY <1>a, <2>3, HoldsInHand DEF ForgetOldState, Sending, NewName, ForeignApart
  <2> QED
    BY <1>a, <1>3, <2>1, <2>2, <2>3, HoldsMoves DEF ForeignApart
<1>4. ASSUME NEW r \in late' PROVE r[1] \notin ForeignScans
  <2>1. ASSUME NEW p \in Procs, PostBatch(p), r[1] = ScanOf(cur[p]) PROVE r[1] \notin ForeignScans
    BY <1>a, <2>1, HoldsInHand DEF PostBatch, Sending, ForeignApart
  <2>2. r \in late \/ \E p \in Procs : PostBatch(p) /\ r[1] = ScanOf(cur[p])
    <3>1. CASE Scans = {}
      BY <1>a, <3>1, TypeInvStep DEF TypeInv, TypeOK
    <3>2. CASE Scans # {}
      BY <1>a, <3>2, StoredMoves
    <3> QED
      BY <3>1, <3>2
  <2> QED
    BY <1>a, <2>1, <2>2 DEF ForeignApart
<1> QED
  BY <1>1, <1>2, <1>3, <1>4 DEF ForeignApart

LEMMA ForeignKeptStep == ForeignInv /\ Next => ForeignKept'
<1> SUFFICES ASSUME ForeignInv, Next, NEW s \in ForeignScans
             PROVE  /\ sid'[s] = "unknown" /\ stored'[s] = {}
                    /\ payload'[Own(s)] /\ st'[Own(s)] # "none"
  BY DEF ForeignKept
<1>a. TypeInv /\ ForeignApart /\ ForeignKept /\ s \in Scans /\ Own(s) \in Names /\ Own(s)[1] = s
  BY ConstantsAssumption, OwnIsName DEF ForeignInv
<1>h. ASSUME NEW p \in Procs, pc[p] \in Sending
      PROVE  ScanOf(cur[p]) # s /\ cur[p].name # Own(s)
  BY <1>a, <1>h, HoldsInHand DEF ForeignApart
<1>n. ASSUME NEW p \in Procs, pc[p] \in {"rename", "adopt", "forget"} PROVE NewName(p) # Own(s)
  BY <1>a, <1>n, <1>h, NewNameIsName DEF Sending
<1>w. ASSUME NEW p \in Procs, want[p] \in Scans PROVE Own(want[p]) # Own(s)
  BY <1>a DEF ForeignApart, Own
<1>1. sid'[s] = "unknown"
  <2>1. ASSUME NEW p \in Procs, OpenScan(p) PROVE s # ScanOf(cur[p])
    BY <2>1, <1>h DEF OpenScan, Sending
  <2> QED
    BY <1>a, <2>1, SidMoves DEF ForeignKept
<1>2. stored'[s] = {}
  <2>1. ASSUME NEW p \in Procs, PostBatch(p) PROVE s # ScanOf(cur[p])
    BY <2>1, <1>h DEF PostBatch, Sending
  <2> QED
    BY <1>a, <2>1, StoredMoves DEF ForeignKept, ForeignApart
<1>3. payload'[Own(s)]
  <2>1. payload'[Own(s)] = payload[Own(s)]
    <3>1. ASSUME NEW p \in Procs, RenamePayload(p) \/ RemovePayload(p)
          PROVE  Own(s) # cur[p].name /\ (RenamePayload(p) => Own(s) # NewName(p))
      BY <3>1, <1>h, <1>n DEF RenamePayload, RemovePayload, Sending
    <3> QED
      BY <1>a, <1>w, <3>1, PayloadMoves
  <2> QED
    BY <1>a, <2>1 DEF ForeignKept
<1>4. st'[Own(s)] # "none"
  <2>1. ASSUME NEW p \in Procs, ForgetOldState(p) \/ RemoveState(p) PROVE Own(s) # cur[p].name
    BY <2>1, <1>h DEF ForgetOldState, RemoveState, Sending
  <2> QED
    BY <1>a, <2>1, StateMoves DEF ForeignKept
<1> QED
  BY <1>1, <1>2, <1>3, <1>4

LEMMA ForeignInvStep == ForeignInv /\ [Next]_vars => ForeignInv'
<1>1. ForeignInv /\ Next => ForeignInv'
  BY TypeInvStep, ForeignApartStep, ForeignKeptStep DEF ForeignInv
<1>2. ForeignInv /\ UNCHANGED vars => ForeignInv'
  BY TypeInvStep DEF ForeignInv, ForeignApart, ForeignKept, Holds, vars, disk, files, server, plan, hist
<1> QED
  BY <1>1, <1>2

\* A name is in a process's queue once, and not while it is still to be read.
QueueOnce ==
  \A p \in Procs :
    /\ \A a, b \in queue[p] : a.name = b.name => a = b
    /\ pc[p] = "list" => \A c \in queue[p] : c.name \notin listing[p]

LEMMA QueueOnceStep == TypeInv /\ QueueOnce /\ Next => QueueOnce'
<1> SUFFICES ASSUME TypeInv, QueueOnce, Next, NEW p \in Procs
             PROVE  /\ \A a, b \in queue'[p] : a.name = b.name => a = b
                    /\ pc'[p] = "list" => \A c \in queue'[p] : c.name \notin listing'[p]
  BY DEF QueueOnce
<1>t. /\ pc \in [Procs -> PCs] /\ queue \in [Procs -> SUBSET Spool]
      /\ listing \in [Procs -> SUBSET Names]
  BY DEF TypeInv, TypeOK
<1> USE DEF QueueOnce, Goto, GiveUp, RequestFails, SpoolingFails, plan
<1>1. CASE \E q \in Procs : TransmitReport(q) \/ TransmitOnly(q) \/ TransmitFrom(q)
  BY <1>t, <1>1 DEF TransmitReport, TransmitOnly, TransmitFrom, Scope
<1>2. CASE \E q \in Procs : LoadNext(q)
  <2>1. PICK q \in Procs : LoadNext(q)
    BY <1>2
  <2>2. PICK n \in listing[q] :
          \/ /\ UNCHANGED queue
             /\ listing' = [listing EXCEPT ![q] = @ \ {n}] \/ pc'[q] = "count"
          \/ /\ queue' = [queue EXCEPT ![q] = @ \union {Loaded(n)}]
             /\ listing' = [listing EXCEPT ![q] = @ \ {n}]
    BY <1>t, <2>1 DEF LoadNext
  <2>3. Loaded(n).name = n
    BY DEF Loaded
  <2>4. pc[q] = "list" /\ \A r \in Procs \ {q} : pc'[r] = pc[r] /\ listing'[r] = listing[r]
    BY <1>t, <2>1 DEF LoadNext
  <2> QED
    BY <1>t, <2>2, <2>3, <2>4
<1>3. CASE \E q \in Procs : PendingReturns(q) \/ CountAll(q) \/ NoNewSpool(q) \/ RunEnds(q)
  BY <1>t, <1>3 DEF PendingReturns, CountAll, NoNewSpool, RunEnds
<1>4. CASE \E q \in Procs : WritePayload(q) \/ WriteState(q) \/ Unspool(q)
  BY <1>t, <1>4 DEF WritePayload, WriteState, Unspool
<1>5. CASE \E q \in Procs : SendNext(q)
  BY <1>t, <1>5 DEF SendNext
<1>6. CASE \E q \in Procs : OpenScan(q) \/ AskStatus(q) \/ OpenPayload(q) \/ RenamePayload(q)
                            \/ AdoptState(q) \/ ForgetOldState(q)
  BY <1>t, <1>6 DEF OpenScan, AskStatus, OpenPayload, AfterOpen, RenamePayload, AdoptState, ForgetOldState
<1>7. CASE \E q \in Procs : PostBatch(q) \/ BatchesDone(q) \/ CloseScan(q) \/ Ack(q)
  BY <1>t, <1>7 DEF PostBatch, BatchesDone, CloseScan, Ack
<1>8. CASE \E q \in Procs : RemovePayload(q) \/ RemoveState(q) \/ Crash(q)
  BY <1>t, <1>8 DEF RemovePayload, RemoveState, Crash
<1>9. CASE Environment
  BY <1>t, <1>9 DEF Environment, ServerRestarts, LateBatch, GarbleState
<1> QED
  BY <1>1, <1>2, <1>3, <1>4, <1>5, <1>6, <1>7, <1>8, <1>9 DEF Next, Starts, Works

\* Only the count of a process takes it from its listing to its own spool.
LEMMA CountMoves ==
  ASSUME TypeInv, Next, NEW p \in Procs, pc[p] = "count", pc'[p] = "payload"
  PROVE  CountAll(p)
<1>t. pc \in [Procs -> PCs]
  BY DEF TypeInv, TypeOK
<1> USE DEF Goto, GiveUp, RequestFails, SpoolingFails
<1>1. CASE \E q \in Procs : TransmitReport(q) \/ TransmitOnly(q) \/ TransmitFrom(q)
  BY <1>t, <1>1 DEF TransmitReport, TransmitOnly, TransmitFrom, Scope
<1>2. CASE \E q \in Procs : LoadNext(q) \/ PendingReturns(q) \/ CountAll(q) \/ NoNewSpool(q) \/ RunEnds(q)
  BY <1>t, <1>2 DEF LoadNext, PendingReturns, CountAll, NoNewSpool, RunEnds
<1>3. CASE \E q \in Procs : WritePayload(q) \/ WriteState(q) \/ Unspool(q) \/ SendNext(q)
  BY <1>t, <1>3 DEF WritePayload, WriteState, Unspool, SendNext
<1>4. CASE \E q \in Procs : OpenScan(q) \/ AskStatus(q) \/ OpenPayload(q) \/ RenamePayload(q)
                            \/ AdoptState(q) \/ ForgetOldState(q)
  BY <1>t, <1>4 DEF OpenScan, AskStatus, OpenPayload, AfterOpen, RenamePayload, AdoptState, ForgetOldState
<1>5. CASE \E q \in Procs : PostBatch(q) \/ BatchesDone(q) \/ CloseScan(q) \/ Ack(q)
  BY <1>t, <1>5 DEF PostBatch, BatchesDone, CloseScan, Ack
<1>6. CASE \E q \in Procs : RemovePayload(q) \/ RemoveState(q) \/ Crash(q)
  BY <1>t, <1>6 DEF RemovePayload, RemoveState, Crash
<1>7. CASE Environment
  BY <1>t, <1>7 DEF Environment, ServerRestarts, LateBatch, GarbleState
<1> QED
  BY <1>1, <1>2, <1>3, <1>4, <1>5, <1>6, <1>7 DEF Next, Starts, Works

\* The state files outnumber the queue: its names are among theirs, once each,
\* and the name of a foreign spool is not.
LEMMA StateFilesOutnumberQueue ==
  ASSUME IsFiniteSet(Scans), ForeignInv, QueueOnce, NEW p \in Procs, ForeignScans # {},
         \A c \in queue[p] : st[c.name] # "none"
  PROVE  Cardinality({n \in Names : st[n] # "none"}) > Cardinality(queue[p])
<1> DEFINE T == {n \in Names : st[n] # "none"}
           f == [c \in queue[p] |-> c.name]
<1>1. PICK s \in ForeignScans : TRUE
  OBVIOUS
<1>2. Own(s) \in T
  BY ConstantsAssumption, OwnIsName DEF ForeignInv, ForeignKept
<1>3. IsFiniteSet(T) /\ Cardinality(T) \in Nat
  <2>1. IsFiniteSet({"own", "minted"})
    BY FS_EmptySet, FS_AddElement, {"own", "minted"} = ({} \union {"own"}) \union {"minted"}, ZenonT(30)
  <2>2. IsFiniteSet(Names)
    BY <2>1, FS_Product DEF Names
  <2> QED
    BY <2>2, FS_Subset, FS_CardinalityType
<1>4. f \in Injection(queue[p], T \ {Own(s)})
  <2>1. ASSUME NEW c \in queue[p] PROVE c.name \in T \ {Own(s)}
    <3>1. c \in Spool /\ c.name \in Names
      BY DEF ForeignInv, TypeInv, TypeOK, Spool
    <3>2. c.name[1] # s
      BY <3>1 DEF ForeignInv, ForeignApart, Holds
    <3> QED
      BY <3>1, <3>2 DEF Own
  <2>2. f \in [queue[p] -> T \ {Own(s)}]
    BY <2>1
  <2>3. \A a, b \in queue[p] : f[a] = f[b] => a = b
    BY DEF QueueOnce
  <2> QED
    BY <2>2, <2>3 DEF Injection, IsInjective
<1>5. /\ IsFiniteSet(T \ {Own(s)})
      /\ Cardinality(T \ {Own(s)}) = Cardinality(T) - 1
  BY <1>2, <1>3, FS_RemoveElement
<1>6. IsFiniteSet(queue[p]) /\ Cardinality(queue[p]) <= Cardinality(T \ {Own(s)})
  BY <1>4, <1>5, FS_Injection
<1>7. Cardinality(queue[p]) \in Nat
  BY <1>6, FS_CardinalityType
<1> QED
  BY <1>3, <1>5, <1>6, <1>7

\* A foreign backlog is neither sent, nor opened, nor removed, and a run that
\* could read the spool says that it is there, for any number of runs.
THEOREM ForeignStaysPutAlways ==
  ASSUME IsFiniteSet(Scans)
  PROVE  Spec => ForeignStaysPut
<1> DEFINE Kept == \A s \in ForeignScans : sid[s] = "unknown" /\ stored[s] = {} /\ payload[Own(s)]
           Said == \A p \in Procs :
                     pc[p] = "count" /\ pc'[p] = "payload" /\ sorted[p] /\ ForeignScans # {} =>
                       \/ warned'[p] \/ \E n \in Names : st[n] = "garbled"
                       \/ \E c \in queue[p] : st[c.name] = "none"
           I == ForeignInv /\ QueueOnce
<1>1. Init => I
  BY ForeignInvInit DEF Init, QueueOnce
<1>2. I /\ [Next]_vars => I'
  <2>1. I /\ Next => I'
    BY ForeignInvStep, QueueOnceStep DEF ForeignInv
  <2>2. I /\ UNCHANGED vars => I'
    BY ForeignInvStep DEF QueueOnce, vars, plan
  <2> QED
    BY <2>1, <2>2
<1>3. I => Kept
  BY DEF ForeignInv, ForeignKept
<1>4. I /\ [Next]_vars => [Said]_vars
  <2> SUFFICES ASSUME I, Next, NEW p \in Procs, pc[p] = "count", pc'[p] = "payload",
                      ForeignScans # {}, \A n \in Names : st[n] # "garbled",
                      \A c \in queue[p] : st[c.name] # "none"
               PROVE  warned'[p]
    OBVIOUS
  <2>1. CountAll(p)
    BY CountMoves DEF ForeignInv
  <2>2. Cardinality({n \in Names : st[n] # "none"}) > Cardinality(queue[p])
    BY StateFilesOutnumberQueue
  <2>3. warned \in [Procs -> BOOLEAN]
    BY DEF ForeignInv, TypeInv, TypeOK
  <2> QED
    BY <2>1, <2>2, <2>3 DEF CountAll
<1> QED
  BY <1>1, <1>2, <1>3, <1>4, PTL DEF Spec, ForeignStaysPut

-----------------------------------------------------------------------------
(* Where a process gets to, and with what.                                 *)

Early == {"list", "count", "payload", "state", "unspool"}

LEMMA PcMoves ==
  ASSUME TypeInv, Next, NEW p \in Procs
  PROVE  /\ pc'[p] \in {"rename", "adopt", "forget"} =>
              /\ cur'[p] = cur[p]
              /\ \/ pc[p] \in {"rename", "adopt", "forget"}
                 \/ OpenScan(p) /\ cur[p].name # <<ScanOf(cur[p]), sid'[ScanOf(cur[p])]>>
         /\ pc'[p] = "forget" => \/ pc[p] = "forget"
                                 \/ AdoptState(p) /\ SaveState(NewName(p), cur[p].acked, cur[p].created)
         /\ pc'[p] \in {"tidy1", "tidy2"} =>
              /\ cur'[p] = cur[p]
              /\ \/ pc[p] \in {"tidy1", "tidy2"}
                 \/ CloseScan(p) /\ reconciled'[ScanOf(cur[p])]
         /\ pc'[p] = "state" =>
              /\ want'[p] = want[p]
              /\ \/ pc[p] = "state"
                 \/ WritePayload(p) /\ payload' = [payload EXCEPT ![Own(want[p])] = TRUE]
         /\ want'[p] \in Scans =>
              /\ pc'[p] \in Early \/ (pc[p] \notin Early /\ want'[p] = want[p])
              /\ pc[p] = "unspool" => pc'[p] = "unspool"
              /\ WriteState(p) => pc'[p] = "unspool"
<1>t. /\ pc \in [Procs -> PCs] /\ cur \in [Procs -> Spool \union {NoSpool}]
      /\ want \in [Procs -> Scans \union {NoScan}] /\ NoScan \notin Scans
  BY ConstantsAssumption DEF TypeInv, TypeOK
<1> USE DEF Goto, GiveUp, RequestFails, SpoolingFails, plan, Early
<1>1. CASE \E q \in Procs : TransmitReport(q) \/ TransmitOnly(q) \/ TransmitFrom(q)
  BY <1>t, <1>1 DEF TransmitReport, TransmitOnly, TransmitFrom, Scope, WriteState
<1>2. CASE \E q \in Procs : LoadNext(q) \/ PendingReturns(q) \/ CountAll(q)
  BY <1>t, <1>2 DEF LoadNext, PendingReturns, CountAll, WriteState
<1>3. CASE \E q \in Procs : NoNewSpool(q) \/ RunEnds(q) \/ SendNext(q)
  BY <1>t, <1>3 DEF NoNewSpool, RunEnds, SendNext, WriteState
<1>4. CASE \E q \in Procs : WritePayload(q)
  BY <1>t, <1>4 DEF WritePayload, WriteState
<1>5. CASE \E q \in Procs : WriteState(q)
  BY <1>t, <1>5 DEF WriteState
<1>6. CASE \E q \in Procs : Unspool(q) \/ Crash(q)
  BY <1>t, <1>6 DEF Unspool, Crash, WriteState
<1>7. CASE \E q \in Procs : OpenScan(q)
  <2>1. PICK q \in Procs : OpenScan(q)
    BY <1>7
  <2>2. ScanOf(cur[q]) \in Scans /\ sid \in [Scans -> {"unknown", "own", "minted"}]
    BY <2>1, HoldsInHand DEF OpenScan, Sending, TypeInv, TypeOK
  <2> QED
    BY <1>t, <2>1, <2>2 DEF OpenScan, AfterOpen, WriteState
<1>8. CASE \E q \in Procs : AskStatus(q) \/ OpenPayload(q) \/ RenamePayload(q) \/ ForgetOldState(q)
  BY <1>t, <1>8 DEF AskStatus, OpenPayload, AfterOpen, RenamePayload, ForgetOldState, WriteState
<1>9. CASE \E q \in Procs : AdoptState(q)
  BY <1>t, <1>9 DEF AdoptState, WriteState
<1>10. CASE \E q \in Procs : PostBatch(q) \/ BatchesDone(q) \/ Ack(q)
  BY <1>t, <1>10 DEF PostBatch, BatchesDone, Ack, WriteState
<1>11. CASE \E q \in Procs : CloseScan(q)
  <2>1. PICK q \in Procs : CloseScan(q)
    BY <1>11
  <2>2. ScanOf(cur[q]) \in Scans /\ reconciled \in [Scans -> BOOLEAN]
    BY <2>1, HoldsInHand DEF CloseScan, Sending, TypeInv, TypeOK
  <2> QED
    BY <1>t, <2>1, <2>2 DEF CloseScan, WriteState
<1>12. CASE \E q \in Procs : RemovePayload(q) \/ RemoveState(q)
  BY <1>t, <1>12 DEF RemovePayload, RemoveState, WriteState
<1>13. CASE Environment
  BY <1>t, <1>13 DEF Environment, ServerRestarts, LateBatch, GarbleState, WriteState
<1> QED
  BY <1>1, <1>2, <1>3, <1>4, <1>5, <1>6, <1>7, <1>8, <1>9, <1>10, <1>11, <1>12, <1>13
     DEF Next, Starts, Works

\* A spool goes by a minted name only when the server minted one.
NamesFollowServer ==
  /\ \A n \in Names : n[2] = "minted" /\ sid[n[1]] # "minted" =>
       /\ ~payload[n]
       /\ st[n] = "none"
       /\ \A p \in Procs : ~Holds(p, n)
  /\ \A p \in Procs : pc[p] \in {"rename", "adopt", "forget"} =>
       /\ cur[p].name = Own(ScanOf(cur[p]))
       /\ sid[ScanOf(cur[p])] = "minted"

\* What is about to be removed, payload or state file, was closed with equal
\* counts.
TidiesDelivered ==
  \A p \in Procs : pc[p] \in {"tidy1", "tidy2"} => reconciled[ScanOf(cur[p])]

NamesInv == TypeInv /\ NamesFollowServer /\ TidiesDelivered

LEMMA NamesInvInit == Init => NamesInv
<1> SUFFICES ASSUME Init PROVE NamesInv
  OBVIOUS
<1>1. NamesFollowServer /\ TidiesDelivered
  BY DEF Init, NamesFollowServer, TidiesDelivered, Holds, Sending, Own
<1> QED
  BY <1>1, TypeInvInit DEF NamesInv

LEMMA NamesInvStep == NamesInv /\ [Next]_vars => NamesInv'
<1>1. ASSUME NamesInv, Next PROVE NamesInv'
  <2>a. TypeInv /\ NamesFollowServer /\ TidiesDelivered
    BY <1>1 DEF NamesInv
  <2>s. ASSUME NEW s \in Scans PROVE sid[s] = "minted" => sid'[s] = "minted"
    BY <1>1, <2>a, SidMoves
  <2>1. ASSUME NEW n \in Names, n[2] = "minted", sid'[n[1]] # "minted"
        PROVE  /\ ~payload'[n]
               /\ st'[n] = "none"
               /\ \A p \in Procs : ~Holds(p, n)'
    <3>0. n[1] \in Scans /\ n = <<n[1], n[2]>>
      BY DEF Names
    <3>1. ~payload[n] /\ st[n] = "none" /\ \A p \in Procs : ~Holds(p, n)
      BY <2>a, <2>s, <2>1, <3>0 DEF NamesFollowServer
    <3>2. ASSUME NEW p \in Procs, want[p] \in Scans PROVE n # Own(want[p])
      BY <2>1 DEF Own
    <3>3. ASSUME NEW p \in Procs, pc[p] \in {"rename", "adopt", "forget"} PROVE n # NewName(p)
      <4>1. sid[ScanOf(cur[p])] = "minted" /\ ScanOf(cur[p]) \in Scans
        BY <2>a, <3>3, HoldsInHand DEF NamesFollowServer, Sending
      <4> QED
        BY <2>1, <2>s, <4>1 DEF NewName
    <3>4. ASSUME NEW p \in Procs, pc[p] \in Sending PROVE n # cur[p].name
      BY <2>a, <3>1, <3>4, HoldsInHand
    <3>5. ~payload'[n]
      <4> SUFFICES ASSUME payload'[n] # payload[n] PROVE FALSE
        BY <3>1
      <4>1. ASSUME NEW p \in Procs, RenamePayload(p) PROVE n \notin {cur[p].name, NewName(p)}
        BY <4>1, <3>3, <3>4 DEF RenamePayload, Sending
      <4>2. ASSUME NEW p \in Procs, RemovePayload(p) PROVE n # cur[p].name
        BY <4>2, <3>4 DEF RemovePayload, Sending
      <4> QED
        BY <1>1, <2>a, <3>2, <4>1, <4>2, PayloadMoves
    <3>6. st'[n] = "none"
      <4> SUFFICES ASSUME st'[n] # st[n] PROVE FALSE
        BY <3>1
      <4>1. ASSUME NEW p \in Procs, AdoptState(p) PROVE n # NewName(p)
        BY <4>1, <3>3 DEF AdoptState
      <4>2. ASSUME NEW p \in Procs, Ack(p) \/ ForgetOldState(p) \/ RemoveState(p) PROVE n # cur[p].name
        BY <4>2, <3>4 DEF Ack, ForgetOldState, RemoveState, Sending
      <4> QED
        BY <1>1, <2>a, <3>1, <3>2, <4>1, <4>2, StateMoves
    <3>7. ASSUME NEW p \in Procs, Holds(p, n)' PROVE FALSE
      <4>1. ForgetOldState(p) => n # NewName(p)
        BY <3>3 DEF ForgetOldState
      <4>2. WriteState(p) => n # Own(want[p])
        BY <2>a, <3>2 DEF WriteState, TypeInv, Control
      <4> QED
        BY <1>1, <2>a, <3>1, <3>7, <4>1, <4>2, HoldsMoves
    <3> QED
      BY <3>5, <3>6, <3>7
  <2>2. ASSUME NEW p \in Procs, pc'[p] \in {"rename", "adopt", "forget"}
        PROVE  /\ cur'[p].name = Own(ScanOf(cur'[p]))
               /\ sid'[ScanOf(cur'[p])] = "minted"
    <3>1. CASE pc[p] \in {"rename", "adopt", "forget"}
      <4>1. cur'[p] = cur[p] /\ ScanOf(cur[p]) \in Scans
        BY <1>1, <2>a, <2>2, <3>1, PcMoves, HoldsInHand DEF Sending
      <4> QED
        BY <2>a, <2>s, <3>1, <4>1 DEF NamesFollowServer
    <3>2. CASE OpenScan(p) /\ cur[p].name # <<ScanOf(cur[p]), sid'[ScanOf(cur[p])]>>
      <4> DEFINE s == ScanOf(cur[p])
      <4>1. /\ cur'[p] = cur[p] /\ s \in Scans /\ cur[p].name \in Names
            /\ cur[p].name[1] = s /\ Holds(p, cur[p].name)
        BY <1>1, <2>a, <2>2, <3>2, PcMoves, HoldsInHand DEF OpenScan, Sending
      <4>2. cur[p].name = <<s, cur[p].name[2]>> /\ cur[p].name[2] \in {"own", "minted"}
        BY <4>1 DEF Names
      <4>3. sid'[s] \in {"own", "minted"}
        BY <1>1, <2>a, <2>2, <4>1, TypeInvStep DEF TypeInv, TypeOK, Control
      <4>4. CASE cur[p].name[2] = "minted"
        BY <2>a, <2>s, <3>2, <4>1, <4>2, <4>4 DEF NamesFollowServer
      <4>5. CASE cur[p].name[2] = "own"
        BY <3>2, <4>1, <4>2, <4>3, <4>5 DEF Own
      <4> QED
        BY <4>2, <4>4, <4>5
    <3> QED
      BY <1>1, <2>a, <2>2, <3>1, <3>2, PcMoves
  <2>3. ASSUME NEW p \in Procs, pc'[p] \in {"tidy1", "tidy2"} PROVE reconciled'[ScanOf(cur'[p])]
    <3>1. cur'[p] = cur[p] /\ \/ pc[p] \in {"tidy1", "tidy2"}
                              \/ reconciled'[ScanOf(cur[p])]
      BY <1>1, <2>a, <2>3, PcMoves
    <3>2. CASE pc[p] \in {"tidy1", "tidy2"}
      <4>1. ScanOf(cur[p]) \in Scans /\ reconciled[ScanOf(cur[p])]
        BY <2>a, <3>2, HoldsInHand DEF Sending, TidiesDelivered
      <4> QED
        BY <1>1, <2>a, <3>1, <4>1, ReconciledStays
    <3> QED
      BY <3>1, <3>2
  <2> QED
    BY <1>1, <2>a, <2>1, <2>2, <2>3, TypeInvStep DEF NamesInv, NamesFollowServer, TidiesDelivered
<1>2. NamesInv /\ UNCHANGED vars => NamesInv'
  BY TypeInvStep DEF NamesInv, NamesFollowServer, TidiesDelivered, Holds, vars, disk, files, server, plan
<1> QED
  BY <1>1, <1>2

-----------------------------------------------------------------------------
(* A scan a run is about to spool is its own: as long as no scan is spooled *)
(* a second time, no file of another run and no other run knows of it.     *)

Untouched(s) ==
  \A n \in Names : n[1] = s => st[n] = "none" /\ \A p \in Procs : ~Holds(p, n)

Reserved ==
  /\ \A s \in Scans \ taken : Untouched(s)
  /\ \A p \in Procs : want[p] \in Scans =>
       /\ pc[p] \in Early
       /\ pc[p] # "unspool" => Untouched(want[p])
       /\ pc[p] = "state" => payload[Own(want[p])]

\* What NewSpool answered for is on the disk until it is delivered.
KeptUntilDelivered == \A s \in spooled : reconciled[s] \/ HasPayload(s)

SpoolInv == RemovalInv /\ NamesInv /\ Reserved /\ KeptUntilDelivered

LEMMA SpoolInvInit ==
  ASSUME FaultBudget["respool"] = 0
  PROVE  Init => SpoolInv
<1> SUFFICES ASSUME Init PROVE SpoolInv
  OBVIOUS
<1>1. Reserved
  <2>1. ASSUME NEW s \in Scans \ taken PROVE Untouched(s)
    BY <2>1 DEF Init, Untouched, Own, Holds, Sending
  <2>2. \A p \in Procs : want[p] \notin Scans
    BY ConstantsAssumption DEF Init
  <2> QED
    BY <2>1, <2>2 DEF Reserved
<1>2. KeptUntilDelivered
  BY DEF Init, KeptUntilDelivered
<1> QED
  BY <1>1, <1>2, RemovalInvInit, NamesInvInit DEF SpoolInv

\* Only the run that spools it touches a scan nobody knows of.
LEMMA UntouchedStays ==
  ASSUME TypeInv, Next, NEW s \in Scans, Untouched(s),
         \A p \in Procs : WriteState(p) => want[p] # s
  PROVE  Untouched(s)'
<1> SUFFICES ASSUME NEW n \in Names, n[1] = s
             PROVE  st'[n] = "none" /\ \A p \in Procs : ~Holds(p, n)'
  BY DEF Untouched
<1>h. ASSUME NEW p \in Procs, pc[p] \in Sending PROVE ScanOf(cur[p]) # s
  BY <1>h, HoldsInHand DEF Untouched
<1>n. ASSUME NEW p \in Procs, pc[p] \in {"rename", "adopt", "forget"} PROVE NewName(p) # n
  BY <1>h, <1>n, NewNameIsName DEF Sending
<1>w. ASSUME NEW p \in Procs, WriteState(p) PROVE n # Own(want[p])
  BY <1>w DEF Own
<1>1. st'[n] = "none"
  <2> SUFFICES ASSUME st'[n] # st[n] PROVE FALSE
    BY DEF Untouched
  <2>1. ASSUME NEW p \in Procs, AdoptState(p) PROVE n # NewName(p)
    BY <1>n, <2>1 DEF AdoptState
  <2>2. ASSUME NEW p \in Procs, Ack(p) \/ ForgetOldState(p) \/ RemoveState(p) PROVE n # cur[p].name
    BY <1>h, <2>2, HoldsInHand DEF Ack, ForgetOldState, RemoveState, Sending
  <2> QED
    BY <1>w, <2>1, <2>2, StateMoves DEF Untouched
<1>2. ASSUME NEW p \in Procs, Holds(p, n)' PROVE FALSE
  <2>1. ForgetOldState(p) => n # NewName(p)
    BY <1>n DEF ForgetOldState
  <2> QED
    BY <1>w, <1>2, <2>1, HoldsMoves DEF Untouched
<1> QED
  BY <1>1, <1>2

LEMMA ReservedStep == SpoolInv /\ Next => Reserved'
<1> SUFFICES ASSUME SpoolInv, Next PROVE Reserved'
  OBVIOUS
<1>a. TypeInv /\ OwnWork /\ Reserved
  BY DEF SpoolInv, RemovalInv
<1>w. ASSUME NEW q \in Procs, WriteState(q) PROVE want[q] \in Scans /\ want[q] \in taken
  BY <1>a, <1>w DEF WriteState, TypeInv, Control, OwnWork
<1>1. ASSUME NEW s \in Scans, s \notin taken' PROVE Untouched(s)'
  <2>1. s \notin taken
    <3>1. Procs = {} => UNCHANGED taken
      BY DEF Next, Environment, ServerRestarts, LateBatch, GarbleState, hist
    <3> QED
      BY <1>a, <1>1, <3>1, WantMoves
  <2> QED
    BY <1>a, <1>w, <2>1, UntouchedStays DEF Reserved
<1>2. ASSUME NEW p \in Procs, NEW s \in Scans, want'[p] = s
      PROVE  /\ pc'[p] \in Early
             /\ pc'[p] # "unspool" => Untouched(s)'
             /\ pc'[p] = "state" => payload'[Own(s)]
  <2>1. CASE want[p] = s
    <3>1. pc[p] \in Early /\ pc'[p] \in Early
      BY <1>a, <1>2, <2>1, PcMoves DEF Reserved
    <3>2. ASSUME pc'[p] # "unspool" PROVE Untouched(s)'
      <4>1. pc[p] # "unspool" /\ ~WriteState(p) /\ Untouched(s)
        BY <1>a, <1>2, <2>1, <3>2, PcMoves DEF Reserved
      <4>2. \A q \in Procs : WriteState(q) => want[q] # s
        BY <1>a, <1>2, <2>1, <4>1 DEF OwnWork
      <4> QED
        BY <1>a, <1>2, <2>1, <4>1, <4>2, UntouchedStays
    <3>3. ASSUME pc'[p] = "state" PROVE payload'[Own(s)]
      <4>0. Own(s) \in Names /\ Own(s)[1] = s /\ payload \in [Names -> BOOLEAN]
        BY <1>a, <1>2, <2>1, OwnIsName DEF TypeInv, TypeOK
      <4>1. CASE WritePayload(p) /\ payload' = [payload EXCEPT ![Own(s)] = TRUE]
        BY <4>0, <4>1
      <4>2. CASE pc[p] = "state"
        <5>1. payload[Own(s)] /\ Untouched(s)
          BY <1>a, <1>2, <2>1, <4>2 DEF Reserved
        <5> SUFFICES ASSUME payload'[Own(s)] # payload[Own(s)] PROVE payload'[Own(s)]
          BY <5>1
        <5>2. ASSUME NEW q \in Procs, pc[q] \in Sending
              PROVE  ScanOf(cur[q]) # s /\ cur[q].name # Own(s)
          BY <1>a, <4>0, <5>1, <5>2, HoldsInHand DEF Untouched
        <5>3. ASSUME NEW q \in Procs, Unspool(q), want[q] \in Scans PROVE Own(s) # Own(want[q])
          <6>1. q # p
            BY <4>2, <5>3 DEF Unspool
          <6> QED
            BY <1>a, <1>2, <2>1, <6>1 DEF OwnWork, Own
        <5>4. ASSUME NEW q \in Procs, RenamePayload(q)
              PROVE  Own(s) \notin {cur[q].name, NewName(q)}
          BY <1>a, <4>0, <5>2, <5>4, NewNameIsName DEF RenamePayload, Sending
        <5>5. ASSUME NEW q \in Procs, RemovePayload(q) PROVE Own(s) # cur[q].name
          BY <5>2, <5>5 DEF RemovePayload, Sending
        <5> QED
          BY <1>a, <4>0, <5>3, <5>4, <5>5, PayloadMoves
      <4> QED
        BY <1>a, <2>1, <3>3, <4>1, <4>2, PcMoves
    <3> QED
      BY <3>1, <3>2, <3>3
  <2>2. CASE TransmitReport(p) /\ s \in Scans \ taken
    <3>1. pc'[p] = "list"
      BY <1>a, <2>2 DEF TransmitReport, Scope, Goto, TypeInv, TypeOK
    <3>2. Untouched(s)
      BY <1>a, <2>2 DEF Reserved
    <3>3. Untouched(s)'
      BY <1>a, <1>w, <2>2, <3>2, UntouchedStays
    <3> QED
      BY <3>1, <3>3 DEF Early
  <2>3. ~TransmitFrom(p)
    BY <1>a DEF TransmitFrom, Spend, OwnWork
  <2> QED
    BY <1>a, <1>2, <2>1, <2>2, <2>3, WantMoves
<1> QED
  BY <1>1, <1>2 DEF Reserved

LEMMA KeptStep == SpoolInv /\ Next => KeptUntilDelivered'
<1> SUFFICES ASSUME SpoolInv, Next, NEW s \in spooled', ~reconciled'[s] PROVE HasPayload(s)'
  BY DEF KeptUntilDelivered
<1>a. RemovalInv /\ TypeInv /\ OwnWork /\ Reserved /\ KeptUntilDelivered /\ spooled \subseteq Scans
  BY DEF SpoolInv, RemovalInv, TypeInv, TypeOK
<1>1. CASE s \in spooled
  BY <1>a, <1>1, ReconciledStays, RemovalStep DEF KeptUntilDelivered
<1>2. CASE s \notin spooled
  <2>1. PICK q \in Procs : WriteState(q) /\ want[q] = s
    <3>1. Procs = {} => UNCHANGED spooled
      BY DEF Next, Environment, ServerRestarts, LateBatch, GarbleState, hist
    <3> QED
      BY <1>a, <1>2, <3>1, WantMoves
  <2>2. s \in Scans /\ payload[Own(s)] /\ UNCHANGED payload
    BY <1>a, <2>1 DEF WriteState, TypeInv, Control, Reserved
  <2> QED
    BY <2>2, OwnIsName DEF HasPayload
<1> QED
  BY <1>1, <1>2

LEMMA SpoolInvStep == SpoolInv /\ [Next]_vars => SpoolInv'
<1>1. SpoolInv /\ Next => SpoolInv'
  BY ReservedStep, KeptStep, RemovalInvStep, NamesInvStep DEF SpoolInv
<1>2. SpoolInv /\ UNCHANGED vars => SpoolInv'
  BY RemovalInvStep, NamesInvStep
     DEF SpoolInv, Reserved, KeptUntilDelivered, Untouched, Holds, HasPayload, vars, disk, files, server, plan, hist
<1> QED
  BY <1>1, <1>2

-----------------------------------------------------------------------------
(* A spooled scan is found again.                                          *)

\* The payload and a readable state file of what is not delivered lie side by
\* side under the scan's own name, as long as the server goes by that name.
SideBySide ==
  \A s \in spooled : reconciled[s] \/ sid[s] = "minted" \/ (payload[Own(s)] /\ st[Own(s)] = "ok")

FindInv == SpoolInv /\ budget["garble"] = 0 /\ SideBySide

LEMMA NothingGarbled ==
  ASSUME TypeInv, Next, budget["garble"] = 0
  PROVE  budget'["garble"] = 0 /\ ~GarbleState
<1>1. ~GarbleState
  BY DEF GarbleState, Spend
<1>2. \/ UNCHANGED budget
      \/ \E k \in Kinds \ {"garble"} : Spend(k)
  <2> USE DEF SaveStateFails, RequestFails, Kinds
  <2>1. ASSUME NEW p \in Procs, Works(p) PROVE UNCHANGED budget \/ Spend("disk") \/ Spend("net")
    BY <2>1 DEF Works, LoadNext, PendingReturns, CountAll, NoNewSpool, WritePayload, WriteState,
      Unspool, SendNext, RunEnds, OpenScan, RenamePayload, AdoptState, ForgetOldState, AskStatus,
      OpenPayload, PostBatch, Ack, BatchesDone, CloseScan, RemovePayload, RemoveState
  <2>2. ASSUME NEW p \in Procs, Starts(p) \/ TransmitFrom(p) \/ Crash(p)
        PROVE  UNCHANGED budget \/ Spend("respool") \/ Spend("crash")
    BY <2>2 DEF Starts, TransmitReport, TransmitOnly, TransmitFrom, Crash
  <2>3. ServerRestarts \/ LateBatch => UNCHANGED budget \/ Spend("restart")
    BY DEF ServerRestarts, LateBatch
  <2> QED
    BY <1>1, <2>1, <2>2, <2>3 DEF Next, Environment
<1>3. budget \in [Kinds -> Nat] /\ "garble" \in Kinds
  BY DEF TypeInv, TypeOK, Kinds
<1> QED
  BY <1>1, <1>2, <1>3 DEF Spend

LEMMA SideBySideStep == FindInv /\ Next => SideBySide'
<1> SUFFICES ASSUME FindInv, Next, NEW s \in spooled', ~reconciled'[s], sid'[s] # "minted"
             PROVE  payload'[Own(s)] /\ st'[Own(s)] = "ok"
  BY DEF SideBySide
<1>a. /\ TypeInv /\ OwnWork /\ NamesInv /\ NamesFollowServer /\ TidiesDelivered
      /\ Reserved /\ SideBySide /\ spooled \subseteq Scans /\ ~GarbleState
  BY NothingGarbled DEF FindInv, SpoolInv, RemovalInv, NamesInv, TypeInv, TypeOK
<1>1. CASE s \in spooled
  <2>0. s \in Scans /\ Own(s) \in Names /\ Own(s)[1] = s /\ ~reconciled[s] /\ sid[s] # "minted"
    BY <1>a, <1>1, OwnIsName, ReconciledStays, SidMoves
  <2>1. payload[Own(s)] /\ st[Own(s)] = "ok"
    BY <1>a, <1>1, <2>0 DEF SideBySide
  <2>2. ASSUME NEW p \in Procs, pc[p] \in {"tidy1", "tidy2"} PROVE Own(s) # cur[p].name
    BY <1>a, <2>0, <2>2, HoldsInHand DEF TidiesDelivered, Sending
  <2>3. ASSUME NEW p \in Procs, pc[p] \in {"rename", "adopt", "forget"} PROVE Own(s) # cur[p].name
    BY <1>a, <2>0, <2>3, HoldsInHand DEF NamesFollowServer, Sending
  <2>4. payload'[Own(s)]
    <3> SUFFICES ASSUME payload'[Own(s)] # payload[Own(s)] PROVE payload'[Own(s)]
      BY <2>1
    <3>1. ASSUME NEW p \in Procs, want[p] \in Scans PROVE Own(s) # Own(want[p])
      BY <1>a, <1>1, <3>1 DEF OwnWork, Own
    <3>2. ASSUME NEW p \in Procs, RenamePayload(p) PROVE Own(s) # cur[p].name
      BY <2>3, <3>2 DEF RenamePayload
    <3>3. ASSUME NEW p \in Procs, RemovePayload(p) PROVE Own(s) # cur[p].name
      BY <2>2, <3>3 DEF RemovePayload
    <3> QED
      BY <1>a, <2>0, <3>1, <3>2, <3>3, PayloadMoves
  <2>5. st'[Own(s)] = "ok"
    <3> SUFFICES ASSUME st'[Own(s)] # st[Own(s)] PROVE st'[Own(s)] = "ok"
      BY <2>1
    <3>1. ASSUME NEW p \in Procs, ForgetOldState(p) \/ RemoveState(p) PROVE Own(s) # cur[p].name
      BY <2>2, <2>3, <3>1 DEF ForgetOldState, RemoveState
    <3> QED
      BY <1>a, <2>0, <3>1, StateMoves
  <2> QED
    BY <2>4, <2>5
<1>2. CASE s \notin spooled
  <2>1. PICK q \in Procs : WriteState(q) /\ want[q] = s
    <3>1. Procs = {} => UNCHANGED spooled
      BY DEF Next, Environment, ServerRestarts, LateBatch, GarbleState, hist
    <3> QED
      BY <1>a, <1>2, <3>1, WantMoves
  <2>2. s \in Scans /\ payload[Own(s)] /\ UNCHANGED payload /\ Own(s) \in Names
    BY <1>a, <2>1, OwnIsName DEF WriteState, TypeInv, Control, Reserved
  <2>3. SaveState(Own(s), 0, clock)
    BY <1>2, <2>1 DEF WriteState
  <2> QED
    BY <1>a, <2>2, <2>3 DEF SaveState, TypeInv, TypeOK
<1> QED
  BY <1>1, <1>2

\* With readable state files, and no scan spooled a second time, a later run
\* finds every spooled scan the server has not reconciled: for any number of
\* runs, and whatever is killed, fails or restarts.
THEOREM StaysDeliverableAlways ==
  ASSUME FaultBudget["respool"] = 0, FaultBudget["garble"] = 0
  PROVE  Spec => []StaysDeliverable
<1>1. Init => FindInv
  BY SpoolInvInit DEF Init, FindInv, SideBySide
<1>2. FindInv /\ [Next]_vars => FindInv'
  <2>1. FindInv /\ Next => FindInv'
    BY SpoolInvStep, SideBySideStep, NothingGarbled DEF FindInv, SpoolInv, RemovalInv
  <2>2. FindInv /\ UNCHANGED vars => FindInv'
    BY SpoolInvStep DEF FindInv, SideBySide, vars, disk, files, server, hist
  <2> QED
    BY <2>1, <2>2
<1>3. FindInv => StaysDeliverable
  <2> SUFFICES ASSUME FindInv, NEW s \in spooled, ~reconciled[s], sid[s] # "minted"
               PROVE  Findable(s)
    BY DEF StaysDeliverable
  <2>1. Own(s) \in Names /\ Own(s)[1] = s /\ payload[Own(s)] /\ st[Own(s)] = "ok"
    BY OwnIsName DEF FindInv, SideBySide, SpoolInv, RemovalInv, TypeInv, TypeOK
  <2> QED
    BY <2>1 DEF Findable
<1> QED
  BY <1>1, <1>2, <1>3, PTL DEF Spec

-----------------------------------------------------------------------------
(* The spool directory implements Delivery.                                *)

BegunBar     == taken \ (spooled \union ForeignScans)
QueuedBar    == {s \in Scans \ ForeignScans : Queued(s)}
DeliveredBar == {s \in Scans : reconciled[s]}

\* What was delivered was collected here, and SetScanID writes the new state
\* file before it forgets the old one.
DeliveredWasTaken == \A s \in Scans : reconciled[s] => s \in taken

ForgetsSecond ==
  \A p \in Procs : pc[p] = "forget" => reconciled[ScanOf(cur[p])] \/ st[NewName(p)] # "none"

RefInv == SpoolInv /\ ForeignInv /\ DeliveredWasTaken /\ ForgetsSecond

LEMMA RefInvInit ==
  ASSUME FaultBudget["respool"] = 0
  PROVE  Init => RefInv
BY SpoolInvInit, ForeignInvInit DEF Init, RefInv, DeliveredWasTaken, ForgetsSecond

\* What a process holds was collected here, by a run of this endpoint.
LEMMA HeldWasTaken ==
  ASSUME RefInv, NEW p \in Procs, pc[p] \in Sending
  PROVE  ScanOf(cur[p]) \in taken /\ ScanOf(cur[p]) \notin ForeignScans
<1>1. /\ cur[p].name \in Names /\ Holds(p, cur[p].name) /\ cur[p].name[1] = ScanOf(cur[p])
      /\ ScanOf(cur[p]) \in Scans
  BY HoldsInHand DEF RefInv, ForeignInv
<1> QED
  BY <1>1 DEF RefInv, ForeignInv, ForeignApart, SpoolInv, Reserved, Untouched

LEMMA DeliveredWasTakenStep == RefInv /\ Next => DeliveredWasTaken'
<1> SUFFICES ASSUME RefInv, Next, NEW s \in Scans, reconciled'[s] PROVE s \in taken'
  BY DEF DeliveredWasTaken
<1>1. taken \subseteq taken'
  <2>1. Procs = {} => UNCHANGED taken
    BY DEF Next, Environment, ServerRestarts, LateBatch, GarbleState, hist
  <2> QED
    BY <2>1, WantMoves DEF RefInv, ForeignInv
<1>2. ASSUME NEW p \in Procs, CloseScan(p) PROVE ScanOf(cur[p]) \in taken
  BY <1>2, HeldWasTaken DEF CloseScan, Sending
<1> QED
  BY <1>1, <1>2, ReconciledStays DEF RefInv, ForeignInv, DeliveredWasTaken

LEMMA ForgetsSecondStep == RefInv /\ Next => ForgetsSecond'
<1> SUFFICES ASSUME RefInv, Next, NEW p \in Procs, pc'[p] = "forget", ~reconciled'[ScanOf(cur'[p])]
             PROVE  st'[NewName(p)'] # "none"
  BY DEF ForgetsSecond, NewName
<1>a. /\ TypeInv /\ NamesFollowServer /\ TidiesDelivered /\ ForgetsSecond
      /\ TypeInv' /\ NamesFollowServer'
  BY TypeInvStep, NamesInvStep DEF RefInv, SpoolInv, NamesInv
<1> DEFINE s == ScanOf(cur[p])
<1>1. /\ cur'[p] = cur[p] /\ s \in Scans /\ sid[s] = "minted" /\ sid'[s] = "minted" /\ ~reconciled[s]
      /\ \/ pc[p] = "forget"
         \/ AdoptState(p) /\ SaveState(NewName(p), cur[p].acked, cur[p].created)
  <2>1. cur'[p] = cur[p] /\ \/ pc[p] = "forget"
                            \/ AdoptState(p) /\ SaveState(NewName(p), cur[p].acked, cur[p].created)
    BY <1>a, PcMoves
  <2>2. pc[p] \in {"adopt", "forget"}
    BY <2>1 DEF AdoptState
  <2>3. s \in Scans
    BY <1>a, <2>2, HoldsInHand DEF Sending
  <2> QED
    BY <1>a, <2>1, <2>2, <2>3, ReconciledStays, SidMoves DEF NamesFollowServer
<1>2. /\ NewName(p) = <<s, "minted">> /\ NewName(p)' = <<s, "minted">> /\ NewName(p) \in Names
      /\ NewName(p)[1] = s /\ NewName(p) # Own(s)
  BY <1>1 DEF NewName, Names, Own
<1>3. CASE SaveState(NewName(p), cur[p].acked, cur[p].created)
  BY <1>a, <1>2, <1>3 DEF SaveState, TypeInv, TypeOK
<1>4. CASE pc[p] = "forget"
  <2>1. st[NewName(p)] # "none"
    BY <1>a, <1>1, <1>4 DEF ForgetsSecond
  <2>2. ASSUME NEW q \in Procs, ForgetOldState(q) PROVE NewName(p) # cur[q].name
    BY <1>a, <1>2, <2>2 DEF ForgetOldState, NamesFollowServer, Own
  <2>3. ASSUME NEW q \in Procs, RemoveState(q) PROVE NewName(p) # cur[q].name
    BY <1>a, <1>1, <1>2, <2>3, HoldsInHand DEF RemoveState, TidiesDelivered, Sending
  <2>4. CASE st'[NewName(p)] = st[NewName(p)]
    BY <1>2, <2>1, <2>4
  <2>5. CASE st'[NewName(p)] # st[NewName(p)]
    BY <1>a, <1>2, <2>2, <2>3, <2>5, StateMoves
  <2> QED
    BY <2>4, <2>5
<1> QED
  BY <1>1, <1>3, <1>4

LEMMA RefInvStep == RefInv /\ [Next]_vars => RefInv'
<1>1. RefInv /\ Next => RefInv'
  BY SpoolInvStep, ForeignInvStep, DeliveredWasTakenStep, ForgetsSecondStep DEF RefInv
<1>2. RefInv /\ UNCHANGED vars => RefInv'
  BY SpoolInvStep, ForeignInvStep
     DEF RefInv, DeliveredWasTaken, ForgetsSecond, NewName, vars, disk, files, server, hist
<1> QED
  BY <1>1, <1>2

\* A scan whose files and whose NewSpool stay as they are is queued as before.
LEMMA QueuedFrame ==
  ASSUME NEW s \in Scans, s \in spooled <=> s \in spooled',
         \A n \in Names : n[1] = s =>
           payload'[n] = payload[n] /\ (st'[n] = "none" <=> st[n] = "none"),
         \A p \in Procs : want'[p] = s <=> want[p] = s
  PROVE  Queued(s)' <=> Queued(s)
BY DEF Queued, HasPayload

\* A step of a process touches the files of one scan: the one it spools or the
\* one it sends.
TouchesOnly(a) ==
  \A s \in Scans : s # a =>
    /\ \A n \in Names : n[1] = s =>
         payload'[n] = payload[n] /\ (st'[n] = "none" <=> st[n] = "none")
    /\ \A p \in Procs : want'[p] = s <=> want[p] = s
    /\ s \in spooled <=> s \in spooled'

LEMMA OneScanAtATime ==
  ASSUME RefInv, Next
  PROVE  \E a \in Scans \union {NoScan} : TouchesOnly(a)
<1>a. /\ TypeInv /\ OwnWork /\ Reserved /\ NoScan \notin Scans
      /\ want \in [Procs -> Scans \union {NoScan}]
  BY ConstantsAssumption DEF RefInv, SpoolInv, RemovalInv, TypeInv, TypeOK
<1> USE DEF disk, files, plan, hist
<1>1. ASSUME NEW p \in Procs, \/ WritePayload(p) \/ WriteState(p) \/ Unspool(p) \/ Crash(p)
                              \/ TransmitReport(p) \/ TransmitOnly(p)
      PROVE  \E a \in Scans \union {NoScan} : TouchesOnly(a)
  <2>1. ASSUME NEW n \in Names, n[1] # want[p]
        PROVE  payload'[n] = payload[n] /\ (st'[n] = "none" <=> st[n] = "none")
    <3>1. CASE WritePayload(p)
      BY <1>a, <2>1, <3>1 DEF WritePayload, Own, TypeInv, TypeOK
    <3>2. CASE WriteState(p)
      BY <1>a, <2>1, <3>2 DEF WriteState, SaveState, SaveStateFails, Own, TypeInv, TypeOK
    <3>3. CASE Unspool(p)
      BY <1>a, <2>1, <3>3 DEF Unspool, Own, TypeInv, TypeOK
    <3>4. CASE Crash(p) \/ TransmitReport(p) \/ TransmitOnly(p)
      BY <3>4 DEF Crash, TransmitReport, TransmitOnly, Scope
    <3> QED
      BY <1>1, <3>1, <3>2, <3>3, <3>4
  <2>2. CASE WritePayload(p) \/ WriteState(p) \/ Unspool(p) \/ Crash(p)
    <3>1. want' \in {want, [want EXCEPT ![p] = NoScan]}
      BY <2>2 DEF WritePayload, WriteState, Unspool, Crash, SpoolingFails
    <3>2. spooled' \in {spooled, spooled \union {want[p]}}
      BY <2>2 DEF WritePayload, WriteState, Unspool, Crash
    <3>3. TouchesOnly(want[p])
      BY <1>a, <2>1, <3>1, <3>2 DEF TouchesOnly
    <3> QED
      BY <1>a, <3>3
  <2>3. CASE TransmitReport(p) \/ TransmitOnly(p)
    <3>1. pc[p] = "idle" /\ want[p] \notin Scans
      BY <1>a, <2>3 DEF TransmitReport, TransmitOnly, Scope, Reserved, Early
    <3>2. PICK a \in Scans \union {NoScan} : want' = [want EXCEPT ![p] = a]
      BY <2>3 DEF TransmitReport, TransmitOnly, Scope
    <3>3. UNCHANGED <<payload, st, spooled>>
      BY <2>3 DEF TransmitReport, TransmitOnly, Scope
    <3>4. TouchesOnly(a)
      BY <1>a, <3>1, <3>2, <3>3 DEF TouchesOnly
    <3> QED
      BY <3>4
  <2> QED
    BY <1>1, <2>2, <2>3
<1>2. ASSUME NEW p \in Procs, ~TransmitFrom(p), UNCHANGED <<want, spooled>>,
             Starts(p) \/ TransmitFrom(p) \/ Works(p) \/ Crash(p)
      PROVE  \E a \in Scans \union {NoScan} : TouchesOnly(a)
  <2> SUFFICES ASSUME \A a \in Scans \union {NoScan} : ~TouchesOnly(a) PROVE FALSE
    OBVIOUS
  <2>0. /\ ~WritePayload(p) /\ ~WriteState(p) /\ ~Unspool(p) /\ ~Crash(p)
        /\ ~TransmitReport(p) /\ ~TransmitOnly(p)
    BY <1>1
  <2>1. pc[p] \in Sending => ScanOf(cur[p]) \in Scans /\ cur[p].name[1] = ScanOf(cur[p])
    BY <1>a, HoldsInHand
  <2>2. CASE UNCHANGED <<payload, st>>
    BY <1>2, <2>2 DEF TouchesOnly
  <2>3. CASE RenamePayload(p) \/ RemovePayload(p)
    <3>1. UNCHANGED st /\ pc[p] \in Sending
      BY <2>3 DEF RenamePayload, RemovePayload, Sending
    <3>2. \A n \in Names : n[1] # ScanOf(cur[p]) => payload'[n] = payload[n]
      BY <1>a, <2>1, <2>3, <3>1 DEF RenamePayload, RemovePayload, NewName, TypeInv, TypeOK
    <3> QED
      BY <1>2, <2>1, <3>1, <3>2 DEF TouchesOnly
  <2>4. CASE AdoptState(p) \/ Ack(p) \/ ForgetOldState(p) \/ RemoveState(p)
    <3>1. UNCHANGED payload /\ pc[p] \in Sending
      BY <2>4 DEF AdoptState, Ack, ForgetOldState, RemoveState, Sending
    <3>2. \A n \in Names : n[1] # ScanOf(cur[p]) => st'[n] = st[n]
      BY <1>a, <2>1, <2>4, <3>1
         DEF AdoptState, Ack, ForgetOldState, RemoveState, SaveState, SaveStateFails, NewName, TypeInv, TypeOK
    <3> QED
      BY <1>2, <2>1, <3>1, <3>2 DEF TouchesOnly
  <2>5. CASE LoadNext(p) \/ PendingReturns(p) \/ CountAll(p) \/ NoNewSpool(p) \/ SendNext(p) \/ RunEnds(p)
             \/ OpenScan(p) \/ AskStatus(p) \/ OpenPayload(p) \/ PostBatch(p) \/ BatchesDone(p) \/ CloseScan(p)
    BY <2>2, <2>5 DEF LoadNext, PendingReturns, CountAll, NoNewSpool, SendNext, RunEnds, OpenScan,
      AskStatus, OpenPayload, PostBatch, BatchesDone, CloseScan
  <2> QED
    BY <1>2, <2>0, <2>3, <2>4, <2>5 DEF Starts, Works
<1>3. CASE Environment
  <2>1. UNCHANGED <<payload, want, spooled>>
    BY <1>3 DEF Environment, ServerRestarts, LateBatch, GarbleState
  <2>2. \A n \in Names : st'[n] = "none" <=> st[n] = "none"
    BY <1>a, <1>3 DEF Environment, ServerRestarts, LateBatch, GarbleState, TypeInv, TypeOK
  <2>3. TouchesOnly(NoScan)
    BY <2>1, <2>2 DEF TouchesOnly
  <2> QED
    BY <2>3
<1>4. \A p \in Procs : ~TransmitFrom(p)
  BY <1>a DEF TransmitFrom, Spend, OwnWork
<1>5. CASE UNCHANGED <<want, taken, spooled>>
  BY <1>2, <1>3, <1>4, <1>5 DEF Next
<1> QED
  BY <1>1, <1>4, <1>5, WantWriters DEF Starts

\* What leaves the queue was delivered.
LEMMA LeavesDelivered ==
  ASSUME RefInv, Next, NEW s \in Scans, Queued(s), ~Queued(s)'
  PROVE  reconciled[s]
<1>a. /\ TypeInv /\ OwnWork /\ Reserved /\ NamesFollowServer /\ TidiesDelivered /\ ForgetsSecond
      /\ payload \in [Names -> BOOLEAN] /\ st \in [Names -> {"none", "ok", "garbled"}]
  BY DEF RefInv, SpoolInv, RemovalInv, NamesInv, TypeInv, TypeOK
<1>w. \A p \in Procs : want[p] # s
  BY <1>a DEF Queued, OwnWork
<1>s. s \in spooled => s \in spooled'
  <2>1. Procs = {} => UNCHANGED spooled
    BY DEF Next, Environment, ServerRestarts, LateBatch, GarbleState, hist
  <2> QED
    BY <1>a, <2>1, WantMoves
<1>1. CASE ~HasPayload(s)'
  <2>1. PICK n \in Names : n[1] = s /\ payload[n] /\ ~payload'[n]
    BY <1>a, <1>1 DEF Queued, HasPayload
  <2>2. ASSUME NEW p \in Procs, want[p] \in Scans PROVE n # Own(want[p])
    BY <1>w, <2>1 DEF Own
  <2>3. ASSUME NEW p \in Procs, RenamePayload(p), payload'[NewName(p)] PROVE n \notin {cur[p].name, NewName(p)}
    <3>1. NewName(p) \in Names /\ NewName(p)[1] = ScanOf(cur[p]) /\ cur[p].name[1] = ScanOf(cur[p])
      BY <1>a, <2>3, NewNameIsName, HoldsInHand DEF RenamePayload, Sending
    <3> QED
      BY <1>1, <2>1, <2>3, <3>1 DEF HasPayload
  <2>4. ASSUME NEW p \in Procs, RemovePayload(p), n = cur[p].name PROVE reconciled[s]
    BY <1>a, <2>1, <2>4, HoldsInHand DEF RemovePayload, TidiesDelivered, Sending
  <2> QED
    BY <1>a, <2>1, <2>2, <2>3, <2>4, PayloadMoves
<1>2. CASE HasPayload(s)'
  <2>1. s \notin spooled /\ s \notin spooled'
    BY <1>s, <1>2 DEF Queued
  <2>2. PICK n \in Names : n[1] = s /\ st[n] # "none"
    BY <2>1 DEF Queued
  <2>3. ASSUME NEW p \in Procs PROVE want'[p] # s
    <3>1. s \in taken
      BY <1>a, <2>2 DEF Reserved, Untouched
    <3>2. ~TransmitFrom(p)
      BY <1>a DEF TransmitFrom, Spend, OwnWork
    <3> QED
      BY <1>a, <1>w, <3>1, <3>2, WantMoves
  <2>4. st'[n] = "none"
    BY <1>2, <2>1, <2>2, <2>3 DEF Queued
  <2>5. ASSUME NEW p \in Procs, ForgetOldState(p), n = cur[p].name PROVE reconciled[s]
    <3>1. /\ NewName(p) \in Names /\ ScanOf(cur[p]) = s /\ NewName(p)[1] = s
          /\ cur[p].name = Own(s) /\ NewName(p) # Own(s)
      BY <1>a, <2>2, <2>5, NewNameIsName, HoldsInHand
         DEF ForgetOldState, NamesFollowServer, NewName, Own, Sending
    <3>2. st'[NewName(p)] = st[NewName(p)]
      BY <1>a, <2>5, <3>1 DEF ForgetOldState
    <3>3. st'[NewName(p)] = "none"
      BY <1>2, <2>1, <2>3, <3>1 DEF Queued
    <3> QED
      BY <1>a, <2>5, <3>1, <3>2, <3>3 DEF ForgetOldState, ForgetsSecond
  <2>6. ASSUME NEW p \in Procs, RemoveState(p), n = cur[p].name PROVE reconciled[s]
    BY <1>a, <2>2, <2>6, HoldsInHand DEF RemoveState, TidiesDelivered, Sending
  <2> QED
    BY <1>a, <2>2, <2>4, <2>5, <2>6, StateMoves
<1> QED
  BY <1>1, <1>2

\* What enters the queue was begun and not answered for, or was delivered, or
\* is answered for by the step.
LEMMA EntersBegun ==
  ASSUME RefInv, Next, NEW s \in Scans, ~Queued(s), Queued(s)'
  PROVE  s \in taken /\ (s \notin spooled \/ reconciled[s])
<1>a. TypeInv /\ OwnWork /\ Reserved /\ KeptUntilDelivered
  BY DEF RefInv, SpoolInv, RemovalInv
<1>1. s \in taken
  <2> SUFFICES ASSUME s \notin taken PROVE FALSE
    OBVIOUS
  <2>1. Untouched(s)
    BY <1>a DEF Reserved
  <2>2. ASSUME NEW p \in Procs, WriteState(p) PROVE want[p] # s
    BY <1>a, <2>2 DEF WriteState, TypeInv, Control, OwnWork
  <2>3. Untouched(s)'
    BY <1>a, <2>1, <2>2, UntouchedStays
  <2>4. s \notin spooled'
    <3>1. Procs = {} => UNCHANGED spooled
      BY DEF Next, Environment, ServerRestarts, LateBatch, GarbleState, hist
    <3> QED
      BY <1>a, <2>2, <3>1, WantMoves DEF OwnWork
  <2> QED
    BY <2>3, <2>4 DEF Queued, Untouched
<1>2. s \in spooled => reconciled[s]
  BY <1>a DEF KeptUntilDelivered, Queued
<1> QED
  BY <1>1, <1>2

LEMMA StepIsDelivery == RefInv /\ [Next]_vars => [Abstract!Next]_(Abstract!vars)
<1> USE DEF BegunBar, QueuedBar, DeliveredBar
<1>u. CASE UNCHANGED vars
  BY <1>u DEF vars, disk, files, server, plan, hist, Abstract!vars, Queued, HasPayload
<1> SUFFICES ASSUME RefInv, Next PROVE [Abstract!Next]_(Abstract!vars)
  BY <1>u
<1>a. /\ TypeInv /\ OwnWork /\ Reserved /\ KeptUntilDelivered /\ DeliveredWasTaken
      /\ ForeignScans \subseteq taken \ spooled
      /\ reconciled \in [Scans -> BOOLEAN] /\ spooled \subseteq Scans /\ taken \subseteq Scans
      /\ NoScan \notin Scans /\ ForeignScans \subseteq Scans
  BY ConstantsAssumption DEF RefInv, SpoolInv, RemovalInv, ForeignInv, ForeignApart, TypeInv, TypeOK
<1>1. PICK a \in Scans \union {NoScan} : TouchesOnly(a)
  BY OneScanAtATime
<1>2. ASSUME NEW s \in Scans, s # a PROVE Queued(s)' <=> Queued(s)
  BY <1>1, <1>2, QueuedFrame DEF TouchesOnly
<1>3. CASE \E p \in Procs : CloseScan(p)
  <2>1. PICK p \in Procs : CloseScan(p)
    BY <1>3
  <2>2. UNCHANGED <<payload, st, want, taken, spooled>>
    BY <2>1 DEF CloseScan, disk, files, plan, hist
  <2>3. UNCHANGED <<BegunBar, QueuedBar>>
    BY <2>2 DEF Queued, HasPayload
  <2>s. PICK s \in Scans : s = ScanOf(cur[p])
    BY <1>a, <2>1, HoldsInHand DEF CloseScan, Sending
  <2>4. s \in taken /\ s \notin ForeignScans
    BY <2>1, <2>s, HeldWasTaken DEF CloseScan, Sending
  <2>5. s \in BegunBar \union QueuedBar \/ reconciled[s]
    <3>1. s \in spooled => reconciled[s] \/ Queued(s)
      BY <1>a DEF KeptUntilDelivered, Queued
    <3> QED
      BY <2>4, <3>1
  <2>6. ASSUME NEW t \in Scans, t # s PROVE reconciled'[t] = reconciled[t]
    BY <1>a, <2>1, <2>s, <2>6 DEF CloseScan
  <2>7. reconciled[s] => reconciled'[s]
    BY <1>a, <2>4, ReconciledStays
  <2>8. reconciled' \in [Scans -> BOOLEAN]
    BY <1>a, TypeInvStep DEF TypeInv, TypeOK
  <2>9. CASE reconciled'[s] = reconciled[s]
    <3>1. UNCHANGED DeliveredBar
      BY <2>6, <2>9
    <3> QED
      BY <2>3, <3>1 DEF Abstract!vars
  <2>10. CASE reconciled'[s] /\ ~reconciled[s]
    <3>1. DeliveredBar' = DeliveredBar \union {s} /\ s \notin DeliveredBar
      BY <2>4, <2>6, <2>10
    <3>2. Abstract!Deliver(s)
      BY <2>3, <2>5, <2>10, <3>1 DEF Abstract!Deliver
    <3> QED
      BY <2>4, <3>2 DEF Abstract!Next
  <2> QED
    BY <1>a, <2>4, <2>7, <2>8, <2>9, <2>10
<1>4. CASE UNCHANGED reconciled
  <2>0. UNCHANGED DeliveredBar
    BY <1>4
  <2>1. CASE UNCHANGED <<taken, spooled>>
    <3>0. UNCHANGED BegunBar
      BY <2>1
    <3>1. CASE a \notin Scans \ ForeignScans \/ (Queued(a)' <=> Queued(a))
      <4>1. UNCHANGED QueuedBar
        BY <1>2, <3>1
      <4> QED
        BY <2>0, <3>0, <4>1 DEF Abstract!vars
    <3>2. CASE a \in Scans \ ForeignScans /\ Queued(a) /\ ~Queued(a)'
      <4>1. QueuedBar' = QueuedBar \ {a} /\ a \in QueuedBar
        BY <1>2, <3>2
      <4>2. a \in DeliveredBar
        BY <3>2, LeavesDelivered
      <4>3. Abstract!Remove(a)
        BY <2>0, <3>0, <4>1, <4>2 DEF Abstract!Remove
      <4> QED
        BY <3>2, <4>3 DEF Abstract!Next
    <3>3. CASE a \in Scans \ ForeignScans /\ ~Queued(a) /\ Queued(a)'
      <4>1. QueuedBar' = QueuedBar \union {a} /\ a \notin QueuedBar
        BY <1>2, <3>3
      <4>2. a \in BegunBar \union DeliveredBar
        BY <3>3, EntersBegun
      <4>3. Abstract!Enqueue(a)
        BY <2>0, <3>0, <4>1, <4>2 DEF Abstract!Enqueue
      <4> QED
        BY <3>3, <4>3 DEF Abstract!Next
    <3> QED
      BY <3>1, <3>2, <3>3
  <2>2. CASE \E p \in Procs : TransmitReport(p)
    <3>1. PICK p \in Procs : TransmitReport(p)
      BY <2>2
    <3>2. PICK s \in Scans \ taken : taken' = taken \union {s} /\ want' = [want EXCEPT ![p] = s]
      BY <3>1 DEF TransmitReport, Scope
    <3>3. UNCHANGED <<payload, st, spooled>> /\ pc[p] = "idle"
      BY <3>1 DEF TransmitReport, Scope, disk, files
    <3>4. want[p] \notin Scans /\ want \in [Procs -> Scans \union {NoScan}]
      BY <1>a, <3>3 DEF Reserved, Early, TypeInv, TypeOK
    <3>5. s \notin spooled /\ ~reconciled[s] /\ s \notin ForeignScans /\ Untouched(s)
      BY <1>a DEF OwnWork, DeliveredWasTaken, Reserved
    <3>6. ~Queued(s) /\ ~Queued(s)'
      BY <3>3, <3>5 DEF Queued, Untouched
    <3>7. ASSUME NEW t \in Scans, t # s PROVE Queued(t)' <=> Queued(t)
      BY <3>2, <3>3, <3>4, <3>7 DEF Queued, HasPayload
    <3>8. UNCHANGED QueuedBar /\ s \notin QueuedBar
      BY <3>6, <3>7
    <3>9. BegunBar' = BegunBar \union {s} /\ s \notin BegunBar
      BY <3>2, <3>3, <3>5
    <3>10. Abstract!Begin(s)
      BY <2>0, <3>5, <3>8, <3>9 DEF Abstract!Begin
    <3> QED
      BY <3>10 DEF Abstract!Next
  <2>3. CASE \E p \in Procs : WriteState(p) /\ spooled' # spooled
    <3>1. PICK p \in Procs : WriteState(p) /\ spooled' # spooled
      BY <2>3
    <3>s. PICK s \in Scans : s = want[p]
      BY <1>a, <3>1 DEF WriteState, TypeInv, Control
    <3>2. /\ s \in taken /\ s \notin spooled /\ s \notin ForeignScans
          /\ payload[Own(s)] /\ Own(s) \in Names /\ Own(s)[1] = s
      BY <1>a, <3>1, <3>s, OwnIsName DEF WriteState, OwnWork, Reserved, RefInv, ForeignInv, ForeignApart
    <3>3. spooled' = spooled \union {s} /\ UNCHANGED <<payload, taken>>
      BY <3>1, <3>s DEF WriteState
    <3>4. ~Queued(s) /\ Queued(s)'
      BY <3>1, <3>s, <3>2, <3>3 DEF Queued, HasPayload
    <3>5. s = a
      BY <1>2, <3>2, <3>4
    <3>6. QueuedBar' = QueuedBar \union {s} /\ s \notin QueuedBar
      BY <1>2, <3>2, <3>4, <3>5
    <3>7. BegunBar' = BegunBar \ {s} /\ s \in BegunBar
      BY <3>2, <3>3
    <3>8. Abstract!Answer(s)
      BY <2>0, <3>6, <3>7 DEF Abstract!Answer
    <3> QED
      BY <3>2, <3>8 DEF Abstract!Next
  <2>4. \/ UNCHANGED <<taken, spooled>>
        \/ \E p \in Procs : TransmitReport(p)
        \/ \E p \in Procs : WriteState(p) /\ spooled' # spooled
    <3>1. \A p \in Procs : ~TransmitFrom(p)
      BY <1>a DEF TransmitFrom, Spend, OwnWork
    <3>2. ASSUME NEW p \in Procs, TransmitOnly(p) \/ WritePayload(p) \/ WriteState(p) \/ Unspool(p) \/ Crash(p)
          PROVE  UNCHANGED taken /\ (UNCHANGED spooled \/ WriteState(p))
      BY <3>2 DEF TransmitOnly, Scope, WritePayload, WriteState, Unspool, Crash, hist
    <3> QED
      BY <3>1, <3>2, WantWriters DEF Starts
  <2> QED
    BY <2>1, <2>2, <2>3, <2>4
<1> QED
  BY <1>3, <1>4, ReconciledWriters

\* The spool directory, the runs that share it and the server implement the
\* queue of Delivery, for any number of runs and any faults but one: that a
\* scan is spooled a second time by --transmit-from while its first spool is
\* still undelivered.
THEOREM ImplementsDeliveryAlways ==
  ASSUME FaultBudget["respool"] = 0
  PROVE  Spec => ImplementsDelivery
<1>1. Init => RefInv
  BY RefInvInit
<1>2. Init => Abstract!Init
  BY ConstantsAssumption DEF Init, Abstract!Init, Queued, HasPayload, Own
<1> QED
  BY <1>1, <1>2, RefInvStep, StepIsDelivery, PTL DEF Spec, ImplementsDelivery, Abstract!Spec

=============================================================================
