------------------------- MODULE ListenReportProofs -------------------------
(***************************************************************************)
(* Theorems about ListenReport: the rows of a report are the open          *)
(* endpoints of the host, on every machine whose pids are not used again,  *)
(* however its processes fork and exit between two reads.                  *)
(***************************************************************************)
EXTENDS ListenReport, ListProofs, FiniteSetTheorems, SequenceTheorems, WellFoundedInduction, TLAPS

-----------------------------------------------------------------------------
(* Lists.                                                                  *)

\* A list is one of what is in it.
IsList(s) == s \in Seq(SetRange(s))

LEMMA ListOf ==
  ASSUME NEW T, NEW s \in Seq(T)
  PROVE  IsList(s) /\ SetRange(s) \subseteq T
<1>1. s = [k \in 1..Len(s) |-> s[k]] /\ Len(s) \in Nat /\ DOMAIN s = 1..Len(s)
  OBVIOUS
<1>2. \A k \in 1..Len(s) : s[k] \in SetRange(s)
  BY <1>1 DEF SetRange
<1>3. s \in [1..Len(s) -> SetRange(s)]
  BY <1>1, <1>2
<1>4. \A k \in 1..Len(s) : s[k] \in T
  OBVIOUS
<1>5. SetRange(s) \subseteq T
  BY <1>1, <1>4 DEF SetRange
<1>6. s \in Seq(SetRange(s))
  BY <1>1, <1>3
<1> QED
  BY <1>5, <1>6, Zenon DEF IsList

-----------------------------------------------------------------------------
(* Rows: what one is known by stays with it through attribution, backends   *)
(* and merging.                                                            *)

IsRow(r) ==
  r = [key |-> r.key, family |-> r.family, scope |-> r.scope, coversV4 |-> r.coversV4,
       pid |-> r.pid, exe |-> r.exe, confidence |-> r.confidence,
       components |-> r.components, os |-> r.os, backend |-> r.backend,
       processes |-> r.processes]

LEMMA BlankRowKey ==
  ASSUME NEW e
  PROVE  IsRow(BlankRow(e)) /\ BlankRow(e).key = KeyOf(e)
BY DEF IsRow, BlankRow

LEMMA WithBackendKey ==
  ASSUME NEW row, IsRow(row), NEW containers, NEW id, NEW forward
  PROVE  /\ IsRow(WithBackend(row, containers, id, forward))
         /\ WithBackend(row, containers, id, forward).key = row.key
<1>1. PICK backend, behind, confidence :
        \/ WithBackend(row, containers, id, forward) = [row EXCEPT !.backend = backend]
        \/ WithBackend(row, containers, id, forward) =
             [row EXCEPT !.backend = backend, !.components = behind, !.confidence = confidence]
  BY Zenon DEF WithBackend
<1> QED
  BY <1>1 DEF IsRow

\* Whoever holds an endpoint, its row is the endpoint's.
LEMMA ExposeOneKey ==
  ASSUME NEW s, NEW e, NEW a, NEW publishes, NEW found, NEW containers
  PROVE  /\ IsRow(ExposeOne(s, e, a, publishes, found, containers))
         /\ ExposeOne(s, e, a, publishes, found, containers).key = KeyOf(e)
<1> DEFINE row == [BlankRow(e) EXCEPT !.pid = s.process.pid, !.exe = s.process.exe]
           it == ExposeOne(s, e, a, publishes, found, containers)
<1>1. IsRow(row) /\ row.key = KeyOf(e)
  <2>1. PICK b : b = BlankRow(e)
    OBVIOUS
  <2>2. IsRow(b) /\ b.key = KeyOf(e) /\ row = [b EXCEPT !.pid = s.process.pid, !.exe = s.process.exe]
    BY <2>1, BlankRowKey
  <2> HIDE DEF row
  <2> QED
    BY <2>2 DEF IsRow
<1>2. \/ it = [row EXCEPT !.components = a.components, !.os = a.os, !.confidence = a.confidence]
      \/ \E id, forward : it = WithBackend(row, containers, id, forward)
      \/ it = row
      \/ \E backend : it = [row EXCEPT !.backend = backend]
  BY Zenon DEF ExposeOne
<1> HIDE DEF row, it
<1>3. CASE it = [row EXCEPT !.components = a.components, !.os = a.os, !.confidence = a.confidence]
  <2>1. IsRow(it) /\ it.key = KeyOf(e)
    BY <1>1, <1>3 DEF IsRow
  <2> QED
    BY <2>1 DEF it
<1>4. CASE \E id, forward : it = WithBackend(row, containers, id, forward)
  <2>1. IsRow(it) /\ it.key = KeyOf(e)
    BY <1>1, <1>4, WithBackendKey
  <2> QED
    BY <2>1 DEF it
<1>5. CASE it = row
  BY <1>1, <1>5 DEF it
<1>6. CASE \E backend : it = [row EXCEPT !.backend = backend]
  <2>1. IsRow(it) /\ it.key = KeyOf(e)
    BY <1>1, <1>6 DEF IsRow
  <2> QED
    BY <2>1 DEF it
<1> QED
  BY <1>2, <1>3, <1>4, <1>5, <1>6

RowSet(S) == \A r \in S : IsRow(r)

\* A row that joins the others adds what it is known by, and takes nothing away.
LEMMA MergeRowKeys ==
  ASSUME NEW S, RowSet(S), NEW row, IsRow(row)
  PROVE  /\ RowSet(MergeRow(S, row))
         /\ {r.key : r \in MergeRow(S, row)} = {r.key : r \in S} \cup {row.key}
<1> DEFINE same == {r \in S : r.key = row.key}
           old == CHOOSE r \in same : TRUE
<1>1. CASE same = {}
  <2>1. MergeRow(S, row) = S \cup {row}
    BY <1>1 DEF MergeRow
  <2> QED
    BY <2>1 DEF RowSet
<1>2. CASE same # {}
  <2>1. old \in same
    BY <1>2
  <2>2. PICK new : /\ MergeRow(S, row) = (S \ same) \cup {new}
                   /\ new = [(IF Better(row, old) THEN row ELSE old) EXCEPT
                               !.processes = old.processes + 1,
                               !.components = old.components \cup row.components,
                               !.os = old.os /\ row.os]
    BY <1>2, Zenon DEF MergeRow
  <2>3. PICK base : base \in {row, old} /\ new = [base EXCEPT
                               !.processes = old.processes + 1,
                               !.components = old.components \cup row.components,
                               !.os = old.os /\ row.os]
    BY <2>2
  <2>4. IsRow(base) /\ base.key = row.key
    BY <2>1, <2>3 DEF RowSet
  <2>5. IsRow(new) /\ new.key = row.key
    BY <2>3, <2>4 DEF IsRow
  <2>6. \A r \in S : r \in same <=> r.key = row.key
    OBVIOUS
  <2> HIDE DEF same, old
  <2>7. RowSet(MergeRow(S, row))
    BY <2>2, <2>5 DEF RowSet
  <2>8. \A r \in MergeRow(S, row) : r.key \in {q.key : q \in S} \cup {row.key}
    BY <2>2, <2>5
  <2>9. \A r \in S : \E q \in MergeRow(S, row) : q.key = r.key
    BY <2>2, <2>5, <2>6
  <2>10. \E q \in MergeRow(S, row) : q.key = row.key
    BY <2>2, <2>5
  <2> QED
    BY <2>7, <2>8, <2>9, <2>10
<1> QED
  BY <1>1, <1>2

\* C is the rows after each merge, and report what is made of the last ones.
Merges(C, raw, report) ==
  /\ C[0] = {}
  /\ \A n \in 0..(Len(raw) - 1) : C[n + 1] = MergeRow(C[n], raw[n + 1])
  /\ report = {IF r.processes < 2 THEN [r EXCEPT !.processes = 0] ELSE r : r \in C[Len(raw)]}

LEMMA ExposeSteps ==
  ASSUME NEW told, NEW publishes, NEW found, NEW containers, NEW raw,
         raw = RawRows(told, publishes, found, containers), Len(raw) \in Nat
  PROVE  \E C : Merges(C, raw, Expose(told, publishes, found, containers))
<1> DEFINE N == Len(raw)
           F(h) == [n \in 0..N |-> IF n = 0 THEN {} ELSE MergeRow(h[n - 1], raw[n])]
           merged == CHOOSE h : h = F(h)
           Walk(n, c) == c[0] = {} /\ \A k \in 0..(n - 1) : c[k + 1] = MergeRow(c[k], raw[k + 1])
           T == {n \in Nat : \E c : Walk(n, c)}
<1>1. N \in Nat
  OBVIOUS
<1>2. Expose(told, publishes, found, containers) =
        {IF r.processes < 2 THEN [r EXCEPT !.processes = 0] ELSE r : r \in merged[N]}
  BY DEF Expose
<1> HIDE DEF N
<1>3. 0 \in T
  <2>1. Walk(0, [k \in {0} |-> {}])
    OBVIOUS
  <2> QED
    BY <2>1
<1>4. ASSUME NEW n \in Nat, n \in T PROVE n + 1 \in T
  <2>1. PICK c : Walk(n, c)
    BY <1>4
  <2> DEFINE e == [k \in 0..(n + 1) |-> IF k <= n THEN c[k] ELSE MergeRow(c[n], raw[n + 1])]
  <2>2. e[0] = {}
    BY <2>1
  <2>3. ASSUME NEW k \in 0..n PROVE e[k + 1] = MergeRow(e[k], raw[k + 1])
    <3>1. CASE k = n
      <4>1. e[k + 1] = MergeRow(c[n], raw[k + 1]) /\ e[k] = c[n]
        BY <3>1
      <4> QED
        BY <4>1
    <3>2. CASE k < n
      <4>1. k \in 0..(n - 1) /\ e[k + 1] = c[k + 1] /\ e[k] = c[k]
        BY <3>2
      <4> QED
        BY <4>1, <2>1
    <3> QED
      BY <3>1, <3>2
  <2>4. Walk(n + 1, e)
    <3> HIDE DEF e
    <3> QED
      BY <2>2, <2>3
  <2> HIDE DEF e, Walk
  <2> QED
    BY <2>4
<1>5. PICK C : Walk(N, C)
  <2> HIDE DEF T, Walk
  <2>1. \A n \in Nat : n < N /\ n \in T => n + 1 \in T
    BY <1>4
  <2>2. 0..N \subseteq T
    BY <1>1, <1>3, <2>1, NumbersUpto
  <2>3. N \in 0..N
    BY <1>1
  <2> QED
    BY <2>2, <2>3 DEF T
<1>6. merged = F(merged)
  <2> DEFINE h == [n \in 0..N |-> C[n]]
  <2>1. ASSUME NEW n \in 0..N PROVE h[n] = IF n = 0 THEN {} ELSE MergeRow(h[n - 1], raw[n])
    <3>1. CASE n = 0
      BY <3>1, <1>5
    <3>2. CASE n # 0
      <4>1. n - 1 \in 0..(N - 1) /\ n - 1 \in 0..N /\ (n - 1) + 1 = n
        BY <3>2, <1>1
      <4>2. h[n - 1] = C[n - 1] /\ C[n] = MergeRow(C[n - 1], raw[n])
        BY <4>1, <1>5
      <4>3. h[n] = C[n]
        OBVIOUS
      <4> HIDE DEF h
      <4> QED
        BY <3>2, <4>2, <4>3
    <3> QED
      BY <3>1, <3>2
  <2>2. h = F(h)
    BY <2>1
  <2> HIDE DEF h, F
  <2> QED
    BY <2>2
<1> HIDE DEF merged
<1>7. \A n \in 0..N : merged[n] = IF n = 0 THEN {} ELSE MergeRow(merged[n - 1], raw[n])
  BY <1>6
<1>8. merged[0] = {}
  BY <1>1, <1>7
<1>9. ASSUME NEW n \in 0..(N - 1) PROVE merged[n + 1] = MergeRow(merged[n], raw[n + 1])
  <2>1. n + 1 \in 0..N /\ n + 1 # 0 /\ (n + 1) - 1 = n
    BY <1>1
  <2> QED
    BY <2>1, <1>7
<1> QED
  BY <1>2, <1>8, <1>9 DEF N, Merges

KeysAt(S) == {r.key : r \in S}
KeysBefore(raw) == {raw[k].key : k \in 1..Len(raw)}

\* The rows of a report are known by what the rows before merging are known by.
LEMMA ExposeKeys ==
  ASSUME NEW told, NEW publishes, NEW found, NEW containers, NEW raw,
         raw = RawRows(told, publishes, found, containers), Len(raw) \in Nat,
         \A n \in 1..Len(raw) : IsRow(raw[n])
  PROVE  KeysAt(Expose(told, publishes, found, containers)) = KeysBefore(raw)
<1> USE DEF KeysAt, KeysBefore
<1> DEFINE N == Len(raw)
           report == Expose(told, publishes, found, containers)
<1>0. PICK C : Merges(C, raw, report)
  BY ExposeSteps
<1>1. /\ C[0] = {}
      /\ \A n \in 0..(N - 1) : C[n + 1] = MergeRow(C[n], raw[n + 1])
      /\ report = {IF r.processes < 2 THEN [r EXCEPT !.processes = 0] ELSE r : r \in C[N]}
  BY <1>0 DEF Merges
<1> HIDE DEF report
<1> DEFINE U == {n \in Nat : RowSet(C[n]) /\ KeysAt(C[n]) = {raw[k].key : k \in 1..n}}
<1>2. 0 \in U
  BY <1>1 DEF RowSet
<1>3. ASSUME NEW n \in Nat, n < N, n \in U PROVE n + 1 \in U
  <2>1. n \in 0..(N - 1) /\ n + 1 \in 1..N /\ 1..(n + 1) = (1..n) \cup {n + 1}
    BY <1>3
  <2>2. RowSet(C[n]) /\ KeysAt(C[n]) = {raw[k].key : k \in 1..n}
    BY <1>3
  <2>3. C[n + 1] = MergeRow(C[n], raw[n + 1]) /\ IsRow(raw[n + 1])
    BY <1>1, <2>1
  <2>4. RowSet(C[n + 1]) /\ KeysAt(C[n + 1]) = KeysAt(C[n]) \cup {raw[n + 1].key}
    <3>1. /\ RowSet(MergeRow(C[n], raw[n + 1]))
          /\ KeysAt(MergeRow(C[n], raw[n + 1])) = KeysAt(C[n]) \cup {raw[n + 1].key}
      BY <2>2, <2>3, MergeRowKeys
    <3> QED
      BY <3>1, <2>3
  <2>5. {raw[k].key : k \in 1..(n + 1)} = {raw[k].key : k \in 1..n} \cup {raw[n + 1].key}
    BY <2>1
  <2> HIDE DEF KeysAt
  <2> QED
    BY <2>2, <2>4, <2>5
<1> HIDE DEF U
<1>4. N \in U
  BY <1>2, <1>3, NumbersUpto, SMTT(30)
<1>5. RowSet(C[N]) /\ KeysAt(C[N]) = {raw[k].key : k \in 1..N}
  BY <1>4 DEF U
<1>6. \A r \in C[N] : (IF r.processes < 2 THEN [r EXCEPT !.processes = 0] ELSE r).key = r.key
  BY <1>5 DEF RowSet, IsRow
<1>7. KeysAt(report) = KeysAt(C[N])
  <2>1. \A q \in report : \E r \in C[N] : q.key = r.key
    BY <1>1, <1>6
  <2>2. \A r \in C[N] : \E q \in report : q.key = r.key
    BY <1>1, <1>6
  <2> QED
    BY <2>1, <2>2
<1> QED
  BY <1>5, <1>7 DEF report

-----------------------------------------------------------------------------
(* The three orders of the collection and of the report.                   *)

\* Every endpoint of every service is held, each at its place.
Places(services) == UNION {{k} \X (DOMAIN services[k].endpoints) : k \in DOMAIN services}

LEMMA HeldLists ==
  ASSUME NEW services, IsList(services), \A k \in DOMAIN services : IsList(services[k].endpoints)
  PROVE  /\ Held(services) \in Seq(Places(services))
         /\ \A at \in Places(services) : \E n \in DOMAIN Held(services) : Held(services)[n] = at
<1> DEFINE S == Places(services)
           before == {at \in S \X S : \/ at[1][1] < at[2][1]
                                      \/ at[1][1] = at[2][1] /\ at[1][2] < at[2][2]}
           part == [k \in DOMAIN services |-> {k} \X (DOMAIN services[k].endpoints)]
<1>1. Len(services) \in Nat /\ DOMAIN services = 1..Len(services)
  BY Entries DEF IsList
<1>2. \A k \in DOMAIN services :
        Len(services[k].endpoints) \in Nat /\ DOMAIN services[k].endpoints = 1..Len(services[k].endpoints)
  BY Entries DEF IsList
<1>3. \A x \in S : x = <<x[1], x[2]>> /\ x[1] \in Nat /\ x[2] \in Nat
  BY <1>1, <1>2 DEF Places
<1>4. IsFiniteSet(S)
  <2>1. IsFiniteSet(DOMAIN services)
    BY <1>1, FS_Interval
  <2>2. part \in Surjection(DOMAIN services, Range(part))
    BY DEF Surjection, Range
  <2>3. IsFiniteSet(Range(part))
    BY <2>1, <2>2, FS_Surjection
  <2>4. \A P \in Range(part) : IsFiniteSet(P)
    <3> SUFFICES ASSUME NEW k \in DOMAIN services PROVE IsFiniteSet(part[k])
      BY DEF Range
    <3>1. IsFiniteSet(DOMAIN services[k].endpoints)
      BY <1>2, FS_Interval
    <3>2. IsFiniteSet({k})
      BY FS_Singleton
    <3>3. IsFiniteSet({k} \X (DOMAIN services[k].endpoints))
      BY <3>1, <3>2, FS_Product
    <3> QED
      BY <3>3
  <2>5. S = UNION Range(part)
    BY DEF Places, Range
  <2> HIDE DEF part
  <2> QED
    BY <2>3, <2>4, <2>5, FS_UNION
<1>5. IsOrder(S, before)
  <2> DEFINE F == [x \in S |-> x[1]]
             G == [x \in S |-> x[2]]
  <2>1. F \in [S -> Nat] /\ G \in [S -> Nat]
    BY <1>3
  <2>2. \A x, y \in S : F[x] = F[y] /\ G[x] = G[y] /\ G[x] = G[y] => x = y
    BY <1>3
  <2>3. \A x, y \in S : <<x, y>> \in before <=>
                           \/ F[x] < F[y]
                           \/ F[x] = F[y] /\ G[x] < G[y]
                           \/ F[x] = F[y] /\ G[x] = G[y] /\ G[x] < G[y]
    BY <1>3
  <2> HIDE DEF F, G, before, S
  <2> QED
    BY <2>1, <2>2, <2>3, Lexical DEF ByNumbers
<1>6. Held(services) = InOrder(S, before)
  BY Zenon DEF Held, Places
<1> HIDE DEF S, before
<1>7. /\ Held(services) \in Seq(S)
      /\ \A at \in S : \E n \in DOMAIN Held(services) : Held(services)[n] = at
  BY <1>4, <1>5, <1>6, InOrderLists
<1> QED
  BY <1>7 DEF S

\* Sockets nobody was found for, each told by its inode and its port.
LEMMA UnclaimedLists ==
  ASSUME NEW S, IsFiniteSet(S), NEW f,
         \A e \in S : e.inode \in Nat /\ e.port \in Nat /\ e = f[e.inode]
  PROVE  /\ Unclaimed(S) \in Seq(S)
         /\ \A e \in S : \E n \in DOMAIN Unclaimed(S) : Unclaimed(S)[n] = e
<1> DEFINE before == {at \in S \X S : \/ at[1].port < at[2].port
                                      \/ at[1].port = at[2].port /\ at[1].inode < at[2].inode}
           F == [e \in S |-> e.port]
           G == [e \in S |-> e.inode]
<1>1. F \in [S -> Nat] /\ G \in [S -> Nat]
  OBVIOUS
<1>2. \A x, y \in S : F[x] = F[y] /\ G[x] = G[y] /\ G[x] = G[y] => x = y
  OBVIOUS
<1>3. \A x, y \in S : <<x, y>> \in before <=>
                         \/ F[x] < F[y]
                         \/ F[x] = F[y] /\ G[x] < G[y]
                         \/ F[x] = F[y] /\ G[x] = G[y] /\ G[x] < G[y]
  OBVIOUS
<1>4. Unclaimed(S) = InOrder(S, before)
  BY Zenon DEF Unclaimed
<1> HIDE DEF F, G, before
<1>5. IsOrder(S, before)
  BY <1>1, <1>2, <1>3, Lexical DEF ByNumbers
<1> QED
  BY <1>4, <1>5, InOrderLists

-----------------------------------------------------------------------------
(* What a report has a row for.                                            *)

\* The endpoints a collection tells of, by what a row is known by.
Keys(r) ==
  {KeyOf(e) : e \in r.unowned} \cup
  UNION {{KeyOf(e) : e \in SetRange(s.endpoints)} : s \in SetRange(r.services)}

LEMMA RawKeys ==
  ASSUME NEW told, IsList(told.services), \A s \in SetRange(told.services) : IsList(s.endpoints),
         IsFiniteSet(told.unowned), NEW f,
         \A e \in told.unowned : e.inode \in Nat /\ e.port \in Nat /\ e = f[e.inode],
         NEW publishes, NEW found, NEW containers, NEW raw,
         raw = RawRows(told, publishes, found, containers)
  PROVE  /\ Len(raw) \in Nat
         /\ \A n \in 1..Len(raw) : IsRow(raw[n])
         /\ KeysBefore(raw) = Keys(told)
<1> DEFINE services == told.services
           held == Held(services)
           open == Unclaimed(told.unowned)
           of(at) == ExposeOne(services[at[1]], services[at[1]].endpoints[at[2]],
                               CHOOSE a \in {found[k] : k \in DOMAIN found} :
                                 a.pid = services[at[1]].process.pid,
                               publishes, told.containers, containers)
           front == [n \in DOMAIN held |-> of(held[n])]
           back == [n \in DOMAIN open |-> BlankRow(open[n])]
           keyAt(at) == KeyOf(services[at[1]].endpoints[at[2]])
<1>1. raw = front \o back
  BY Zenon DEF RawRows
<1>2. \A k \in DOMAIN services : IsList(services[k].endpoints)
  BY DEF SetRange
<1>3. /\ held \in Seq(Places(services))
      /\ \A at \in Places(services) : \E n \in DOMAIN held : held[n] = at
  BY <1>2, HeldLists
<1>4. /\ open \in Seq(told.unowned)
      /\ \A e \in told.unowned : \E n \in DOMAIN open : open[n] = e
  BY UnclaimedLists
<1>5. \A at : IsRow(of(at)) /\ of(at).key = keyAt(at)
  BY ExposeOneKey
<1> HIDE DEF of, held, open, services
<1>6. /\ Len(held) \in Nat /\ DOMAIN held = 1..Len(held)
      /\ \A n \in DOMAIN held : held[n] \in Places(services)
  BY <1>3, Entries
<1>7. /\ Len(open) \in Nat /\ DOMAIN open = 1..Len(open)
      /\ \A n \in DOMAIN open : open[n] \in told.unowned
  BY <1>4, Entries
<1> DEFINE R == {r \in {of(at) : at \in Places(services)} \cup {BlankRow(e) : e \in told.unowned} : TRUE}
<1>8. front \in Seq(R) /\ Len(front) = Len(held)
  <2>1. \A n \in 1..Len(held) : of(held[n]) \in R
    BY <1>6
  <2> HIDE DEF R
  <2> QED
    BY <2>1, <1>6
<1>9. back \in Seq(R) /\ Len(back) = Len(open)
  <2>1. \A n \in 1..Len(open) : BlankRow(open[n]) \in R
    BY <1>7
  <2> HIDE DEF R
  <2> QED
    BY <2>1, <1>7
<1>10. \A r \in R : IsRow(r)
  BY <1>5, BlankRowKey
<1>11. \A n \in 1..Len(held) : front[n].key = keyAt(held[n])
  BY <1>5, <1>6
<1>12. \A n \in 1..Len(open) : back[n].key = KeyOf(open[n])
  BY <1>7, BlankRowKey
<1> HIDE DEF front, back, R
<1>13. /\ Len(raw) = Len(held) + Len(open) /\ raw \in Seq(R)
       /\ \A n \in 1..Len(raw) : raw[n] = IF n <= Len(front) THEN front[n] ELSE back[n - Len(front)]
  BY <1>1, <1>8, <1>9, ConcatProperties
<1>14. Len(raw) \in Nat /\ \A n \in 1..Len(raw) : IsRow(raw[n])
  BY <1>6, <1>7, <1>10, <1>13
<1>15. \A key \in Keys(told) : \E n \in 1..Len(raw) : raw[n].key = key
  <2>1. ASSUME NEW e \in told.unowned PROVE \E n \in 1..Len(raw) : raw[n].key = KeyOf(e)
    <3>1. PICK m \in 1..Len(open) : open[m] = e
      BY <1>4, <1>7
    <3>2. Len(held) + m \in 1..Len(raw) /\ raw[Len(held) + m] = back[m]
      BY <1>6, <1>7, <1>8, <1>13
    <3> QED
      BY <3>1, <3>2, <1>12
  <2>2. ASSUME NEW k \in DOMAIN services, NEW j \in DOMAIN services[k].endpoints
        PROVE  \E n \in 1..Len(raw) : raw[n].key = keyAt(<<k, j>>)
    <3>1. <<k, j>> \in Places(services)
      BY DEF Places
    <3>2. PICK m \in 1..Len(held) : held[m] = <<k, j>>
      BY <3>1, <1>3, <1>6
    <3>3. m \in 1..Len(raw) /\ raw[m] = front[m]
      BY <1>6, <1>7, <1>8, <1>13
    <3> QED
      BY <3>2, <3>3, <1>11
  <2> HIDE DEF keyAt
  <2>3. \A k \in DOMAIN services : \A j \in DOMAIN services[k].endpoints :
          keyAt(<<k, j>>) = KeyOf(services[k].endpoints[j])
    BY DEF keyAt
  <2>4. ASSUME NEW s \in SetRange(services), NEW e \in SetRange(s.endpoints)
        PROVE  \E n \in 1..Len(raw) : raw[n].key = KeyOf(e)
    <3>1. PICK k \in DOMAIN services : s = services[k]
      BY DEF SetRange
    <3>2. PICK j \in DOMAIN services[k].endpoints : e = services[k].endpoints[j]
      BY <3>1 DEF SetRange
    <3> QED
      BY <3>2, <2>2, <2>3
  <2> QED
    BY <2>1, <2>4 DEF Keys, services
<1>16. \A n \in 1..Len(raw) : raw[n].key \in Keys(told)
  <2> SUFFICES ASSUME NEW n \in 1..Len(raw) PROVE raw[n].key \in Keys(told)
    OBVIOUS
  <2>1. CASE n <= Len(held)
    <3>1. n \in 1..Len(held) /\ raw[n] = front[n]
      BY <2>1, <1>6, <1>8, <1>13
    <3>2. held[n] \in Places(services) /\ raw[n].key = keyAt(held[n])
      BY <3>1, <1>6, <1>11
    <3>3. PICK k \in DOMAIN services : held[n] \in {k} \X (DOMAIN services[k].endpoints)
      BY <3>2 DEF Places
    <3> DEFINE j == held[n][2]
    <3>6. j \in DOMAIN services[k].endpoints /\ held[n][1] = k
      BY <3>3
    <3>4. services[k] \in SetRange(services)
      BY DEF SetRange
    <3>5. raw[n].key = KeyOf(services[k].endpoints[j])
      BY <3>2, <3>6
    <3>7. services[k].endpoints[j] \in SetRange(services[k].endpoints)
      BY <3>6 DEF SetRange
    <3> HIDE DEF keyAt, j
    <3> QED
      BY <3>4, <3>5, <3>7 DEF Keys, services
  <2>2. CASE ~(n <= Len(held))
    <3>1. n - Len(held) \in 1..Len(open) /\ raw[n] = back[n - Len(held)]
      BY <2>2, <1>6, <1>7, <1>8, <1>13
    <3>2. raw[n].key = KeyOf(open[n - Len(held)]) /\ open[n - Len(held)] \in told.unowned
      BY <3>1, <1>7, <1>12
    <3> QED
      BY <3>2 DEF Keys
  <2> QED
    BY <2>1, <2>2
<1>17. KeysBefore(raw) = Keys(told)
  BY <1>15, <1>16 DEF KeysBefore
<1> QED
  BY <1>14, <1>17

\* No endpoint told of is lost on the way to the rows, and none is added.
LEMMA RowsAreTold ==
  ASSUME NEW told, IsList(told.services), \A s \in SetRange(told.services) : IsList(s.endpoints),
         IsFiniteSet(told.unowned), NEW f,
         \A e \in told.unowned : e.inode \in Nat /\ e.port \in Nat /\ e = f[e.inode],
         NEW publishes, NEW found, NEW containers
  PROVE  KeysAt(Expose(told, publishes, found, containers)) = Keys(told)
<1>0. PICK raw : raw = RawRows(told, publishes, found, containers)
  OBVIOUS
<1>1. Len(raw) \in Nat /\ (\A n \in 1..Len(raw) : IsRow(raw[n])) /\ KeysBefore(raw) = Keys(told)
  BY <1>0, RawKeys
<1>2. KeysAt(Expose(told, publishes, found, containers)) = KeysBefore(raw)
  BY <1>0, <1>1, ExposeKeys
<1> QED
  BY <1>1, <1>2

-----------------------------------------------------------------------------
(* What the scan knows of the machine.                                     *)

MachineOK ==
  /\ proc = [p \in Pids |-> proc[p]]
  /\ Alive(1) /\ Alive(Self)
  /\ \A p \in Pids : Alive(p) => proc[p].net \in Nat /\ proc[p].fds \in Seq(Inodes)
  /\ steady \subseteq HeldBy(proc)
  /\ elevated \in BOOLEAN

HostKnown == pc # "anchor" => hostNS = HostNet

\* Who was listed in a namespace is in it for as long as it lives.
SpacesOK ==
  /\ pc = "anchor" => spaces = <<>>
  /\ spaces = [n \in DOMAIN spaces |-> spaces[n]]
  /\ \A n \in DOMAIN spaces :
       /\ n \in Nat
       /\ spaces[n] = [pids |-> spaces[n].pids, cid |-> spaces[n].cid, named |-> spaces[n].named]
       /\ spaces[n].pids \subseteq Pids /\ spaces[n].pids # {}
       /\ \A p \in spaces[n].pids : proc[p] # Unborn /\ (Alive(p) => proc[p].net = n)

TodoOK ==
  /\ pc \in {"list", "walk", "read"} => todo \subseteq Pids
  /\ pc = "tables" => todo \subseteq DOMAIN spaces
  /\ pc = "read" => todo # {}

\* To a privileged scan init is in the host's namespace, and the first there.
HostListed ==
  elevated => \/ pc = "anchor"
              \/ pc = "list" /\ 1 \in todo
              \/ hostNS \in DOMAIN spaces /\ 1 \in spaces[hostNS].pids

WantedOK ==
  /\ pc \in {"anchor", "list"} => wanted = <<>>
  /\ \A i \in DOMAIN wanted : i \in Inodes /\ Served(i) /\ wanted[i] = Sock[i].ns

HostRead ==
  elevated /\ ((pc = "tables" /\ hostNS \notin todo) \/ pc \in {"walk", "read", "done", "failed"})
    => \A i \in steady : Sock[i].ns = hostNS /\ Served(i) => i \in DOMAIN wanted

OwnersOK ==
  /\ pc \in {"anchor", "list", "tables"} => owners = <<>>
  /\ pc = "read" => inHand \in Seq(DOMAIN wanted)
  /\ IsList(owners)
  /\ \A o \in SetRange(owners) : o.inode \in DOMAIN wanted /\ o.process.pid \in Pids

\* A collection tells of sockets of the host, and of every one that was wanted.
IsTold(r) ==
  /\ IsFiniteSet(r.unowned)
  /\ \A e \in r.unowned : e.inode \in Inodes /\ e.port \in Nat /\ e = Endpoint(e.inode)
  /\ IsList(r.services) /\ \A s \in SetRange(r.services) : IsList(s.endpoints)
  /\ \A key \in Keys(r) : \E i \in DOMAIN wanted : KeyOf(Sock[i]) = key /\ (Sock[i].ns = hostNS \/ Straddling(i))
  /\ \A i \in DOMAIN wanted : Sock[i].ns = hostNS /\ ~Straddling(i) => KeyOf(Sock[i]) \in Keys(r)

ResultOK == pc = "done" => IsTold(result)

RowsOK ==
  /\ stage \in {"enrich", "engine", "expose"} => pc = "done"
  /\ Done => RowKeys = Keys(result)

ListenInv ==
  /\ MachineOK /\ HostKnown /\ SpacesOK /\ TodoOK /\ HostListed
  /\ WantedOK /\ HostRead /\ OwnersOK /\ ResultOK /\ RowsOK
-----------------------------------------------------------------------------
(* The join of sockets and processes.                                      *)

Weight(proto) == [tcp |-> 1, tcp6 |-> 2, udp |-> 3, udp6 |-> 4][proto]

\* s is a list of S, all of it.
Enumerates(s, S) == s \in Seq(S) /\ \A x \in S : \E k \in DOMAIN s : s[k] = x
SocketsAt(own, K) == K \subseteq Nat /\ IsFiniteSet(K) /\ \A k \in K : own[k].inode \in Inodes

\* Sorted by port and protocol, the sockets of a process are all there.
LEMMA SortedLists ==
  ASSUME NEW own, NEW K, SocketsAt(own, K)
  PROVE  Enumerates(Sorted(own, K), K)
<1> USE DEF SocketsAt
<1> DEFINE before == {at \in K \X K : LET a == Sock[own[at[1]].inode]
                                          b == Sock[own[at[2]].inode]
                                      IN  EndpointsBefore(a, b) \/ (~EndpointsBefore(b, a) /\ at[1] < at[2])}
           F == [k \in K |-> Sock[own[k].inode].port]
           G == [k \in K |-> Weight(Sock[own[k].inode].proto)]
           C == [k \in K |-> k]
<1>1. \A proto \in {"tcp", "tcp6", "udp", "udp6"} : Weight(proto) \in Nat
  BY DEF Weight
<1>2. F \in [K -> Nat] /\ G \in [K -> Nat] /\ C \in [K -> Nat]
  BY <1>1, SockAssumption
<1>3. \A x, y \in K : F[x] = F[y] /\ G[x] = G[y] /\ C[x] = C[y] => x = y
  OBVIOUS
<1>4. \A a, b : EndpointsBefore(a, b) <=> \/ a.port < b.port
                                          \/ a.port = b.port /\ Weight(a.proto) < Weight(b.proto)
  BY DEF EndpointsBefore, Weight
<1>5. \A x, y \in K : <<x, y>> \in before <=>
        \/ EndpointsBefore(Sock[own[x].inode], Sock[own[y].inode])
        \/ ~EndpointsBefore(Sock[own[y].inode], Sock[own[x].inode]) /\ x < y
  OBVIOUS
<1>6. \A x, y \in K : <<x, y>> \in before <=>
        \/ F[x] < F[y]
        \/ F[x] = F[y] /\ G[x] < G[y]
        \/ F[x] = F[y] /\ G[x] = G[y] /\ C[x] < C[y]
  <2> SUFFICES ASSUME NEW x \in K, NEW y \in K
               PROVE <<x, y>> \in before <=>
                        \/ F[x] < F[y]
                        \/ F[x] = F[y] /\ G[x] < G[y]
                        \/ F[x] = F[y] /\ G[x] = G[y] /\ C[x] < C[y]
    OBVIOUS
  <2>1. /\ EndpointsBefore(Sock[own[x].inode], Sock[own[y].inode]) <=>
             \/ F[x] < F[y]
             \/ F[x] = F[y] /\ G[x] < G[y]
        /\ EndpointsBefore(Sock[own[y].inode], Sock[own[x].inode]) <=>
             \/ F[y] < F[x]
             \/ F[y] = F[x] /\ G[y] < G[x]
    BY <1>4
  <2>2. F[x] \in Nat /\ F[y] \in Nat /\ G[x] \in Nat /\ G[y] \in Nat /\ C[x] = x /\ C[y] = y
    BY <1>2
  <2> HIDE DEF F, G, C, before
  <2> QED
    BY <1>5, <2>1, <2>2
<1>7. Sorted(own, K) = InOrder(K, before)
  BY Zenon DEF Sorted
<1> HIDE DEF F, G, C, before
<1>8. ByNumbers(K, before, F, G, C)
  BY <1>2, <1>3, <1>6 DEF ByNumbers
<1>9. IsOrder(K, before)
  BY <1>8, Lexical
<1> QED
  BY <1>7, <1>9, InOrderLists DEF Enumerates

HoldersOf(p) == {o \in SetRange(owners) : o.process.pid = p}
Holding == {o.process.pid : o \in SetRange(owners)}

\* A service tells of every wanted socket of its process, and is the host's when one of
\* them is.
LEMMA ServiceOfPid ==
  ASSUME WantedOK, OwnersOK, NEW p \in Holding
  PROVE  /\ IsList(ServiceOf(owners, p).endpoints)
         /\ SetRange(ServiceOf(owners, p).endpoints) = {Endpoint(o.inode) : o \in HoldersOf(p)}
         /\ \E o \in HoldersOf(p) : ServiceOf(owners, p).host = (wanted[o.inode] = hostNS)
<1> DEFINE mine == {k \in DOMAIN owners : owners[k].process.pid = p}
           order == Sorted(owners, mine)
           first == owners[Least(mine)]
           endpoints == [k \in DOMAIN order |-> Endpoint(owners[order[k]].inode)]
<1>1. Len(owners) \in Nat /\ DOMAIN owners = 1..Len(owners)
  BY Entries DEF OwnersOK, IsList
<1>2. mine \subseteq Nat /\ IsFiniteSet(mine)
  <2>1. IsFiniteSet(1..Len(owners))
    BY <1>1, FS_Interval
  <2> QED
    BY <1>1, <2>1, FS_Subset
<1>3. mine # {}
  BY DEF Holding, SetRange
<1>4. \A k \in mine : owners[k] \in HoldersOf(p) /\ owners[k].inode \in Inodes
  BY DEF HoldersOf, SetRange, OwnersOK, WantedOK
<1>5. \A o \in HoldersOf(p) : \E k \in mine : owners[k] = o
  BY DEF HoldersOf, SetRange
<1>6. Least(mine) \in mine
  BY <1>2, <1>3, LeastNumber
<1>7. /\ ServiceOf(owners, p).endpoints = endpoints
      /\ ServiceOf(owners, p).host = (wanted[first.inode] = hostNS)
  BY DEF ServiceOf
<1> HIDE DEF mine
<1>8. order \in Seq(mine) /\ \A x \in mine : \E k \in DOMAIN order : order[k] = x
  <2>1. SocketsAt(owners, mine)
    BY <1>2, <1>4 DEF SocketsAt
  <2>2. Enumerates(Sorted(owners, mine), mine)
    BY <2>1, SortedLists
  <2> QED
    BY <2>2 DEF Enumerates
<1> HIDE DEF order
<1>9. Len(order) \in Nat /\ DOMAIN order = 1..Len(order) /\ \A k \in DOMAIN order : order[k] \in mine
  BY <1>8, Entries
<1>10. SetRange(endpoints) = {Endpoint(o.inode) : o \in HoldersOf(p)}
  <2>1. \A k \in DOMAIN order : endpoints[k] \in {Endpoint(o.inode) : o \in HoldersOf(p)}
    BY <1>4, <1>9
  <2>2. ASSUME NEW o \in HoldersOf(p) PROVE \E k \in DOMAIN order : endpoints[k] = Endpoint(o.inode)
    <3>1. PICK m \in mine : owners[m] = o
      BY <1>5
    <3>2. PICK k \in DOMAIN order : order[k] = m
      BY <1>8
    <3> QED
      BY <3>1, <3>2
  <2> QED
    BY <2>1, <2>2 DEF SetRange
<1>11. endpoints \in Seq({Endpoint(o.inode) : o \in HoldersOf(p)})
  <2>1. \A k \in 1..Len(order) : Endpoint(owners[order[k]].inode) \in {Endpoint(o.inode) : o \in HoldersOf(p)}
    BY <1>4, <1>9
  <2> QED
    BY <1>9, <2>1
<1>12. IsList(endpoints)
  BY <1>11, ListOf
<1> HIDE DEF endpoints
<1> QED
  BY <1>4, <1>6, <1>7, <1>10, <1>12

\* One service for each process that holds a wanted socket.
LEMMA Grouped ==
  ASSUME SocketsAssumption, WantedOK, OwnersOK
  PROVE  /\ IsList(GroupByProcess(owners))
         /\ SetRange(GroupByProcess(owners)) = {ServiceOf(owners, p) : p \in Holding}
<1> DEFINE pids == Positions(Holding)
           services == [k \in DOMAIN pids |-> ServiceOf(owners, pids[k])]
           S == {ServiceOf(owners, p) : p \in Holding}
<1>1. Holding \subseteq Pids
  BY DEF Holding, OwnersOK
<1>2. Holding \subseteq Nat /\ IsFiniteSet(Holding)
  BY <1>1, SocketsAssumption, FS_Subset
<1>3. pids \in Seq(Holding) /\ \A x \in Holding : \E k \in DOMAIN pids : pids[k] = x
  BY <1>2, PositionsLists
<1>4. GroupByProcess(owners) = services
  BY Zenon DEF GroupByProcess, Holding
<1> HIDE DEF pids
<1>5. Len(pids) \in Nat /\ DOMAIN pids = 1..Len(pids) /\ \A k \in DOMAIN pids : pids[k] \in Holding
  BY <1>3, Entries
<1>6. services \in Seq(S)
  <2>1. \A k \in 1..Len(pids) : ServiceOf(owners, pids[k]) \in S
    BY <1>5
  <2> HIDE DEF S
  <2> QED
    BY <1>5, <2>1
<1>7. SetRange(services) = S
  BY <1>3, <1>5 DEF SetRange
<1> HIDE DEF services
<1> QED
  BY <1>4, <1>6, <1>7, ListOf

\* The host's part is every service of the host and no other.
LEMMA HostPart ==
  ASSUME NEW services, IsList(services)
  PROVE  /\ IsList(SplitHost(services))
         /\ SetRange(SplitHost(services)) = {s \in SetRange(services) : s.host}
<1> DEFINE K == {k \in DOMAIN services : services[k].host}
           part == At(services, K)
<1>1. services \in Seq(SetRange(services)) /\ K \subseteq DOMAIN services
  BY DEF IsList
<1>0. \A k : k \in K <=> k \in DOMAIN services /\ services[k].host
  OBVIOUS
<1>3. SplitHost(services) = part
  BY Zenon DEF SplitHost
<1> HIDE DEF K
<1>2. /\ part \in Seq(SetRange(services))
      /\ \A k \in K : \E n \in DOMAIN part : part[n] = services[k]
      /\ \A n \in DOMAIN part : \E k \in K : part[n] = services[k]
  BY <1>1, AtLists
<1> HIDE DEF part
<1>4. SetRange(part) = {s \in SetRange(services) : s.host}
  BY <1>0, <1>2 DEF SetRange
<1> QED
  BY <1>2, <1>3, <1>4, ListOf

\* What the collection makes of the sockets and their owners tells of the host.
LEMMA CollectedTells ==
  ASSUME SocketsAssumption, SockAssumption, WantedOK, OwnersOK, NEW told,
         told.services = SplitHost(GroupByProcess(owners)),
         told.unowned = {Endpoint(i) : i \in {j \in Unowned : wanted[j] = hostNS}}
  PROVE  IsTold(told)
<1> DEFINE services == GroupByProcess(owners)
<1>1. IsList(services) /\ SetRange(services) = {ServiceOf(owners, p) : p \in Holding}
  BY Grouped
<1>2. IsList(told.services) /\ SetRange(told.services) = {s \in SetRange(services) : s.host}
  BY <1>1, HostPart
<1> HIDE DEF services
<1>3. \A p \in Holding :
        /\ IsList(ServiceOf(owners, p).endpoints)
        /\ SetRange(ServiceOf(owners, p).endpoints) = {Endpoint(o.inode) : o \in HoldersOf(p)}
        /\ \E o \in HoldersOf(p) : ServiceOf(owners, p).host = (wanted[o.inode] = hostNS)
  BY ServiceOfPid
<1>4. \A i \in DOMAIN wanted : i \in Inodes /\ wanted[i] = Sock[i].ns /\ i \in Nat
  BY SocketsAssumption DEF WantedOK
<1>5. \A i : KeyOf(Endpoint(i)) = KeyOf(Sock[i]) /\ Endpoint(i).inode = i /\ Endpoint(i).port = Sock[i].port
  BY DEF KeyOf, Endpoint
<1>6. \A p \in Holding : \A o \in HoldersOf(p) :
        o \in SetRange(owners) /\ o.process.pid = p /\ o.inode \in DOMAIN wanted
  BY DEF HoldersOf, OwnersOK
<1>7. ASSUME NEW p \in Holding, NEW o \in HoldersOf(p), ~Straddling(o.inode)
      PROVE  ServiceOf(owners, p).host = (Sock[o.inode].ns = hostNS)
  <2>1. PICK q \in HoldersOf(p) : ServiceOf(owners, p).host = (wanted[q.inode] = hostNS)
    BY <1>3
  <2>2. Sock[q.inode].ns = Sock[o.inode].ns
    BY <1>6, <1>7 DEF Straddling
  <2>3. wanted[q.inode] = Sock[q.inode].ns
    BY <1>4, <1>6
  <2> QED
    BY <2>1, <2>2, <2>3
<1>8. /\ IsFiniteSet(told.unowned)
      /\ \A e \in told.unowned : e.inode \in Inodes /\ e.port \in Nat /\ e = Endpoint(e.inode)
  <2> DEFINE U == {j \in Unowned : wanted[j] = hostNS}
             f == [i \in U |-> Endpoint(i)]
  <2>1. U \subseteq Inodes
    BY <1>4 DEF Unowned
  <2>2. IsFiniteSet(U)
    BY <2>1, SocketsAssumption, FS_Subset
  <2>3. f \in Surjection(U, told.unowned)
    <3>1. \A i \in U : f[i] \in told.unowned
      OBVIOUS
    <3>2. \A e \in told.unowned : \E i \in U : f[i] = e
      OBVIOUS
    <3>3. f = [i \in U |-> f[i]]
      OBVIOUS
    <3> HIDE DEF U, f
    <3> QED
      BY <3>1, <3>2, <3>3 DEF Surjection
  <2>4. IsFiniteSet(told.unowned)
    BY <2>2, <2>3, FS_Surjection
  <2>5. \A i \in U : Endpoint(i).inode = i /\ i \in Inodes /\ Endpoint(i).port \in Nat
    BY <1>5, <2>1, SockAssumption
  <2>6. \A e \in told.unowned : \E i \in U : e = Endpoint(i)
    OBVIOUS
  <2> HIDE DEF U
  <2> QED
    BY <2>4, <2>5, <2>6
<1>9. \A s \in SetRange(told.services) : IsList(s.endpoints)
  BY <1>1, <1>2, <1>3
<1>10. ASSUME NEW key \in Keys(told)
       PROVE  \E i \in DOMAIN wanted : KeyOf(Sock[i]) = key /\ (Sock[i].ns = hostNS \/ Straddling(i))
  <2>1. CASE \E e \in told.unowned : key = KeyOf(e)
    <3>1. PICK i \in Unowned : wanted[i] = hostNS /\ key = KeyOf(Endpoint(i))
      BY <2>1
    <3>2. i \in DOMAIN wanted
      BY DEF Unowned
    <3> QED
      BY <3>1, <3>2, <1>4, <1>5
  <2>2. CASE \E s \in SetRange(told.services) : key \in {KeyOf(e) : e \in SetRange(s.endpoints)}
    <3>1. PICK s \in SetRange(told.services) : key \in {KeyOf(e) : e \in SetRange(s.endpoints)}
      BY <2>2
    <3>2. PICK p \in Holding : s = ServiceOf(owners, p) /\ s.host
      BY <1>1, <1>2
    <3>3. PICK e \in SetRange(s.endpoints) : key = KeyOf(e)
      BY <3>1
    <3>4. PICK o \in HoldersOf(p) : e = Endpoint(o.inode)
      BY <1>3, <3>2
    <3>5. o.inode \in DOMAIN wanted /\ key = KeyOf(Sock[o.inode])
      BY <3>3, <3>4, <1>5, <1>6
    <3>6. Sock[o.inode].ns = hostNS \/ Straddling(o.inode)
      BY <3>2, <1>7
    <3> QED
      BY <3>5, <3>6
  <2> QED
    BY <1>10, <2>1, <2>2 DEF Keys
<1>11. ASSUME NEW i \in DOMAIN wanted, Sock[i].ns = hostNS, ~Straddling(i)
       PROVE  KeyOf(Sock[i]) \in Keys(told)
  <2>1. CASE i \in Unowned
    <3>1. Endpoint(i) \in told.unowned
      BY <2>1, <1>4, <1>11
    <3> QED
      BY <3>1, <1>5 DEF Keys
  <2>2. CASE i \notin Unowned
    <3>1. PICK o \in SetRange(owners) : o.inode = i
      BY <2>2 DEF Unowned
    <3> DEFINE p == o.process.pid
    <3>2. p \in Holding /\ o \in HoldersOf(p)
      BY DEF Holding, HoldersOf
    <3> HIDE DEF p
    <3>3. ServiceOf(owners, p).host
      BY <3>1, <3>2, <1>7, <1>11
    <3>4. ServiceOf(owners, p) \in SetRange(told.services)
      BY <3>2, <3>3, <1>1, <1>2
    <3>5. Endpoint(i) \in SetRange(ServiceOf(owners, p).endpoints)
      BY <3>1, <3>2, <1>3
    <3>6. KeyOf(Endpoint(i)) \in {KeyOf(e) : e \in SetRange(ServiceOf(owners, p).endpoints)}
      BY <3>5
    <3>7. KeyOf(Endpoint(i)) \in UNION {{KeyOf(e) : e \in SetRange(s.endpoints)} : s \in SetRange(told.services)}
      BY <3>4, <3>6
    <3> QED
      BY <3>7, <1>5 DEF Keys
  <2> QED
    BY <2>1, <2>2
<1> QED
  BY <1>2, <1>8, <1>9, <1>10, <1>11 DEF IsTold

-----------------------------------------------------------------------------
(* The invariant.                                                          *)

LEMMA InitOK ==
  ASSUME SocketsAssumption, BootsAssumption, Init
  PROVE  ListenInv
<1> USE DEF Init, SocketsInit
<1>1. MachineOK
  BY SocketsAssumption, BootsAssumption DEF MachineOK, Alive
<1>2. HostKnown /\ SpacesOK /\ TodoOK /\ HostListed /\ HostRead
  BY DEF HostKnown, SpacesOK, TodoOK, HostListed, HostRead
<1>3. WantedOK
  BY DEF WantedOK
<1>4. OwnersOK
  <2>1. SetRange(owners) = {}
    BY DEF SetRange
  <2> QED
    BY <2>1 DEF OwnersOK, IsList
<1>5. ResultOK /\ RowsOK
  BY DEF ResultOK, RowsOK, Done
<1> QED
  BY <1>1, <1>2, <1>3, <1>4, <1>5 DEF ListenInv

\* What a collection told does not change with the machine.
LEMMA ScanUnchanged ==
  ASSUME HostKnown, SpacesOK, TodoOK, HostListed, WantedOK, OwnersOK, ResultOK, UNCHANGED scanVars, UNCHANGED elevated
  PROVE  TodoOK' /\ HostListed' /\ WantedOK' /\ OwnersOK' /\ ResultOK'
<1> USE DEF scanVars
<1>1. TodoOK' /\ HostListed' /\ WantedOK' /\ OwnersOK'
  BY DEF TodoOK, HostListed, WantedOK, OwnersOK
<1>2. ResultOK'
  BY DEF ResultOK, IsTold, Endpoint, Straddling
<1> QED
  BY <1>1, <1>2

\* init and the scan live, and nobody who was listed is born again.
LEMMA MachineKeeps ==
  ASSUME SocketsAssumption, Reuse = FALSE, MachineOK, HostKnown, SpacesOK, TodoOK, HostListed,
         WantedOK, HostRead, OwnersOK, ResultOK, Machine
  PROVE  /\ MachineOK' /\ HostKnown' /\ SpacesOK' /\ TodoOK' /\ HostListed'
         /\ WantedOK' /\ HostRead' /\ OwnersOK' /\ ResultOK' /\ UNCHANGED pc
<1>1. PICK p \in Pids : Exit(p) \/ \E c \in Pids : Fork(p, c)
  BY DEF Machine
<1>2. UNCHANGED scanVars /\ UNCHANGED elevated /\ steady' = steady \cap HeldBy(proc')
  BY <1>1 DEF Exit, Fork, Change
<1>3. PICK c \in Pids : /\ c \notin {1, Self}
                        /\ \/ proc' = [proc EXCEPT ![c] = Gone]
                           \/ proc[c] = Unborn /\ Alive(p) /\ proc' = [proc EXCEPT ![c] = proc[p]]
  <2>1. CASE Exit(p)
    BY <2>1 DEF Exit, Change
  <2>2. CASE \E c \in Pids : Fork(p, c)
    <3>1. PICK c \in Pids : Fork(p, c)
      BY <2>2
    <3>2. proc[c] = Unborn /\ Alive(p) /\ proc' = [proc EXCEPT ![c] = proc[p]]
      BY <3>1 DEF Fork, Change
    <3>3. c \notin {1, Self}
      BY <3>2 DEF MachineOK, Alive
    <3> QED
      BY <3>2, <3>3
  <2> QED
    BY <1>1, <2>1, <2>2
<1>4. /\ proc' = [q \in Pids |-> proc'[q]]
      /\ \A q \in Pids : q # c => proc'[q] = proc[q]
      /\ proc'[c] = Gone \/ (proc[c] = Unborn /\ Alive(p) /\ proc'[c] = proc[p])
  BY <1>3 DEF MachineOK
<1>5. {1, Self} \subseteq Pids
  BY SocketsAssumption
<1>6. MachineOK'
  <2>1. Alive(1)' /\ Alive(Self)'
    BY <1>3, <1>4, <1>5 DEF MachineOK, Alive
  <2>2. \A q \in Pids : Alive(q)' => proc'[q].net \in Nat /\ proc'[q].fds \in Seq(Inodes)
    BY <1>4 DEF MachineOK, Alive
  <2>3. steady' \subseteq HeldBy(proc)'
    BY <1>2 DEF HeldBy
  <2> QED
    BY <1>2, <1>4, <2>1, <2>2, <2>3 DEF MachineOK
<1>7. HostKnown'
  BY <1>2, <1>3, <1>4, <1>5 DEF HostKnown, HostNet, Owned, scanVars
<1>8. SpacesOK'
  <2> SUFFICES ASSUME NEW n \in DOMAIN spaces, NEW q \in spaces[n].pids
               PROVE  proc'[q] # Unborn /\ (Alive(q)' => proc'[q].net = n)
    BY <1>2 DEF SpacesOK, scanVars
  <2>1. q \in Pids /\ proc[q] # Unborn /\ (Alive(q) => proc[q].net = n)
    BY DEF SpacesOK
  <2>2. Gone # Unborn
    BY DEF Gone, Unborn
  <2> QED
    BY <1>4, <2>1, <2>2 DEF Alive
<1>9. TodoOK' /\ HostListed' /\ WantedOK' /\ OwnersOK' /\ ResultOK'
  BY <1>2, ScanUnchanged
<1>10. HostRead'
  BY <1>2 DEF HostRead, Served, Accepting, scanVars
<1> QED
  BY <1>2, <1>6, <1>7, <1>8, <1>9, <1>10 DEF scanVars

ScanOK == /\ MachineOK /\ HostKnown /\ SpacesOK /\ TodoOK /\ HostListed
          /\ WantedOK /\ HostRead /\ OwnersOK /\ ResultOK

\* A step of the scan leaves the machine as it is.
LEMMA WorldStays ==
  ASSUME MachineOK, UNCHANGED world
  PROVE  MachineOK' /\ HostNet' = HostNet
<1>1. MachineOK'
  BY DEF MachineOK, world, Alive, HeldBy
<1>2. HostNet' = HostNet
  BY DEF HostNet, Owned, world
<1> QED
  BY <1>1, <1>2

LEMMA AnchorKeeps ==
  ASSUME SocketsAssumption, ScanOK, Anchor
  PROVE  ScanOK'
<1> USE DEF ScanOK, Anchor
<1>1. MachineOK' /\ HostNet' = HostNet
  BY WorldStays
<1>2. HostKnown'
  BY <1>1 DEF HostKnown, HostNet
<1>3. SpacesOK' /\ TodoOK'
  BY DEF SpacesOK, TodoOK, Live, world
<1>4. HostListed'
  BY SocketsAssumption DEF HostListed, Live, MachineOK
<1>5. WantedOK' /\ HostRead' /\ OwnersOK' /\ ResultOK'
  BY DEF WantedOK, HostRead, OwnersOK, ResultOK
<1> QED
  BY <1>1, <1>2, <1>3, <1>4, <1>5

\* The next process is put down for the namespace it is in, or for none.
LEMMA ListOneKeeps ==
  ASSUME SocketsAssumption, ScanOK, ListOne
  PROVE  ScanOK'
<1> USE DEF ScanOK
<1>0. /\ pc = "list" /\ todo # {} /\ UNCHANGED <<world, pc, hostNS, wanted, inHand, owners, result>>
      /\ todo \subseteq Pids
  BY DEF ListOne, TodoOK
<1>1. MachineOK' /\ HostNet' = HostNet
  BY <1>0, WorldStays
<1>2. PICK p : p = Least(todo) /\ todo' = todo \ {p}
  BY DEF ListOne
<1>3. p \in todo /\ p \in Pids
  BY <1>0, <1>2, SocketsAssumption, LeastNumber
<1> DEFINE n == proc[p].net
           entry == [pids |-> {p}, cid |-> NoContainer, named |-> n = hostNS]
<1>4. \/ (~Alive(p) \/ p \notin Owned) /\ spaces' = spaces
      \/ /\ Alive(p) /\ p \in Owned /\ n \in DOMAIN spaces
         /\ spaces' = [spaces EXCEPT ![n].pids = @ \cup {p}]
      \/ /\ Alive(p) /\ p \in Owned /\ n \notin DOMAIN spaces
         /\ spaces' = [m \in {n} \cup DOMAIN spaces |-> IF m = n THEN entry ELSE spaces[m]]
  <2>1. spaces' = IF ~Alive(p) \/ p \notin Owned THEN spaces
                  ELSE IF n \in DOMAIN spaces
                       THEN [spaces EXCEPT ![n].pids = @ \cup {p}]
                  ELSE [m \in {n} \cup DOMAIN spaces |-> IF m = n THEN entry ELSE spaces[m]]
    BY <1>2 DEF ListOne
  <2> HIDE DEF n, entry
  <2> QED
    BY <2>1
<1>5. Alive(p) => n \in Nat /\ proc[p] # Unborn
  BY <1>3 DEF MachineOK, Alive
<1>6. /\ spaces' = [m \in DOMAIN spaces' |-> spaces'[m]]
      /\ \A m \in DOMAIN spaces' :
           \/ m \in DOMAIN spaces /\ spaces'[m] = spaces[m]
           \/ /\ Alive(p) /\ m = n /\ m \in DOMAIN spaces
              /\ spaces'[m] = [pids |-> spaces[m].pids \cup {p}, cid |-> spaces[m].cid, named |-> spaces[m].named]
           \/ Alive(p) /\ m = n /\ spaces'[m] = entry
      /\ \A m \in DOMAIN spaces : m \in DOMAIN spaces' /\ spaces[m].pids \subseteq spaces'[m].pids
      /\ Alive(p) /\ p \in Owned => n \in DOMAIN spaces' /\ p \in spaces'[n].pids
  <2>1. CASE spaces' = spaces /\ (~Alive(p) \/ p \notin Owned)
    BY <2>1 DEF SpacesOK
  <2>2. CASE /\ Alive(p) /\ p \in Owned /\ n \in DOMAIN spaces
             /\ spaces' = [spaces EXCEPT ![n].pids = @ \cup {p}]
    <3>1. /\ spaces = [m \in DOMAIN spaces |-> spaces[m]]
          /\ \A m \in DOMAIN spaces : spaces[m] = [pids |-> spaces[m].pids, cid |-> spaces[m].cid, named |-> spaces[m].named]
      BY DEF SpacesOK
    <3> HIDE DEF n
    <3>2. DOMAIN spaces' = DOMAIN spaces /\ spaces' = [m \in DOMAIN spaces |-> spaces'[m]]
      BY <2>2, <3>1
    <3>3. \A m \in DOMAIN spaces : m # n => spaces'[m] = spaces[m]
      BY <2>2, <3>1
    <3>4. spaces'[n] = [pids |-> spaces[n].pids \cup {p}, cid |-> spaces[n].cid, named |-> spaces[n].named]
      <4>1. PICK old : old = spaces[n]
        OBVIOUS
      <4>2. spaces'[n] = [old EXCEPT !.pids = old.pids \cup {p}]
        BY <2>2, <3>1, <4>1
      <4>3. old = [pids |-> old.pids, cid |-> old.cid, named |-> old.named]
        BY <2>2, <3>1, <4>1
      <4> QED
        BY <4>1, <4>2, <4>3
    <3>5. spaces[n].pids \subseteq spaces'[n].pids /\ p \in spaces'[n].pids
      BY <3>4
    <3> QED
      BY <2>2, <3>2, <3>3, <3>4, <3>5
  <2>3. CASE /\ Alive(p) /\ p \in Owned /\ n \notin DOMAIN spaces
             /\ spaces' = [m \in {n} \cup DOMAIN spaces |-> IF m = n THEN entry ELSE spaces[m]]
    <3>1. entry.pids = {p}
      OBVIOUS
    <3> HIDE DEF n, entry
    <3> QED
      BY <2>3, <3>1
  <2> QED
    BY <1>4, <2>1, <2>2, <2>3
<1>7. SpacesOK'
  <2> SUFFICES ASSUME NEW m \in DOMAIN spaces'
               PROVE  /\ m \in Nat
                      /\ spaces'[m] = [pids |-> spaces'[m].pids, cid |-> spaces'[m].cid, named |-> spaces'[m].named]
                      /\ spaces'[m].pids \subseteq Pids /\ spaces'[m].pids # {}
                      /\ \A q \in spaces'[m].pids : proc[q] # Unborn /\ (Alive(q) => proc[q].net = m)
    BY <1>0, <1>6 DEF SpacesOK, world, Alive
  <2>1. CASE m \in DOMAIN spaces /\ spaces'[m] = spaces[m]
    BY <2>1 DEF SpacesOK
  <2>2. CASE /\ Alive(p) /\ m = n /\ m \in DOMAIN spaces
             /\ spaces'[m] = [pids |-> spaces[m].pids \cup {p}, cid |-> spaces[m].cid, named |-> spaces[m].named]
    BY <1>3, <1>5, <2>2 DEF SpacesOK
  <2>3. CASE Alive(p) /\ m = n /\ spaces'[m] = entry
    BY <1>3, <1>5, <2>3
  <2> QED
    BY <1>6, <2>1, <2>2, <2>3
<1>8. HostListed'
  <2> SUFFICES ASSUME elevated, ~(1 \in todo')
               PROVE  hostNS \in DOMAIN spaces' /\ 1 \in spaces'[hostNS].pids
    BY <1>0 DEF HostListed, world
  <2>1. CASE p = 1
    <3>1. Alive(p) /\ p \in Owned /\ n = hostNS
      BY <1>0, <1>3, <2>1 DEF MachineOK, HostKnown, HostNet, Owned
    <3> QED
      BY <1>6, <2>1, <3>1
  <2>2. CASE p # 1
    <3>1. hostNS \in DOMAIN spaces /\ 1 \in spaces[hostNS].pids
      BY <1>0, <1>2, <2>2 DEF HostListed
    <3> QED
      BY <1>6, <3>1
  <2> QED
    BY <2>1, <2>2
<1>9. HostKnown' /\ TodoOK'
  BY <1>0, <1>1, <1>2 DEF HostKnown, TodoOK
<1>10. WantedOK' /\ HostRead' /\ OwnersOK' /\ ResultOK'
  BY <1>0 DEF WantedOK, HostRead, OwnersOK, ResultOK
<1> QED
  BY <1>1, <1>7, <1>8, <1>9, <1>10

LEMMA NameSpaceKeeps ==
  ASSUME ScanOK, NEW n \in DOMAIN spaces, NameSpace(n)
  PROVE  ScanOK'
<1> USE DEF ScanOK
<1>0. pc = "list" /\ todo = {} /\ UNCHANGED <<world, pc, todo, hostNS, wanted, inHand, owners, result>>
  BY DEF NameSpace
<1>1. MachineOK' /\ HostNet' = HostNet
  BY <1>0, WorldStays
<1>2. PICK cid : spaces' = [spaces EXCEPT ![n].named = TRUE, ![n].cid = cid]
  BY DEF NameSpace
<1>3. /\ spaces' = [m \in DOMAIN spaces |-> spaces'[m]] /\ DOMAIN spaces' = DOMAIN spaces
      /\ \A m \in DOMAIN spaces :
           /\ spaces'[m].pids = spaces[m].pids
           /\ spaces'[m] = [pids |-> spaces'[m].pids, cid |-> spaces'[m].cid, named |-> spaces'[m].named]
  <2>1. /\ spaces = [m \in DOMAIN spaces |-> spaces[m]]
        /\ \A m \in DOMAIN spaces : spaces[m] = [pids |-> spaces[m].pids, cid |-> spaces[m].cid, named |-> spaces[m].named]
    BY DEF SpacesOK
  <2>2. PICK old : old = spaces[n]
    OBVIOUS
  <2>3. spaces' = [spaces EXCEPT ![n] = [[old EXCEPT !.named = TRUE] EXCEPT !.cid = cid]]
    BY <1>2, <2>1, <2>2
  <2>4. spaces'[n] = [pids |-> old.pids, cid |-> cid, named |-> TRUE]
    <3>1. old = [pids |-> old.pids, cid |-> old.cid, named |-> old.named]
      BY <2>1, <2>2
    <3>2. spaces'[n] = [[old EXCEPT !.named = TRUE] EXCEPT !.cid = cid]
      BY <2>1, <2>3
    <3> QED
      BY <3>1, <3>2
  <2>5. DOMAIN spaces' = DOMAIN spaces /\ spaces' = [m \in DOMAIN spaces |-> spaces'[m]]
    BY <2>1, <2>3
  <2>6. \A m \in DOMAIN spaces : m # n => spaces'[m] = spaces[m]
    BY <2>1, <2>3
  <2> QED
    BY <2>1, <2>2, <2>4, <2>5, <2>6
<1>4. SpacesOK'
  BY <1>0, <1>3 DEF SpacesOK, world, Alive
<1>5. HostListed' /\ HostKnown' /\ TodoOK'
  BY <1>0, <1>1, <1>3 DEF HostListed, HostKnown, TodoOK, world
<1>6. WantedOK' /\ HostRead' /\ OwnersOK' /\ ResultOK'
  BY <1>0 DEF WantedOK, HostRead, OwnersOK, ResultOK
<1> QED
  BY <1>1, <1>4, <1>5, <1>6

LEMMA ListedKeeps ==
  ASSUME ScanOK, Listed
  PROVE  ScanOK'
<1> USE DEF ScanOK, Listed
<1>1. MachineOK' /\ HostNet' = HostNet
  BY WorldStays
<1>2. HostKnown' /\ SpacesOK' /\ TodoOK'
  BY <1>1 DEF HostKnown, SpacesOK, TodoOK, world, Alive
<1>3. HostListed' /\ HostRead'
  BY DEF HostListed, HostRead, world
<1>4. WantedOK' /\ OwnersOK' /\ ResultOK'
  BY DEF WantedOK, OwnersOK, ResultOK
<1> QED
  BY <1>1, <1>2, <1>3, <1>4

\* The tables of a namespace, read through whoever was listed in it, are its own; init is
\* asked for the host's.
LEMMA ReadTablesKeeps ==
  ASSUME SocketsAssumption, ScanOK, ReadTables
  PROVE  ScanOK'
<1> USE DEF ScanOK
<1>0. /\ pc = "tables" /\ todo # {} /\ UNCHANGED <<world, pc, hostNS, spaces, inHand, owners, result>>
      /\ todo \subseteq DOMAIN spaces /\ \A n \in DOMAIN spaces : n \in Nat
  BY DEF ReadTables, TodoOK, SpacesOK
<1>1. MachineOK' /\ HostNet' = HostNet
  BY <1>0, WorldStays
<1> DEFINE read(n) == ReadAllTables(Least(spaces[n].pids))
<1>2. PICK n : /\ n = IF hostNS \in todo THEN hostNS ELSE Least(todo)
               /\ todo' = todo \ {n}
               /\ wanted' = [i \in read(n) \cup DOMAIN wanted |-> IF i \in read(n) THEN n ELSE wanted[i]]
  BY DEF ReadTables
<1>3. n \in todo /\ n \in DOMAIN spaces
  <2>1. Least(todo) \in todo
    BY <1>0, LeastNumber
  <2> QED
    BY <1>0, <1>2, <2>1
<1> DEFINE q == Least(spaces[n].pids)
<1>4. /\ spaces[n].pids \subseteq Nat /\ q \in spaces[n].pids /\ q \in Pids
      /\ \A p \in spaces[n].pids : q <= p
  <2>1. spaces[n].pids \subseteq Pids /\ spaces[n].pids # {} /\ spaces[n].pids \subseteq Nat
    BY <1>3, SocketsAssumption DEF SpacesOK
  <2>2. q \in spaces[n].pids /\ \A p \in spaces[n].pids : q <= p
    BY <2>1, LeastNumber
  <2> QED
    BY <2>1, <2>2
<1>5. Alive(q) => proc[q].net = n
  BY <1>3, <1>4 DEF SpacesOK
<1>6. read(n) = IF Alive(q) THEN ParseNetTable(n) ELSE {}
  BY <1>5 DEF ReadAllTables
<1>7. HeldBy(proc) \subseteq Inodes
  <2>1. \A p \in Pids : Alive(p) => SetRange(proc[p].fds) \subseteq Inodes
    <3> SUFFICES ASSUME NEW p \in Pids, Alive(p) PROVE SetRange(proc[p].fds) \subseteq Inodes
      OBVIOUS
    <3>1. proc[p].fds \in Seq(Inodes)
      BY DEF MachineOK
    <3> QED
      BY <3>1, ListOf
  <2> QED
    BY <2>1, SocketsAssumption DEF HeldBy, Alive
<1>8. \A i \in read(n) : i \in Inodes /\ Served(i) /\ Sock[i].ns = n
  BY <1>6, <1>7 DEF ParseNetTable, Served
<1>9. WantedOK'
  <2>1. \A i \in DOMAIN wanted' : i \in Inodes /\ Served(i) /\ wanted'[i] = Sock[i].ns
    BY <1>2, <1>8 DEF WantedOK
  <2> QED
    BY <1>0, <2>1 DEF WantedOK, Served, Accepting
<1>10. HostRead'
  <2> SUFFICES ASSUME elevated, hostNS \notin todo', NEW i \in steady, Sock[i].ns = hostNS, Served(i)
               PROVE  i \in DOMAIN wanted'
    BY <1>0 DEF HostRead, world, Served, Accepting
  <2>1. CASE n # hostNS
    <3>1. hostNS \notin todo
      BY <1>2, <2>1
    <3> QED
      BY <1>0, <1>2, <3>1 DEF HostRead
  <2>2. CASE n = hostNS
    <3>1. 1 \in spaces[n].pids
      BY <1>0, <2>2 DEF HostListed
    <3>2. q \in Nat \ {0} /\ q <= 1
      BY <1>4, <3>1, SocketsAssumption
    <3>3. q = 1 /\ Alive(q)
      BY <3>2 DEF MachineOK
    <3>4. i \in read(n)
      BY <1>6, <2>2, <3>3 DEF ParseNetTable, Served, MachineOK
    <3> QED
      BY <1>2, <3>4
  <2> QED
    BY <2>1, <2>2
<1>11. HostKnown' /\ SpacesOK' /\ TodoOK' /\ HostListed'
  BY <1>0, <1>1, <1>2 DEF HostKnown, SpacesOK, TodoOK, HostListed, world, Alive
<1>12. OwnersOK' /\ ResultOK'
  <2>1. owners = <<>> /\ owners' = <<>>
    BY <1>0 DEF OwnersOK
  <2>2. SetRange(<<>>) = {}
    BY DEF SetRange
  <2> QED
    BY <1>0, <2>1, <2>2 DEF OwnersOK, ResultOK, IsList
<1> QED
  BY <1>1, <1>9, <1>10, <1>11, <1>12

LEMMA TablesReadKeeps ==
  ASSUME ScanOK, TablesRead
  PROVE  ScanOK'
<1> USE DEF ScanOK
<1>0. /\ pc = "tables" /\ todo = {} /\ UNCHANGED <<world, hostNS, spaces, wanted, inHand, owners>>
      /\ \/ wanted = <<>> /\ pc' = "done" /\ result' = NoResult /\ todo' = {}
         \/ pc' = "walk" /\ todo' = Live
  BY DEF TablesRead
<1>1. MachineOK' /\ HostNet' = HostNet
  BY <1>0, WorldStays
<1>2. HostKnown' /\ SpacesOK' /\ TodoOK' /\ HostListed'
  BY <1>0, <1>1 DEF HostKnown, SpacesOK, TodoOK, HostListed, world, Alive, Live
<1>3. WantedOK' /\ HostRead' /\ OwnersOK'
  BY <1>0 DEF WantedOK, HostRead, OwnersOK, Served, Accepting, world
<1>4. ResultOK'
  <2> SUFFICES ASSUME wanted = <<>>, result' = NoResult PROVE IsTold(result)'
    BY <1>0 DEF ResultOK
  <2>1. NoResult.unowned = {} /\ NoResult.services = <<>> /\ SetRange(<<>>) = {}
    BY DEF NoResult, SetRange
  <2>2. Keys(NoResult) = {}
    BY <2>1 DEF Keys
  <2>3. IsList(NoResult.services) /\ DOMAIN wanted' = {}
    BY <1>0, <2>1 DEF IsList
  <2>4. IsFiniteSet(NoResult.unowned)
    BY <2>1, FS_EmptySet
  <2> QED
    BY <2>1, <2>2, <2>3, <2>4 DEF IsTold
<1> QED
  BY <1>1, <1>2, <1>3, <1>4

LEMMA SocketInodesKeeps ==
  ASSUME SocketsAssumption, ScanOK, SocketInodes
  PROVE  ScanOK'
<1> USE DEF ScanOK
<1>0. pc = "walk" /\ todo # {} /\ UNCHANGED <<world, hostNS, spaces, wanted, owners, result>>
  BY DEF SocketInodes
<1>1. MachineOK' /\ HostNet' = HostNet
  BY <1>0, WorldStays
<1>2. PICK p : /\ p = Least(todo)
               /\ \/ todo' = todo \ {p} /\ UNCHANGED pc
                  \/ /\ Alive(p) /\ pc' = "read" /\ UNCHANGED todo
                     /\ inHand' = At(proc[p].fds, {k \in DOMAIN proc[p].fds : proc[p].fds[k] \in DOMAIN wanted})
  <2>1. PICK p, held : /\ p = Least(todo)
                       /\ held = IF Alive(p) /\ p \in Owned
                                 THEN At(proc[p].fds, {k \in DOMAIN proc[p].fds : proc[p].fds[k] \in DOMAIN wanted})
                                 ELSE <<>>
                       /\ IF held = <<>>
                          THEN todo' = todo \ {p} /\ UNCHANGED <<pc, inHand>>
                          ELSE inHand' = held /\ pc' = "read" /\ UNCHANGED todo
    BY Zenon DEF SocketInodes
  <2> QED
    BY <2>1
<1>3. p \in todo /\ p \in Pids
  <2>1. todo \subseteq Pids /\ todo \subseteq Nat
    BY <1>0, SocketsAssumption DEF TodoOK
  <2> QED
    BY <1>0, <1>2, <2>1, LeastNumber
<1>4. pc' = "read" => inHand' \in Seq(DOMAIN wanted)
  <2> SUFFICES ASSUME Alive(p),
                      inHand' = At(proc[p].fds, {k \in DOMAIN proc[p].fds : proc[p].fds[k] \in DOMAIN wanted})
               PROVE  inHand' \in Seq(DOMAIN wanted)
    BY <1>0, <1>2
  <2>1. PICK fds : fds = proc[p].fds
    OBVIOUS
  <2>2. fds \in Seq(Inodes)
    BY <1>3, <2>1 DEF MachineOK
  <2> DEFINE K == {k \in DOMAIN fds : fds[k] \in DOMAIN wanted}
  <2>3. K \subseteq DOMAIN fds /\ (\A k \in K : fds[k] \in DOMAIN wanted) /\ inHand' = At(fds, K)
    BY <2>1
  <2> HIDE DEF K
  <2>4. PICK held : held = At(fds, K)
    OBVIOUS
  <2>5. held \in Seq(Inodes) /\ \A m \in DOMAIN held : \E k \in K : held[m] = fds[k]
    BY <2>2, <2>3, <2>4, AtLists
  <2>6. Len(held) \in Nat /\ DOMAIN held = 1..Len(held) /\ held = [m \in 1..Len(held) |-> held[m]]
    BY <2>5
  <2>7. \A m \in DOMAIN held : held[m] \in DOMAIN wanted
    BY <2>3, <2>5
  <2>8. held \in Seq(DOMAIN wanted)
    BY <2>6, <2>7
  <2> QED
    BY <2>3, <2>4, <2>8
<1>5. HostKnown' /\ SpacesOK' /\ HostListed'
  BY <1>0, <1>1, <1>2 DEF HostKnown, SpacesOK, HostListed, world, Alive
<1>6. TodoOK'
  BY <1>0, <1>2, <1>3 DEF TodoOK
<1>7. WantedOK' /\ HostRead' /\ OwnersOK' /\ ResultOK'
  BY <1>0, <1>2, <1>4 DEF WantedOK, HostRead, OwnersOK, ResultOK, Served, Accepting, world
<1> QED
  BY <1>1, <1>5, <1>6, <1>7

LEMMA ReadOwnerKeeps ==
  ASSUME SocketsAssumption, ScanOK, ReadOwner
  PROVE  ScanOK'
<1> USE DEF ScanOK
<1>0. pc = "read" /\ pc' = "walk" /\ UNCHANGED <<world, hostNS, spaces, wanted, result>>
  BY DEF ReadOwner
<1>1. MachineOK' /\ HostNet' = HostNet
  BY <1>0, WorldStays
<1>2. PICK p : /\ p = Least(todo) /\ todo' = todo \ {p}
               /\ owners' = owners \o [k \in DOMAIN inHand |-> [inode |-> inHand[k], process |-> ReadProcess(p)]]
  BY DEF ReadOwner
<1>3. p \in Pids /\ todo \subseteq Pids
  <2>1. todo \subseteq Pids /\ todo # {} /\ todo \subseteq Nat
    BY <1>0, SocketsAssumption DEF TodoOK
  <2> QED
    BY <1>2, <2>1, LeastNumber
<1> DEFINE more == [k \in DOMAIN inHand |-> [inode |-> inHand[k], process |-> ReadProcess(p)]]
           IsOwner(o) == o.inode \in DOMAIN wanted /\ o.process.pid \in Pids
           M == {more[k] : k \in DOMAIN inHand}
           T == SetRange(owners) \cup M
<1>4. Len(inHand) \in Nat /\ DOMAIN inHand = 1..Len(inHand) /\ \A k \in DOMAIN inHand : inHand[k] \in DOMAIN wanted
  <2>1. inHand \in Seq(DOMAIN wanted)
    BY <1>0 DEF OwnersOK
  <2> QED
    BY <2>1, Entries
<1>5. ReadProcess(p).pid = p
  BY DEF ReadProcess
<1>6. \A o \in M : IsOwner(o)
  BY <1>3, <1>4, <1>5
<1>7. \A o \in SetRange(owners) : IsOwner(o)
  BY DEF OwnersOK
<1>8. owners \in Seq(T) /\ more \in Seq(T)
  <2>1. owners \in Seq(SetRange(owners))
    BY DEF OwnersOK, IsList
  <2>2. more \in Seq(M)
    <3>1. \A k \in 1..Len(inHand) : more[k] \in M
      BY <1>4
    <3>2. more = [k \in 1..Len(inHand) |-> more[k]]
      BY <1>4
    <3> HIDE DEF more, M
    <3> QED
      BY <1>4, <3>1, <3>2
  <2> HIDE DEF M, more
  <2> QED
    BY <2>1, <2>2
<1> HIDE DEF more, M, IsOwner
<1>9. \A o \in T : IsOwner(o)
  BY <1>6, <1>7
<1> HIDE DEF T
<1>10. owners' \in Seq(T)
  <2>1. owners \o more \in Seq(T)
    BY <1>8, ConcatProperties
  <2> QED
    BY <1>2, <2>1 DEF more
<1>11. IsList(owners') /\ SetRange(owners') \subseteq T
  BY <1>10, ListOf
<1>12. OwnersOK'
  <2>1. \A o \in SetRange(owners') : o.inode \in DOMAIN wanted' /\ o.process.pid \in Pids
    BY <1>0, <1>9, <1>11 DEF IsOwner
  <2>2. IsList(owners)' /\ SetRange(owners)' = SetRange(owners')
    BY <1>11 DEF IsList, SetRange
  <2> QED
    BY <1>0, <2>1, <2>2 DEF OwnersOK
<1>13. HostKnown' /\ SpacesOK' /\ HostListed'
  BY <1>0, <1>1 DEF HostKnown, SpacesOK, HostListed, world, Alive
<1>14. TodoOK'
  BY <1>0, <1>2, <1>3 DEF TodoOK
<1>15. WantedOK' /\ HostRead' /\ ResultOK'
  BY <1>0 DEF WantedOK, HostRead, ResultOK, Served, Accepting, world
<1> QED
  BY <1>1, <1>12, <1>13, <1>14, <1>15

LEMMA CancelledKeeps ==
  ASSUME ScanOK, Cancelled
  PROVE  ScanOK'
<1> USE DEF ScanOK, Cancelled
<1>1. MachineOK' /\ HostNet' = HostNet
  BY WorldStays
<1>2. HostKnown' /\ SpacesOK' /\ TodoOK' /\ HostListed'
  BY <1>1 DEF HostKnown, SpacesOK, TodoOK, HostListed, world, Alive
<1>3. WantedOK' /\ HostRead' /\ OwnersOK' /\ ResultOK'
  BY DEF WantedOK, HostRead, OwnersOK, ResultOK, Served, Accepting, world
<1> QED
  BY <1>1, <1>2, <1>3

LEMMA CollectedKeeps ==
  ASSUME SocketsAssumption, SockAssumption, ScanOK, Collected
  PROVE  ScanOK'
<1> USE DEF ScanOK
<1>0. pc = "walk" /\ pc' = "done" /\ UNCHANGED <<world, todo, hostNS, spaces, wanted, inHand, owners>>
  BY DEF Collected
<1>1. MachineOK' /\ HostNet' = HostNet
  BY <1>0, WorldStays
<1>2. /\ result'.services = SplitHost(GroupByProcess(owners))
      /\ result'.unowned = {Endpoint(i) : i \in {j \in Unowned : wanted[j] = hostNS}}
  BY DEF Collected
<1>3. IsTold(result')
  BY <1>2, CollectedTells
<1>4. ResultOK'
  BY <1>0, <1>3 DEF ResultOK, IsTold, Endpoint, Straddling
<1>5. HostKnown' /\ SpacesOK' /\ TodoOK' /\ HostListed'
  BY <1>0, <1>1 DEF HostKnown, SpacesOK, TodoOK, HostListed, world, Alive
<1>6. WantedOK' /\ HostRead' /\ OwnersOK'
  BY <1>0 DEF WantedOK, HostRead, OwnersOK, Served, Accepting, world
<1> QED
  BY <1>1, <1>4, <1>5, <1>6

LEMMA CollectKeeps ==
  ASSUME SocketsAssumption, SockAssumption, ScanOK, Collect
  PROVE  ScanOK'
BY AnchorKeeps, ListOneKeeps, NameSpaceKeeps, ListedKeeps, ReadTablesKeeps, TablesReadKeeps,
   SocketInodesKeeps, ReadOwnerKeeps, CancelledKeeps, CollectedKeeps DEF Collect

\* The report is made of a collection that is over and no longer changes.
LEMMA ReportKeeps ==
  ASSUME ScanOK, UNCHANGED socketVars
  PROVE  ScanOK'
<1> USE DEF ScanOK, socketVars
<1>1. MachineOK' /\ HostNet' = HostNet
  BY WorldStays DEF world
<1>2. TodoOK' /\ HostListed' /\ WantedOK' /\ OwnersOK' /\ ResultOK'
  BY ScanUnchanged DEF scanVars
<1>3. HostKnown' /\ SpacesOK' /\ HostRead'
  BY <1>1 DEF HostKnown, SpacesOK, HostRead, Alive, Served, Accepting
<1> QED
  BY <1>1, <1>2, <1>3

LEMMA ExposeRows ==
  ASSUME SocketsAssumption, ScanOK, pc = "done", ExposeAndLift
  PROVE  RowKeys' = Keys(result')
<1>1. IsTold(result)
  BY DEF ScanOK, ResultOK
<1>2. result' = result /\ rows' = Expose(result, <<>>, attributed, described)
  BY DEF ExposeAndLift, socketVars
<1> DEFINE f == [i \in Inodes |-> Endpoint(i)]
<1>3. \A e \in result.unowned : e.inode \in Nat /\ e.port \in Nat /\ e = f[e.inode]
  BY <1>1, SocketsAssumption DEF IsTold
<1>4. /\ IsList(result.services) /\ IsFiniteSet(result.unowned)
      /\ \A s \in SetRange(result.services) : IsList(s.endpoints)
  BY <1>1 DEF IsTold
<1> HIDE DEF f
<1>5. KeysAt(Expose(result, <<>>, attributed, described)) = Keys(result)
  BY <1>3, <1>4, RowsAreTold
<1>6. RowKeys' = KeysAt(rows')
  BY DEF RowKeys, KeysAt
<1> QED
  BY <1>2, <1>5, <1>6

LEMMA StepOK ==
  ASSUME SocketsAssumption, SockAssumption, Reuse = FALSE, ListenInv, [Next]_vars
  PROVE  ListenInv'
<1> USE DEF ListenInv
<1>0. ScanOK
  BY DEF ScanOK
<1>1. CASE UNCHANGED socketVars /\ stage' = stage /\ UNCHANGED <<rows, cfg>>
  <2>1. ScanOK'
    BY <1>0, <1>1, ReportKeeps
  <2>2. RowsOK'
    BY <1>1 DEF RowsOK, Done, RowKeys, socketVars
  <2> QED
    BY <2>1, <2>2 DEF ScanOK
<1>2. CASE stage # "end" /\ Machine /\ UNCHANGED reportVars
  <2>1. ScanOK' /\ pc' = pc
    BY <1>0, <1>2, MachineKeeps DEF ScanOK
  <2>2. RowsOK'
    BY <1>2, <2>1 DEF RowsOK, Done, reportVars
  <2> QED
    BY <2>1, <2>2 DEF ScanOK
<1>3. CASE Listen
  <2>1. ScanOK'
    BY <1>0, <1>3, CollectKeeps DEF Listen
  <2>2. RowsOK'
    BY <1>3 DEF Listen, RowsOK, Done, reportVars
  <2> QED
    BY <2>1, <2>2 DEF ScanOK
<1>4. CASE Refused \/ NoSnapshot
  <2>1. ScanOK'
    BY <1>0, <1>4, ReportKeeps DEF Refused, NoSnapshot
  <2>2. RowsOK'
    BY <1>4 DEF RowsOK, Done, Refused, NoSnapshot, socketVars
  <2> QED
    BY <2>1, <2>2 DEF ScanOK
<1>5. CASE AttributeServices
  <2>1. ScanOK'
    BY <1>0, <1>5, ReportKeeps DEF AttributeServices
  <2>2. RowsOK'
    BY <1>5 DEF RowsOK, Done, AttributeServices, socketVars
  <2> QED
    BY <2>1, <2>2 DEF ScanOK
<1>6. CASE EngineSilent \/ EngineLists \/ EngineDone
  <2>1. ScanOK'
    BY <1>0, <1>6, ReportKeeps DEF EngineSilent, EngineLists, EngineDone
  <2>2. RowsOK'
    BY <1>6 DEF RowsOK, Done, EngineSilent, EngineLists, EngineDone, socketVars
  <2> QED
    BY <2>1, <2>2 DEF ScanOK
<1>7. CASE ExposeAndLift
  <2>1. ScanOK'
    BY <1>0, <1>7, ReportKeeps DEF ExposeAndLift
  <2>2. pc = "done" /\ stage' = "end"
    BY <1>7 DEF RowsOK, ExposeAndLift
  <2>3. RowKeys' = Keys(result')
    BY <1>0, <1>7, <2>2, ExposeRows
  <2>4. RowsOK'
    BY <2>2, <2>3 DEF RowsOK
  <2> QED
    BY <2>1, <2>4 DEF ScanOK
<1>8. CASE \E c \in result.containers : Enrich(c)
  <2>1. UNCHANGED socketVars /\ stage' = stage /\ UNCHANGED <<rows, cfg>>
    BY <1>8 DEF Enrich
  <2> QED
    BY <2>1, <1>1
<1>9. CASE \E id \in engineTodo : RuntimeKnown(id) \/ RuntimeOnly(id)
  <2>1. UNCHANGED socketVars /\ stage' = stage /\ UNCHANGED <<rows, cfg>>
    BY <1>9 DEF RuntimeKnown, RuntimeOnly
  <2> QED
    BY <2>1, <1>1
<1>10. CASE UNCHANGED vars
  <2>1. UNCHANGED socketVars /\ stage' = stage /\ UNCHANGED <<rows, cfg>>
    BY <1>10 DEF vars, reportVars
  <2> QED
    BY <2>1, <1>1
<1>11. CASE Stopped
  BY <1>10, <1>11 DEF Stopped
<1> QED
  BY <1>2, <1>3, <1>4, <1>5, <1>6, <1>7, <1>8, <1>9, <1>10, <1>11 DEF Next

LEMMA ListenInvariant ==
  ASSUME Reuse = FALSE
  PROVE  Spec => []ListenInv
<1>1. Init => ListenInv
  BY InitOK, SocketsAssumption, BootsAssumption
<1>2. ListenInv /\ [Next]_vars => ListenInv'
  BY StepOK, SocketsAssumption, SockAssumption
<1> QED
  BY <1>1, <1>2, PTL DEF Spec

-----------------------------------------------------------------------------
(* The theorems.                                                           *)

\* To a privileged scan, a port of the host that stays open while the scan looks has a
\* row in the report, whatever else forks and exits between two reads (expose.go:55).
THEOREM OpenPortsHaveRowsAlways ==
  ASSUME Reuse = FALSE
  PROVE  Spec => []OpenPortsHaveRows
<1>1. ListenInv => OpenPortsHaveRows
  <2> SUFFICES ASSUME ListenInv, Done, elevated, NEW i \in steady,
                      Sock[i].ns = HostNet, Served(i), ~Straddling(i)
               PROVE  KeyOf(Sock[i]) \in RowKeys
    BY DEF OpenPortsHaveRows, HasRow
  <2>1. pc = "done" /\ hostNS = HostNet
    BY DEF ListenInv, HostKnown, Done
  <2>2. i \in DOMAIN wanted
    BY <2>1 DEF ListenInv, HostRead
  <2>3. KeyOf(Sock[i]) \in Keys(result)
    BY <2>1, <2>2 DEF ListenInv, ResultOK, IsTold
  <2> QED
    BY <2>3 DEF ListenInv, RowsOK
<1> QED
  BY <1>1, ListenInvariant, PTL

\* Every row of the report is a serving socket of the host, or of a process that holds
\* sockets of two namespaces: what listens inside a container stays off the host's list
\* (collect_linux.go:117), privileged or not.
THEOREM ContainersStayOffHostAlways ==
  ASSUME Reuse = FALSE
  PROVE  Spec => []ContainersStayOffHost
<1>1. ListenInv => ContainersStayOffHost
  <2> SUFFICES ASSUME ListenInv, Done, NEW r \in rows
               PROVE  \E i \in Inodes : /\ Served(i) /\ KeyOf(Sock[i]) = r.key
                                        /\ Sock[i].ns = HostNet \/ Straddling(i)
    BY DEF ContainersStayOffHost
  <2>1. pc = "done" /\ hostNS = HostNet
    BY DEF ListenInv, HostKnown, Done
  <2>2. r.key \in Keys(result)
    BY DEF ListenInv, RowsOK, RowKeys
  <2>3. PICK i \in DOMAIN wanted : KeyOf(Sock[i]) = r.key /\ (Sock[i].ns = hostNS \/ Straddling(i))
    BY <2>1, <2>2 DEF ListenInv, ResultOK, IsTold
  <2>4. i \in Inodes /\ Served(i)
    BY <2>3 DEF ListenInv, WantedOK
  <2> QED
    BY <2>1, <2>3, <2>4
<1> QED
  BY <1>1, ListenInvariant, PTL

-----------------------------------------------------------------------------
(* Whose files are read for a container.                                   *)

Holds(p, i) == i \in SetRange(proc[p].fds)

\* Whoever holds a socket of namespace n has the files of container c.
RootedIn(n, c) ==
  \A p \in Pids : Alive(p) => \A i \in SetRange(proc[p].fds) :
    Sock[i].ns = n => proc[p].fs = Engine[c].fs

\* The host's namespace is put down as nobody's, any other as that of a container whose
\* files its processes have.
CidOK ==
  \A n \in DOMAIN spaces :
    /\ n = hostNS => spaces[n].named
    /\ spaces[n].named \in BOOLEAN
    /\ spaces[n].cid # NoContainer => n # hostNS /\ RootedIn(n, spaces[n].cid)

WantedListed == \A i \in DOMAIN wanted : wanted[i] \in DOMAIN spaces

\* A process whose descriptors were read still has them, or is gone.
HeldStill(p, i) == proc[p] # Unborn /\ (Alive(p) => Holds(p, i))
HandOK == pc = "read" => \A k \in DOMAIN inHand : HeldStill(Least(todo), inHand[k])

IsProcess(x) == x = [pid |-> x.pid, exe |-> x.exe, argv |-> x.argv,
                     container |-> x.container, isolated |-> x.isolated]
HeldOK == \A o \in SetRange(owners) :
            IsProcess(o.process) /\ HeldStill(o.process.pid, o.inode)

\* The first process of a container is one that has its files, or is gone.
HasFiles(p, c) == p \in Pids /\ proc[p] # Unborn /\ (Alive(p) => proc[p].fs = Engine[c].fs)
RootsOK == pc = "done" => \A c \in result.containers :
                            HasFiles(c.rootPid, c.id) /\ IsList(c.services)

OwnedBy(c, exe) ==
  LET fs == Filesystems[Engine[c].fs]
      release == ReadRelease(fs)
  IN  ProbeDpkg(fs, release, exe) \cup ProbeApk(fs, release, exe) \cup ProbeRPM(fs, release, exe)

IsDescribed(c) ==
  /\ c = [id |-> c.id, name |-> c.name, runtime |-> c.runtime, image |-> c.image,
          release |-> c.release, state |-> c.state, declared |-> c.declared,
          services |-> c.services, links |-> c.links]
  /\ \A k \in DOMAIN c.services : c.services[k].components \subseteq OwnedBy(c.id, c.services[k].exe)

DescribedOK == \A c \in described : IsDescribed(c)

RootInv == /\ OneRoot(proc, HostNet) /\ CidOK /\ WantedListed /\ HandOK /\ HeldOK
           /\ RootsOK /\ DescribedOK

\* A service is filed under its process, and under the namespace of one of its sockets.
LEMMA FirstOfService ==
  ASSUME SocketsAssumption, OwnersOK, HeldOK, NEW p \in Holding
  PROVE  \E o \in HoldersOf(p) : /\ ServiceOf(owners, p).netns = wanted[o.inode]
                                 /\ ServiceOf(owners, p).process.pid = p
<1> DEFINE mine == {k \in DOMAIN owners : owners[k].process.pid = p}
           first == owners[Least(mine)]
<1>1. Len(owners) \in Nat /\ DOMAIN owners = 1..Len(owners)
  BY Entries DEF OwnersOK, IsList
<1>2. mine \subseteq Nat /\ mine # {}
  BY <1>1 DEF Holding, SetRange
<1>3. Least(mine) \in mine
  BY <1>2, LeastNumber
<1>4. /\ ServiceOf(owners, p).netns = wanted[first.inode]
      /\ \/ ServiceOf(owners, p).process = first.process
         \/ \E id : ServiceOf(owners, p).process = [first.process EXCEPT !.container = id]
  BY DEF ServiceOf
<1>5. \A k \in mine : owners[k].process.pid = p /\ owners[k] \in SetRange(owners)
  BY DEF SetRange
<1> HIDE DEF mine
<1>6. first.process.pid = p /\ first \in SetRange(owners)
  BY <1>3, <1>5
<1> HIDE DEF first
<1>7. first \in HoldersOf(p) /\ IsProcess(first.process)
  BY <1>6 DEF HoldersOf, HeldOK
<1>8. ServiceOf(owners, p).process.pid = p
  <2>1. PICK x : x = first.process
    OBVIOUS
  <2>2. x.pid = p /\ IsProcess(x)
    BY <1>6, <1>7, <2>1
  <2>3. CASE ServiceOf(owners, p).process = x
    BY <2>2, <2>3
  <2>4. CASE \E id : ServiceOf(owners, p).process = [x EXCEPT !.container = id]
    BY <2>2, <2>4 DEF IsProcess
  <2> QED
    BY <1>4, <2>1, <2>3, <2>4
<1> QED
  BY <1>4, <1>7, <1>8

\* Containers are what a scan has told of, each by a process of its own.
LEMMA SplitRoots ==
  ASSUME SocketsAssumption, WantedOK, OwnersOK, HeldOK, CidOK, WantedListed,
         NEW c \in SplitContainers(GroupByProcess(owners))
  PROVE  HasFiles(c.rootPid, c.id) /\ IsList(c.services)
<1> DEFINE services == GroupByProcess(owners)
           K == {k \in DOMAIN services : ~services[k].host /\ spaces[services[k].netns].cid = c.id}
           inside == At(services, K)
<1>1. IsList(services) /\ SetRange(services) = {ServiceOf(owners, p) : p \in Holding}
  BY Grouped
<1>2. /\ c.id \in Inhabited(services) /\ c.rootPid = Inside(services, c.id)[1].process.pid
      /\ c.services = Inside(services, c.id)
  <2>1. PICK id \in Inhabited(services) :
          c = [id |-> id, rootPid |-> Inside(services, id)[1].process.pid,
               addresses |-> LocalAddresses(Inside(services, id)[1].process.pid),
               services |-> Inside(services, id)]
    BY DEF SplitContainers
  <2> HIDE DEF services
  <2> QED
    BY <2>1
<1>3. Inside(services, c.id) = inside
  BY Zenon DEF Inside
<1> HIDE DEF services
<1>4. c.id # NoContainer /\ \E k \in DOMAIN services : k \in K
  BY <1>2 DEF Inhabited, SetRange
<1>5. K \subseteq DOMAIN services /\ services \in Seq(SetRange(services))
  BY <1>1 DEF IsList
<1>6. \A k \in K : ~services[k].host /\ spaces[services[k].netns].cid = c.id /\ services[k] \in SetRange(services)
  BY DEF SetRange
<1> HIDE DEF K
<1>7. /\ inside \in Seq(SetRange(services))
      /\ \A k \in K : \E n \in DOMAIN inside : inside[n] = services[k]
      /\ \A n \in DOMAIN inside : \E k \in K : inside[n] = services[k]
  BY <1>5, AtLists
<1> HIDE DEF inside
<1>8. 1 \in DOMAIN inside
  <2>1. DOMAIN inside = 1..Len(inside) /\ Len(inside) \in Nat /\ DOMAIN inside # {}
    BY <1>4, <1>7, Entries
  <2> QED
    BY <2>1
<1>9. PICK k \in K : inside[1] = services[k]
  BY <1>7, <1>8
<1>10. PICK p \in Holding : services[k] = ServiceOf(owners, p)
  BY <1>1, <1>6
<1>11. PICK o \in HoldersOf(p) :
         /\ ServiceOf(owners, p).netns = wanted[o.inode]
         /\ ServiceOf(owners, p).process.pid = p
  BY FirstOfService
<1>12. o.inode \in DOMAIN wanted /\ o.process.pid = p /\ o \in SetRange(owners) /\ p \in Pids
  BY DEF HoldersOf, OwnersOK
<1>13. wanted[o.inode] = Sock[o.inode].ns /\ wanted[o.inode] \in DOMAIN spaces
  BY <1>12 DEF WantedOK, WantedListed
<1>14. spaces[Sock[o.inode].ns].cid = c.id
  BY <1>6, <1>10, <1>11, <1>13
<1>15. RootedIn(Sock[o.inode].ns, c.id)
  BY <1>4, <1>13, <1>14 DEF CidOK
<1>16. HeldStill(p, o.inode)
  BY <1>12 DEF HeldOK
<1>17. c.rootPid = p
  BY <1>2, <1>3, <1>9, <1>10, <1>11
<1>18. IsList(c.services)
  BY <1>2, <1>3, <1>7, ListOf
<1> QED
  BY <1>12, <1>15, <1>16, <1>17, <1>18 DEF HasFiles, HeldStill, Holds, RootedIn

\* What is alive is what was alive, and what was not unborn is as it was or gone.
LEMMA MachineMoves ==
  ASSUME SocketsAssumption, Reuse = FALSE, MachineOK, Machine
  PROVE  /\ UNCHANGED scanVars /\ HostNet' = HostNet
         /\ \A q \in Pids : proc[q] # Unborn => proc'[q] \in {proc[q], Gone}
         /\ \A q \in Pids : Alive(q)' => \E p \in Pids : Alive(p) /\ proc'[q] = proc[p]
<1>1. PICK p \in Pids : Exit(p) \/ \E c \in Pids : Fork(p, c)
  BY DEF Machine
<1>2. UNCHANGED scanVars /\ UNCHANGED elevated
  BY <1>1 DEF Exit, Fork, Change
<1>3. PICK c \in Pids : /\ c \notin {1, Self}
                        /\ \/ proc' = [proc EXCEPT ![c] = Gone]
                           \/ proc[c] = Unborn /\ Alive(p) /\ proc' = [proc EXCEPT ![c] = proc[p]]
  <2>1. CASE Exit(p)
    BY <2>1 DEF Exit, Change
  <2>2. CASE \E c \in Pids : Fork(p, c)
    <3>1. PICK c \in Pids : Fork(p, c)
      BY <2>2
    <3>2. proc[c] = Unborn /\ Alive(p) /\ proc' = [proc EXCEPT ![c] = proc[p]]
      BY <3>1 DEF Fork, Change
    <3>3. c \notin {1, Self}
      BY <3>2 DEF MachineOK, Alive
    <3> QED
      BY <3>2, <3>3
  <2> QED
    BY <1>1, <2>1, <2>2
<1>4. /\ \A q \in Pids : q # c => proc'[q] = proc[q]
      /\ proc'[c] = Gone \/ (proc[c] = Unborn /\ Alive(p) /\ proc'[c] = proc[p])
  BY <1>3 DEF MachineOK
<1>5. HostNet' = HostNet
  BY <1>2, <1>3, <1>4, SocketsAssumption DEF HostNet, Owned
<1>6. \A q \in Pids : proc[q] # Unborn => proc'[q] \in {proc[q], Gone}
  BY <1>4
<1>7. \A q \in Pids : Alive(q)' => \E r \in Pids : Alive(r) /\ proc'[q] = proc[r]
  BY <1>4 DEF Alive
<1> QED
  BY <1>2, <1>5, <1>6, <1>7

\* The machine moves on, and nobody comes to hold what its parent did not.
LEMMA MachineRoots ==
  ASSUME SocketsAssumption, Reuse = FALSE, MachineOK, OwnersOK, TodoOK, RootInv, Machine,
         UNCHANGED described
  PROVE  RootInv'
<1> USE DEF RootInv
<1>1. /\ UNCHANGED scanVars /\ HostNet' = HostNet
      /\ \A q \in Pids : proc[q] # Unborn => proc'[q] \in {proc[q], Gone}
      /\ \A q \in Pids : Alive(q)' => \E p \in Pids : Alive(p) /\ proc'[q] = proc[p]
  BY MachineMoves
<1>2. OneRoot(proc, HostNet)'
  BY <1>1 DEF OneRoot, Alive
<1>3. \A n, c : RootedIn(n, c) => RootedIn(n, c)'
  BY <1>1 DEF RootedIn
<1>4. CidOK' /\ WantedListed' /\ DescribedOK'
  BY <1>1, <1>3 DEF CidOK, WantedListed, DescribedOK, scanVars
<1>0. Gone # Unborn
  BY DEF Gone, Unborn
<1>5. \A p \in Pids : \A i : HeldStill(p, i) => HeldStill(p, i)'
  BY <1>0, <1>1 DEF HeldStill, Holds, Alive
<1>6. HeldOK'
  BY <1>1, <1>5 DEF HeldOK, OwnersOK, scanVars
<1>7. HandOK'
  <2>1. pc = "read" => Least(todo) \in Pids
    <3>1. pc = "read" => todo \subseteq Pids /\ todo # {} /\ todo \subseteq Nat
      BY SocketsAssumption DEF TodoOK
    <3> QED
      BY <3>1, LeastNumber
  <2> QED
    BY <1>1, <1>5, <2>1 DEF HandOK, scanVars
<1>8. RootsOK'
  <2>1. \A p, c : HasFiles(p, c) => HasFiles(p, c)'
    BY <1>0, <1>1 DEF HasFiles, Alive
  <2> QED
    BY <1>1, <2>1 DEF RootsOK, scanVars
<1> QED
  BY <1>2, <1>4, <1>6, <1>7, <1>8

\* A step of the scan leaves the holders as they are.
LEMMA WorldRoots ==
  ASSUME MachineOK, OneRoot(proc, HostNet), UNCHANGED world
  PROVE  /\ OneRoot(proc, HostNet)'
         /\ \A n, c : RootedIn(n, c)' <=> RootedIn(n, c)
         /\ \A p, i : HeldStill(p, i)' <=> HeldStill(p, i)
         /\ \A p, c : HasFiles(p, c)' <=> HasFiles(p, c)
<1>1. HostNet' = HostNet /\ proc' = proc
  BY WorldStays DEF world
<1>2. OneRoot(proc, HostNet)'
  BY <1>1 DEF OneRoot
<1>3. \A n, c : RootedIn(n, c)' <=> RootedIn(n, c)
  BY <1>1 DEF RootedIn, Alive
<1>4. \A p, i : HeldStill(p, i)' <=> HeldStill(p, i)
  BY <1>1 DEF HeldStill, Holds, Alive
<1>5. \A p, c : HasFiles(p, c)' <=> HasFiles(p, c)
  BY <1>1 DEF HasFiles, Alive
<1> QED
  BY <1>2, <1>3, <1>4, <1>5

LEMMA ListRoots ==
  ASSUME SocketsAssumption, ScanOK, RootInv, UNCHANGED described,
         Anchor \/ ListOne \/ Listed \/ TablesRead \/ Cancelled
  PROVE  RootInv'
<1> USE DEF RootInv, ScanOK
<1>1. UNCHANGED world /\ UNCHANGED owners /\ pc' # "read"
  BY DEF Anchor, ListOne, Listed, TablesRead, Cancelled
<1>2. /\ OneRoot(proc, HostNet)'
      /\ \A n, c : RootedIn(n, c)' <=> RootedIn(n, c)
      /\ \A p, i : HeldStill(p, i)' <=> HeldStill(p, i)
      /\ \A p, c : HasFiles(p, c)' <=> HasFiles(p, c)
  BY <1>1, WorldRoots
<1>3. HeldOK' /\ HandOK' /\ DescribedOK'
  BY <1>1, <1>2 DEF HeldOK, HandOK, DescribedOK
<1>4. CidOK' /\ WantedListed'
  <2>1. CASE Anchor
    BY <1>2, <2>1 DEF Anchor, CidOK, WantedListed, SpacesOK, WantedOK
  <2>2. CASE ListOne
    <3>1. pc = "list" /\ UNCHANGED <<hostNS, wanted>>
      BY <2>2 DEF ListOne
    <3> DEFINE p == Least(todo)
               n == proc[p].net
    <3>0. spaces' = IF ~Alive(p) \/ p \notin Owned THEN spaces
                    ELSE IF n \in DOMAIN spaces
                         THEN [spaces EXCEPT ![n].pids = @ \cup {p}]
                    ELSE [m \in {n} \cup DOMAIN spaces |->
                            IF m = n THEN [pids |-> {p}, cid |-> NoContainer, named |-> n = hostNS]
                            ELSE spaces[m]]
      BY <2>2, Zenon DEF ListOne
    <3> HIDE DEF p, n
    <3>2. \/ spaces' = spaces
          \/ n \in DOMAIN spaces /\ spaces' = [spaces EXCEPT ![n].pids = @ \cup {p}]
          \/ spaces' = [m \in {n} \cup DOMAIN spaces |->
                          IF m = n THEN [pids |-> {p}, cid |-> NoContainer, named |-> n = hostNS]
                          ELSE spaces[m]]
      BY <3>0
    <3>3. \A m \in DOMAIN spaces' :
            \/ m \in DOMAIN spaces /\ spaces'[m].cid = spaces[m].cid /\ spaces'[m].named = spaces[m].named
            \/ spaces'[m].cid = NoContainer /\ spaces'[m].named = (m = hostNS)
      <4>1. CASE spaces' = spaces
        BY <4>1
      <4>2. CASE n \in DOMAIN spaces /\ spaces' = [spaces EXCEPT ![n].pids = @ \cup {p}]
        <5>1. /\ spaces = [m \in DOMAIN spaces |-> spaces[m]]
              /\ \A m \in DOMAIN spaces : spaces[m] = [pids |-> spaces[m].pids, cid |-> spaces[m].cid, named |-> spaces[m].named]
          BY DEF SpacesOK
        <5>2. DOMAIN spaces' = DOMAIN spaces /\ \A m \in DOMAIN spaces : m # n => spaces'[m] = spaces[m]
          BY <4>2, <5>1
        <5>3. spaces'[n].cid = spaces[n].cid /\ spaces'[n].named = spaces[n].named
          <6>1. PICK old : old = spaces[n]
            OBVIOUS
          <6>2. spaces'[n] = [old EXCEPT !.pids = old.pids \cup {p}]
            BY <4>2, <5>1, <6>1
          <6>3. old = [pids |-> old.pids, cid |-> old.cid, named |-> old.named]
            BY <4>2, <5>1, <6>1
          <6> QED
            BY <6>1, <6>2, <6>3
        <5> QED
          BY <5>2, <5>3
      <4>3. CASE spaces' = [m \in {n} \cup DOMAIN spaces |->
                              IF m = n THEN [pids |-> {p}, cid |-> NoContainer, named |-> n = hostNS]
                              ELSE spaces[m]]
        BY <4>3
      <4> QED
        BY <3>2, <4>1, <4>2, <4>3
    <3>4. CidOK'
      BY <1>2, <3>1, <3>3 DEF CidOK
    <3>5. WantedListed'
      BY <3>1 DEF WantedListed, WantedOK
    <3> QED
      BY <3>4, <3>5
  <2>3. CASE Listed \/ TablesRead \/ Cancelled
    BY <1>2, <2>3 DEF Listed, TablesRead, Cancelled, CidOK, WantedListed
  <2> QED
    BY <2>1, <2>2, <2>3
<1>5. RootsOK'
  <2>1. pc' = "done" => result' = NoResult
    BY DEF Anchor, ListOne, Listed, TablesRead, Cancelled
  <2>2. NoResult.containers = {}
    BY DEF NoResult
  <2> QED
    BY <2>1, <2>2 DEF RootsOK
<1> QED
  BY <1>2, <1>3, <1>4, <1>5

\* The container of a namespace is told by a process in it.
LEMMA NameRoots ==
  ASSUME SocketsAssumption, ScanOK, RootInv, UNCHANGED described,
         NEW n \in DOMAIN spaces, NameSpace(n)
  PROVE  RootInv'
<1> USE DEF RootInv, ScanOK
<1>1. /\ pc = "list" /\ ~spaces[n].named
      /\ UNCHANGED <<world, pc, hostNS, wanted, inHand, owners, result>>
  BY DEF NameSpace
<1>2. /\ OneRoot(proc, HostNet)'
      /\ \A m, c : RootedIn(m, c)' <=> RootedIn(m, c)
      /\ \A p, i : HeldStill(p, i)' <=> HeldStill(p, i)
      /\ \A p, c : HasFiles(p, c)' <=> HasFiles(p, c)
  BY <1>1, WorldRoots
<1>3. HeldOK' /\ HandOK' /\ RootsOK' /\ DescribedOK'
  BY <1>1, <1>2 DEF HeldOK, HandOK, RootsOK, DescribedOK
<1> DEFINE with == {p \in spaces[n].pids : UnitFromCgroup(p) # NoContainer}
<1>4. PICK cid : /\ cid = IF with = {} THEN NoContainer ELSE UnitFromCgroup(Least(with))
                 /\ spaces' = [spaces EXCEPT ![n].named = TRUE, ![n].cid = cid]
  BY DEF NameSpace
<1>5. n # hostNS /\ hostNS = HostNet
  BY <1>1 DEF CidOK, HostKnown
<1>6. cid # NoContainer => RootedIn(n, cid)
  <2> SUFFICES ASSUME cid # NoContainer PROVE RootedIn(n, cid)
    OBVIOUS
  <2>1. with # {} /\ with \subseteq Nat /\ cid = UnitFromCgroup(Least(with))
    BY <1>4, SocketsAssumption DEF SpacesOK
  <2>2. PICK q : q \in with /\ cid = UnitFromCgroup(q)
    BY <2>1, LeastNumber
  <2>3. q \in Pids /\ Alive(q) /\ proc[q].net = n /\ cid = CgroupID(proc[q].cgroup)
    BY <2>2 DEF SpacesOK, UnitFromCgroup
  <2> QED
    BY <1>5, <2>3 DEF OneRoot, RootedIn, Alive
<1>7. /\ DOMAIN spaces' = DOMAIN spaces
      /\ \A m \in DOMAIN spaces : m # n => spaces'[m] = spaces[m]
      /\ spaces'[n].cid = cid /\ spaces'[n].named = TRUE
  <2>1. /\ spaces = [m \in DOMAIN spaces |-> spaces[m]]
        /\ \A m \in DOMAIN spaces : spaces[m] = [pids |-> spaces[m].pids, cid |-> spaces[m].cid, named |-> spaces[m].named]
    BY DEF SpacesOK
  <2>2. PICK old : old = spaces[n]
    OBVIOUS
  <2>3. spaces' = [spaces EXCEPT ![n] = [[old EXCEPT !.named = TRUE] EXCEPT !.cid = cid]]
    BY <1>4, <2>1, <2>2
  <2>4. spaces'[n] = [pids |-> old.pids, cid |-> cid, named |-> TRUE]
    <3>1. old = [pids |-> old.pids, cid |-> old.cid, named |-> old.named]
      BY <2>1, <2>2
    <3>2. spaces'[n] = [[old EXCEPT !.named = TRUE] EXCEPT !.cid = cid]
      BY <2>1, <2>3
    <3> QED
      BY <3>1, <3>2
  <2> QED
    BY <2>1, <2>3, <2>4
<1>8. CidOK'
  BY <1>1, <1>2, <1>5, <1>6, <1>7 DEF CidOK
<1>9. WantedListed'
  BY <1>1, <1>7 DEF WantedListed
<1> QED
  BY <1>2, <1>3, <1>8, <1>9

LEMMA TablesRoots ==
  ASSUME SocketsAssumption, ScanOK, RootInv, UNCHANGED described, ReadTables
  PROVE  RootInv'
<1> USE DEF RootInv, ScanOK
<1>1. pc = "tables" /\ todo # {} /\ UNCHANGED <<world, pc, hostNS, spaces, inHand, owners, result>>
  BY DEF ReadTables
<1>2. /\ OneRoot(proc, HostNet)'
      /\ \A n, c : RootedIn(n, c)' <=> RootedIn(n, c)
      /\ \A p, i : HeldStill(p, i)' <=> HeldStill(p, i)
      /\ \A p, c : HasFiles(p, c)' <=> HasFiles(p, c)
  BY <1>1, WorldRoots
<1>3. HeldOK' /\ HandOK' /\ RootsOK' /\ DescribedOK' /\ CidOK'
  BY <1>1, <1>2 DEF HeldOK, HandOK, RootsOK, DescribedOK, CidOK
<1>4. PICK n, read : /\ n = IF hostNS \in todo THEN hostNS ELSE Least(todo)
                     /\ wanted' = [i \in read \cup DOMAIN wanted |-> IF i \in read THEN n ELSE wanted[i]]
  BY DEF ReadTables
<1>5. n \in DOMAIN spaces
  <2>1. todo \subseteq DOMAIN spaces /\ todo \subseteq Nat
    BY <1>1 DEF TodoOK, SpacesOK
  <2>2. Least(todo) \in todo
    BY <1>1, <2>1, LeastNumber
  <2> QED
    BY <1>4, <2>1, <2>2
<1>6. WantedListed'
  BY <1>1, <1>4, <1>5 DEF WantedListed
<1> QED
  BY <1>2, <1>3, <1>6

\* What is put in hand are descriptors of a process that is there.
LEMMA WalkRoots ==
  ASSUME SocketsAssumption, ScanOK, RootInv, UNCHANGED described, SocketInodes
  PROVE  RootInv'
<1> USE DEF RootInv, ScanOK
<1>1. pc = "walk" /\ todo # {} /\ UNCHANGED <<world, hostNS, spaces, wanted, owners, result>>
  BY DEF SocketInodes
<1>2. /\ OneRoot(proc, HostNet)'
      /\ \A n, c : RootedIn(n, c)' <=> RootedIn(n, c)
      /\ \A p, i : HeldStill(p, i)' <=> HeldStill(p, i)
      /\ \A p, c : HasFiles(p, c)' <=> HasFiles(p, c)
  BY <1>1, WorldRoots
<1>3. PICK p, held : /\ p = Least(todo)
                     /\ held = IF Alive(p) /\ p \in Owned
                               THEN At(proc[p].fds, {k \in DOMAIN proc[p].fds : proc[p].fds[k] \in DOMAIN wanted})
                               ELSE <<>>
                     /\ IF held = <<>>
                        THEN todo' = todo \ {p} /\ UNCHANGED <<pc, inHand>>
                        ELSE inHand' = held /\ pc' = "read" /\ UNCHANGED todo
  BY Zenon DEF SocketInodes
<1>4. HeldOK' /\ RootsOK' /\ DescribedOK' /\ CidOK' /\ WantedListed'
  BY <1>1, <1>2, <1>3 DEF HeldOK, RootsOK, DescribedOK, CidOK, WantedListed
<1>5. HandOK'
  <2> SUFFICES ASSUME pc' = "read", NEW k \in DOMAIN inHand' PROVE HeldStill(p, inHand'[k])
    BY <1>1, <1>2, <1>3 DEF HandOK
  <2>1. /\ Alive(p) /\ p \in Pids
        /\ inHand' = At(proc[p].fds, {m \in DOMAIN proc[p].fds : proc[p].fds[m] \in DOMAIN wanted})
    BY <1>1, <1>3, SocketsAssumption DEF Owned
  <2>2. PICK fds : fds = proc[p].fds
    OBVIOUS
  <2>3. fds \in Seq(Inodes)
    BY <2>1, <2>2 DEF MachineOK
  <2> DEFINE K == {m \in DOMAIN fds : fds[m] \in DOMAIN wanted}
  <2>4. K \subseteq DOMAIN fds /\ inHand' = At(fds, K)
    BY <2>1, <2>2
  <2> HIDE DEF K
  <2>5. PICK hand : hand = At(fds, K)
    OBVIOUS
  <2>6. \A m \in DOMAIN hand : \E j \in K : hand[m] = fds[j]
    BY <2>3, <2>4, <2>5, AtLists
  <2>7. \E j \in DOMAIN fds : inHand'[k] = fds[j]
    BY <2>4, <2>5, <2>6
  <2> QED
    BY <2>1, <2>2, <2>7 DEF HeldStill, Holds, SetRange, Alive
<1> QED
  BY <1>2, <1>4, <1>5

\* They are put down to it, whatever could be read of it since.
LEMMA OwnerRoots ==
  ASSUME SocketsAssumption, ScanOK, RootInv, UNCHANGED described, ReadOwner
  PROVE  RootInv'
<1> USE DEF RootInv, ScanOK
<1>1. pc = "read" /\ pc' = "walk" /\ UNCHANGED <<world, hostNS, spaces, wanted, result>>
  BY DEF ReadOwner
<1>2. /\ OneRoot(proc, HostNet)'
      /\ \A n, c : RootedIn(n, c)' <=> RootedIn(n, c)
      /\ \A p, i : HeldStill(p, i)' <=> HeldStill(p, i)
      /\ \A p, c : HasFiles(p, c)' <=> HasFiles(p, c)
  BY <1>1, WorldRoots
<1>3. HandOK' /\ RootsOK' /\ DescribedOK' /\ CidOK' /\ WantedListed'
  BY <1>1, <1>2 DEF HandOK, RootsOK, DescribedOK, CidOK, WantedListed
<1>4. PICK p, read : /\ p = Least(todo) /\ read = ReadProcess(p)
                     /\ owners' = owners \o [k \in DOMAIN inHand |-> [inode |-> inHand[k], process |-> read]]
  BY DEF ReadOwner
<1>5. IsProcess(read) /\ read.pid = p
  BY <1>4 DEF ReadProcess, IsProcess
<1> DEFINE more == [k \in DOMAIN inHand |-> [inode |-> inHand[k], process |-> read]]
<1>6. \A k \in DOMAIN more : IsProcess(more[k].process) /\ HeldStill(more[k].process.pid, more[k].inode)
  BY <1>1, <1>4, <1>5 DEF HandOK
<1>7. owners \in Seq(SetRange(owners)) /\ more \in Seq(SetRange(more))
  <2>1. Len(inHand) \in Nat /\ DOMAIN inHand = 1..Len(inHand)
    BY <1>1, Entries DEF OwnersOK
  <2>2. DOMAIN more = 1..Len(inHand) /\ more = [k \in 1..Len(inHand) |-> more[k]]
    BY <2>1
  <2> HIDE DEF more
  <2>3. more \in Seq(SetRange(more))
    BY <2>1, <2>2 DEF SetRange
  <2> QED
    BY <2>3 DEF OwnersOK, IsList
<1> HIDE DEF more
<1>8. SetRange(owners') \subseteq SetRange(owners) \cup SetRange(more)
  <2>1. owners \in Seq(SetRange(owners) \cup SetRange(more)) /\ more \in Seq(SetRange(owners) \cup SetRange(more))
    BY <1>7
  <2>2. owners \o more \in Seq(SetRange(owners) \cup SetRange(more))
    BY <2>1, ConcatProperties
  <2>3. SetRange(owners \o more) \subseteq SetRange(owners) \cup SetRange(more)
    BY <2>2, ListOf
  <2> QED
    BY <1>4, <2>3 DEF more
<1>9. \A o \in SetRange(owners') : IsProcess(o.process) /\ HeldStill(o.process.pid, o.inode)
  BY <1>6, <1>8 DEF HeldOK, SetRange
<1>10. HeldOK'
  BY <1>2, <1>9 DEF HeldOK, SetRange
<1> QED
  BY <1>2, <1>3, <1>10

LEMMA CollectedRoots ==
  ASSUME SocketsAssumption, ScanOK, RootInv, UNCHANGED described, Collected
  PROVE  RootInv'
<1> USE DEF RootInv, ScanOK
<1>1. pc = "walk" /\ pc' = "done" /\ UNCHANGED <<world, todo, hostNS, spaces, wanted, inHand, owners>>
  BY DEF Collected
<1>2. /\ OneRoot(proc, HostNet)'
      /\ \A n, c : RootedIn(n, c)' <=> RootedIn(n, c)
      /\ \A p, i : HeldStill(p, i)' <=> HeldStill(p, i)
      /\ \A p, c : HasFiles(p, c)' <=> HasFiles(p, c)
  BY <1>1, WorldRoots
<1>3. HandOK' /\ HeldOK' /\ DescribedOK' /\ CidOK' /\ WantedListed'
  BY <1>1, <1>2 DEF HandOK, HeldOK, DescribedOK, CidOK, WantedListed
<1>4. result'.containers = SplitContainers(GroupByProcess(owners))
  BY DEF Collected
<1>5. \A c \in SplitContainers(GroupByProcess(owners)) :
        HasFiles(c.rootPid, c.id) /\ IsList(c.services)
  BY SplitRoots
<1>6. RootsOK'
  BY <1>2, <1>4, <1>5 DEF RootsOK
<1> QED
  BY <1>2, <1>3, <1>6

LEMMA CollectRoots ==
  ASSUME SocketsAssumption, ScanOK, RootInv, UNCHANGED described, Collect
  PROVE  RootInv'
BY ListRoots, NameRoots, TablesRoots, WalkRoots, OwnerRoots, CollectedRoots DEF Collect

-----------------------------------------------------------------------------
(* What is named behind the listeners of a container.                      *)

IsListener(s) == s = [pid |-> s.pid, exe |-> s.exe, endpoints |-> s.endpoints,
                      components |-> s.components, confidence |-> s.confidence,
                      processes |-> s.processes]

\* Folded, the services are still what they were told to be.
LEMMA CollapsedTells ==
  ASSUME NEW services, IsList(services), \A k \in DOMAIN services : IsListener(services[k]),
         NEW folded, folded = CollapseWorkers(services)
  PROVE  \A n \in DOMAIN folded : \E k \in DOMAIN services :
           folded[n].exe = services[k].exe /\ folded[n].components = services[k].components
<1> DEFINE leads == [k \in DOMAIN services |-> Lead(services, k)]
           K == {k \in DOMAIN services : k = Least(Workers(services, k))}
<1>1. Len(services) \in Nat /\ DOMAIN services = 1..Len(services)
  BY Entries DEF IsList
<1>2. leads \in Seq(SetRange(leads)) /\ K \subseteq DOMAIN leads /\ DOMAIN leads = DOMAIN services
  <2>1. \A k \in 1..Len(services) : leads[k] \in SetRange(leads)
    BY <1>1 DEF SetRange
  <2>2. leads = [k \in 1..Len(services) |-> leads[k]] /\ DOMAIN leads = DOMAIN services
    BY <1>1
  <2>3. K \subseteq DOMAIN services
    OBVIOUS
  <2> HIDE DEF leads, K
  <2>4. leads \in Seq(SetRange(leads))
    BY <1>1, <2>1, <2>2
  <2> QED
    BY <2>2, <2>3, <2>4
<1>3. folded = At(leads, K)
  BY Zenon DEF CollapseWorkers
<1>4. \A k \in DOMAIN services : leads[k].exe = services[k].exe /\ leads[k].components = services[k].components
  <2> SUFFICES ASSUME NEW k \in DOMAIN services
               PROVE  leads[k].exe = services[k].exe /\ leads[k].components = services[k].components
    OBVIOUS
  <2>1. PICK s, pid, processes : /\ s = services[k]
                                 /\ Lead(services, k) = [s EXCEPT !.pid = pid, !.processes = processes]
    BY Zenon DEF Lead
  <2>2. IsListener(s)
    BY <2>1
  <2>3. Lead(services, k).exe = s.exe /\ Lead(services, k).components = s.components
    BY <2>1, <2>2 DEF IsListener
  <2> QED
    BY <2>1, <2>3
<1> HIDE DEF leads, K
<1>5. \A n \in DOMAIN folded : \E k \in K : folded[n] = leads[k]
  BY <1>2, <1>3, AtLists
<1> QED
  BY <1>2, <1>4, <1>5

OwnersIn(fs, exe) ==
  LET release == ReadRelease(fs)
  IN  ProbeDpkg(fs, release, exe) \cup ProbeApk(fs, release, exe) \cup ProbeRPM(fs, release, exe)

\* What is answered for a path is what the databases say of it.
LEMMA AnswersTell ==
  ASSUME NEW fs, NEW paths, NEW answers \in Answers(Probe(fs, paths)), NEW x \in DOMAIN answers
  PROVE  answers[x] \subseteq OwnersIn(fs, x)
<1> DEFINE may == Probe(fs, paths)
<1>1. DOMAIN answers = DOMAIN may /\ answers[x] \subseteq may[x]
  BY DEF Answers
<1>2. \A y \in DOMAIN may : may[y] \subseteq OwnersIn(fs, y)
  BY DEF Probe, OwnersIn
<1> HIDE DEF may
<1> QED
  BY <1>1, <1>2

\* Through the root of a process that is gone nothing is named.
LEMMA GoneTellsNothing ==
  ASSUME NoFSAssumption, NEW x
  PROVE  OwnersIn(NoFS, x) = {}
<1> DEFINE release == ReadRelease(NoFS)
<1>1. NoFS.dpkg = <<>> /\ NoFS.apk = <<>> /\ NoFS.rpm = <<>> /\ DOMAIN <<>> = {}
  BY NoFSAssumption
<1>2. Elements(<<>>) = {}
  BY DEF Elements
<1> HIDE DEF release
<1>3. ProbeDpkg(NoFS, release, x) = {}
  BY <1>1, <1>2 DEF ProbeDpkg
<1>4. FirstListing(<<>>, {}, x) = {}
  BY DEF FirstListing
<1>5. {k \in DOMAIN NoFS.apk : NoFS.apk[k].name # ""} = {} /\ DOMAIN NoFS.rpm = {}
  BY <1>1
<1>6. ProbeApk(NoFS, release, x) = {}
  <2>1. FirstListing(NoFS.apk, {k \in DOMAIN NoFS.apk : NoFS.apk[k].name # ""}, x) = {}
    BY <1>1, <1>4, <1>5
  <2> QED
    BY <2>1 DEF ProbeApk
<1>7. ProbeRPM(NoFS, release, x) = {}
  <2>1. FirstListing(NoFS.rpm, DOMAIN NoFS.rpm, x) = {}
    BY <1>1, <1>4, <1>5
  <2> QED
    BY <2>1 DEF ProbeRPM
<1> QED
  BY <1>3, <1>6, <1>7 DEF OwnersIn, release

\* A container is described by its own files, or by none.
LEMMA EnrichedIsDescribed ==
  ASSUME NoFSAssumption, NEW c, IsList(c.services), HasFiles(c.rootPid, c.id),
         NEW fs, fs = RootOf(c.rootPid), NEW paths, NEW answers \in Answers(Probe(fs, paths))
  PROVE  IsDescribed(EnrichOne(c, fs, answers))
<1> DEFINE owner(s) == IF s.process.exe \in DOMAIN answers THEN answers[s.process.exe] ELSE {}
           ones == [k \in DOMAIN c.services |-> ContainerService(c.services[k], owner(c.services[k]))]
           it == EnrichOne(c, fs, answers)
<1>1. /\ it.id = c.id /\ it.services = CollapseWorkers(ones)
      /\ it = [id |-> it.id, name |-> it.name, runtime |-> it.runtime, image |-> it.image,
               release |-> it.release, state |-> it.state, declared |-> it.declared,
               services |-> it.services, links |-> it.links]
  BY DEF EnrichOne
<1>2. \A s : /\ IsListener(ContainerService(s, owner(s)))
             /\ ContainerService(s, owner(s)).exe = s.process.exe
             /\ ContainerService(s, owner(s)).components \subseteq owner(s)
  <2> SUFFICES ASSUME NEW s
               PROVE  /\ IsListener(ContainerService(s, owner(s)))
                      /\ ContainerService(s, owner(s)).exe = s.process.exe
                      /\ ContainerService(s, owner(s)).components \subseteq owner(s)
    OBVIOUS
  <2>1. PICK who : who = owner(s)
    OBVIOUS
  <2>2. /\ IsListener(ContainerService(s, who))
        /\ ContainerService(s, who).exe = s.process.exe
        /\ ContainerService(s, who).components \subseteq who
    BY DEF IsListener, ContainerService
  <2> HIDE DEF owner
  <2> QED
    BY <2>1, <2>2
<1>3. \A s : owner(s) \subseteq OwnersIn(fs, s.process.exe)
  BY AnswersTell
<1>4. \A exe : OwnersIn(fs, exe) \subseteq OwnedBy(c.id, exe)
  <2>1. CASE Alive(c.rootPid)
    <3>1. fs = Filesystems[Engine[c.id].fs]
      BY <2>1 DEF RootOf, HasFiles
    <3> QED
      BY <3>1 DEF OwnersIn, OwnedBy
  <2>2. CASE ~Alive(c.rootPid)
    <3>1. fs = NoFS
      BY <2>2 DEF RootOf
    <3> QED
      BY <3>1, GoneTellsNothing
  <2> QED
    BY <2>1, <2>2
<1> HIDE DEF owner
<1>5. IsList(ones) /\ \A k \in DOMAIN ones : IsListener(ones[k])
  <2>1. Len(c.services) \in Nat /\ DOMAIN c.services = 1..Len(c.services)
    BY Entries DEF IsList
  <2>2. DOMAIN ones = 1..Len(c.services) /\ ones = [k \in 1..Len(c.services) |-> ones[k]]
    BY <2>1
  <2>3. \A k \in DOMAIN ones : IsListener(ones[k])
    BY <1>2
  <2> HIDE DEF ones
  <2>4. ones \in Seq(SetRange(ones))
    BY <2>1, <2>2 DEF SetRange
  <2> QED
    BY <2>3, <2>4 DEF IsList
<1>6. \A k \in DOMAIN ones : ones[k].components \subseteq OwnedBy(c.id, ones[k].exe)
  <2> SUFFICES ASSUME NEW k \in DOMAIN ones PROVE ones[k].components \subseteq OwnedBy(c.id, ones[k].exe)
    OBVIOUS
  <2>1. PICK s : ones[k] = ContainerService(s, owner(s))
    OBVIOUS
  <2> HIDE DEF ones
  <2> QED
    BY <1>2, <1>3, <1>4, <2>1
<1> HIDE DEF ones, it
<1>7. \A n \in DOMAIN it.services : \E k \in DOMAIN ones :
        it.services[n].exe = ones[k].exe /\ it.services[n].components = ones[k].components
  BY <1>1, <1>5, CollapsedTells
<1>8. IsDescribed(it)
  BY <1>1, <1>6, <1>7 DEF IsDescribed
<1> QED
  BY <1>8 DEF it

LEMMA FilledIsDescribed ==
  ASSUME NEW c, IsDescribed(c), NEW e
  PROVE  IsDescribed(FillIn(c, e))
<1>1. PICK state, declared, name, image :
        FillIn(c, e) = [c EXCEPT !.state = state, !.declared = declared, !.name = name, !.image = image]
  BY Zenon DEF FillIn
<1> QED
  BY <1>1 DEF IsDescribed

\* The engine alone names nothing behind a listener.
LEMMA ListedIsDescribed ==
  ASSUME NEW e, NEW rel
  PROVE  IsDescribed(DescribeFromRuntime(e, rel))
<1> DEFINE it == DescribeFromRuntime(e, rel)
<1>1. it = [id |-> it.id, name |-> it.name, runtime |-> it.runtime, image |-> it.image,
            release |-> it.release, state |-> it.state, declared |-> it.declared,
            services |-> it.services, links |-> it.links]
  BY DEF DescribeFromRuntime
<1>2. PICK s : it.services = <<s>> /\ s.components = {}
  BY DEF DescribeFromRuntime
<1> HIDE DEF it
<1>3. \A k \in DOMAIN it.services : it.services[k] = s
  BY <1>2
<1>4. IsDescribed(it)
  BY <1>1, <1>2, <1>3 DEF IsDescribed
<1> QED
  BY <1>4 DEF it

\* The report is made of a collection that is over.
LEMMA ReportRoots ==
  ASSUME MachineOK, RootInv, UNCHANGED socketVars, DescribedOK'
  PROVE  RootInv'
<1> USE DEF RootInv, socketVars
<1>1. /\ OneRoot(proc, HostNet)'
      /\ \A n, c : RootedIn(n, c)' <=> RootedIn(n, c)
      /\ \A p, i : HeldStill(p, i)' <=> HeldStill(p, i)
      /\ \A p, c : HasFiles(p, c)' <=> HasFiles(p, c)
  BY WorldRoots DEF world
<1>2. HandOK' /\ HeldOK' /\ CidOK' /\ WantedListed' /\ RootsOK'
  BY <1>1 DEF HandOK, HeldOK, CidOK, WantedListed, RootsOK
<1> QED
  BY <1>1, <1>2

LEMMA EnrichRoots ==
  ASSUME NoFSAssumption, MachineOK, RowsOK, RootInv, NEW c \in result.containers, Enrich(c)
  PROVE  RootInv'
<1>1. UNCHANGED socketVars /\ pc = "done"
  BY DEF Enrich, RowsOK
<1>2. HasFiles(c.rootPid, c.id) /\ IsList(c.services)
  BY <1>1 DEF RootInv, RootsOK
<1>3. PICK fs, paths : /\ fs = RootOf(c.rootPid)
                       /\ \E answers \in Answers(Probe(fs, paths)) :
                            described' = described \cup {EnrichOne(c, fs, answers)}
  BY Zenon DEF Enrich
<1>4. PICK answers \in Answers(Probe(fs, paths)) : described' = described \cup {EnrichOne(c, fs, answers)}
  BY <1>3
<1>5. IsDescribed(EnrichOne(c, fs, answers))
  BY <1>2, <1>3, EnrichedIsDescribed
<1>6. DescribedOK'
  BY <1>4, <1>5 DEF RootInv, DescribedOK, IsDescribed
<1> QED
  BY <1>1, <1>6, ReportRoots

LEMMA RuntimeRoots ==
  ASSUME MachineOK, RootInv, NEW id \in engineTodo, RuntimeKnown(id) \/ RuntimeOnly(id)
  PROVE  RootInv'
<1>1. UNCHANGED socketVars
  BY DEF RuntimeKnown, RuntimeOnly
<1>2. \A d \in described' : \/ d \in described
                            \/ \E c \in described : \E e : d = FillIn(c, e)
                            \/ \E e, rel : d = DescribeFromRuntime(e, rel)
  <2>1. CASE RuntimeKnown(id)
    <3>1. PICK c \in described : \E e : described' = (described \ {c}) \cup {FillIn(c, e)}
      BY <2>1 DEF RuntimeKnown
    <3> QED
      BY <3>1
  <2>2. CASE RuntimeOnly(id)
    <3>1. PICK e, rel : described' \in {described, described \cup {DescribeFromRuntime(e, rel)}}
      BY <2>2 DEF RuntimeOnly
    <3> QED
      BY <3>1
  <2> QED
    BY <2>1, <2>2
<1>3. DescribedOK'
  BY <1>2, FilledIsDescribed, ListedIsDescribed DEF RootInv, DescribedOK, IsDescribed
<1> QED
  BY <1>1, <1>3, ReportRoots

LEMMA RootsStep ==
  ASSUME SocketsAssumption, NoFSAssumption, Reuse = FALSE, ListenInv, RootInv, [Next]_vars
  PROVE  RootInv'
<1> USE DEF ListenInv
<1>0. ScanOK
  BY DEF ScanOK
<1>1. CASE UNCHANGED socketVars /\ UNCHANGED described
  <2>1. DescribedOK'
    BY <1>1 DEF RootInv, DescribedOK
  <2> QED
    BY <1>1, <2>1, ReportRoots
<1>2. CASE stage # "end" /\ Machine /\ UNCHANGED reportVars
  BY <1>2, MachineRoots DEF reportVars
<1>3. CASE Listen
  BY <1>0, <1>3, CollectRoots DEF Listen, reportVars
<1>4. CASE Refused \/ NoSnapshot \/ AttributeServices \/ EngineSilent \/ EngineLists \/ EngineDone \/ ExposeAndLift
  <2>1. UNCHANGED socketVars /\ UNCHANGED described
    BY <1>4 DEF Refused, NoSnapshot, AttributeServices, EngineSilent, EngineLists, EngineDone, ExposeAndLift
  <2> QED
    BY <1>1, <2>1
<1>5. CASE \E c \in result.containers : Enrich(c)
  BY <1>5, EnrichRoots
<1>6. CASE \E id \in engineTodo : RuntimeKnown(id) \/ RuntimeOnly(id)
  BY <1>6, RuntimeRoots
<1>7. CASE UNCHANGED vars \/ Stopped
  BY <1>1, <1>7 DEF Stopped, vars, reportVars
<1> QED
  BY <1>2, <1>3, <1>4, <1>5, <1>6, <1>7 DEF Next

LEMMA RootsInit ==
  ASSUME OneRootEach, Init
  PROVE  RootInv
<1> USE DEF Init, SocketsInit
<1>1. OneRoot(proc, HostNet)
  <2>1. 1 \in Owned \/ 1 \notin Mine
    BY SocketsAssumption DEF Owned
  <2>2. HostNet = proc[1].net \/ (1 \notin Mine /\ HostNet = proc[Self].net)
    BY <2>1 DEF HostNet
  <2>3. PICK b \in Boots : b = proc
    OBVIOUS
  <2>4. OneRoot(b, b[1].net) /\ (1 \notin Mine => OneRoot(b, b[Self].net))
    BY DEF OneRootEach
  <2>5. OneRoot(b, HostNet)
    BY <2>2, <2>3, <2>4
  <2> QED
    BY <2>3, <2>5 DEF OneRoot
<1>2. SetRange(owners) = {} /\ DOMAIN spaces = {} /\ DOMAIN wanted = {}
  BY DEF SetRange
<1>3. CidOK /\ WantedListed /\ HandOK /\ HeldOK /\ RootsOK /\ DescribedOK
  BY <1>2 DEF CidOK, WantedListed, HandOK, HeldOK, RootsOK, DescribedOK
<1> QED
  BY <1>1, <1>3 DEF RootInv

\* Where a network namespace is of one container at most, what is named behind a listener
\* of a container is recorded in that container's own files, though they are read through
\* a process that was put down for it much earlier and may be gone (container_linux.go:43).
THEOREM ContainerSoftwareIsItsOwnAlways ==
  ASSUME Reuse = FALSE, OneRootEach
  PROVE  Spec => []ContainerSoftwareIsItsOwn
<1>1. Init => RootInv
  BY RootsInit
<1>2. ListenInv /\ RootInv /\ [Next]_vars => RootInv'
  BY RootsStep, SocketsAssumption, NoFSAssumption
<1>3. RootInv => ContainerSoftwareIsItsOwn
  BY DEF RootInv, DescribedOK, IsDescribed, OwnedBy, ContainerSoftwareIsItsOwn
<1> QED
  BY <1>1, <1>2, <1>3, ListenInvariant, PTL DEF Spec

=============================================================================
