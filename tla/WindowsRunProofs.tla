-------------------------- MODULE WindowsRunProofs --------------------------
(***************************************************************************)
(* Theorems about WindowsRun: a pool that is cut short by its deadline     *)
(* leaves a trace, one that is not leaves nothing out, and what nobody     *)
(* touched is found in the Master File Table.  For every disk, every       *)
(* number of workers, and every moment a deadline may pass or the disk     *)
(* may change.                                                             *)
(***************************************************************************)
EXTENDS WindowsRun, FiniteSetTheorems, SequenceTheorems, WellFoundedInduction, TLAPS

-----------------------------------------------------------------------------
(* The inductive invariants.                                               *)

\* The result is a record of these fields.
IsResult ==
  res = [products |-> res.products, manifests |-> res.manifests, pe |-> res.pe,
         opened |-> res.opened, executables |-> res.executables, asked |-> res.asked,
         incomplete |-> res.incomplete, warnings |-> res.warnings]

\* Each worker has a path in its hands, or none.
AreWorkers == worker = [w \in Workers |-> worker[w]]

\* What the executables are handed out of are paths, and no path is Idle.
NoneIsIdle == Idle \notin toOpen /\ Idle \notin res.executables

\* While the pool runs, every executable to be opened is still to be handed out, in
\* somebody's hands, or opened; afterwards it is opened, unless the deadline passed.
InHands == {worker[w] : w \in Workers} \ {Idle}

NoneForgotten ==
  /\ pc = "extract" =>
       /\ res.asked \subseteq toOpen \cup InHands \cup res.opened
       /\ queue = "closed" /\ ~expired => toOpen = {}
  /\ pc \in {"report", "parse", "assemble", "write"} \/ exit \in {0, 1} =>
       expired \/ res.asked \subseteq res.opened
  /\ exit \in {0, 1} => pc = "done"
  /\ pc = "registry" => res.asked = {}
  /\ pc \in {"registry", "volume", "records"} => queue = "open"

PoolInv == IsResult /\ AreWorkers /\ NoneIsIdle /\ NoneForgotten

\* The links of one executable on the disk as it is, with all the time there is.
AllLinks(exe) == PeProbe(PeImports, Files, {}, FALSE, exe).out

\* Links are assembled while the disk holds still, and before the deadline they are all;
\* once they are delivered, the warning tells.
LinksTell ==
  /\ pc \in {"registry", "volume", "records", "extract", "report", "parse"} => links = <<>>
  /\ pc = "assemble" => peExpired \/ \A exe \in DOMAIN links : links[exe] = AllLinks(exe)
  /\ pc \in {"write", "done"} =>
       \/ links = <<>> \/ "partial" \in res.warnings
       \/ \A exe \in DOMAIN links : links[exe] = AllLinks(exe)

LinksInv == IsResult /\ LinksTell

-----------------------------------------------------------------------------
(* The links.                                                              *)

\* Before the deadline what is cached makes no difference to what a probe finds: every
\* file may be parsed.
LEMMA CacheIsNoMatter ==
  ASSUME NEW files, NEW c, NEW exe, NEW late, ~late
  PROVE  PeProbe(PeImports, files, c, late, exe).out = PeProbe(PeImports, files, {}, FALSE, exe).out
BY DEF PeProbe

LEMMA LinksInit == Init => LinksInv
<1> SUFFICES ASSUME Init PROVE LinksInv
  OBVIOUS
<1>1. IsResult
  BY DEF Init, IsResult, NoResult
<1>2. LinksTell
  BY DEF Init, LinksTell
<1> QED
  BY <1>1, <1>2 DEF LinksInv

\* The disk holds still from the last record read on.
LEMMA FilesHold ==
  ASSUME [Next]_vars, pc # "records"
  PROVE  Files' = Files /\ \A exe : AllLinks(exe)' = AllLinks(exe)
<1>1. disk' = disk
  BY DEF Next, Collect, Extraction, Probing, ReadRegistry, OpenVolume, ReadRecords, EndVolume,
         CollectLanguagePackages, FeedStops, ExtractEnds, Feed, Extract, StartProbe, ParseEnds,
         Assemble, Deliver, HandOut, Parse, Write, Expire, PeExpire, ChangeDisk, Stopped, Failed,
         vars, diskVars
<1>2. Files' = Files
  BY <1>1 DEF Files, FilesOf, TruePath
<1> QED
  BY <1>2 DEF AllLinks

LEMMA LinksStep == LinksInv /\ [Next]_vars => LinksInv'
<1> SUFFICES ASSUME LinksInv, [Next]_vars PROVE LinksInv'
  OBVIOUS
<1> USE DEF LinksInv
<1>r. IsResult'
  BY DEF IsResult, Next, Collect, Extraction, Probing, ReadRegistry, OpenVolume, ReadRecords, EndVolume,
         CollectLanguagePackages, FeedStops, ExtractEnds, Feed, Extract, StartProbe, ParseEnds,
         Assemble, Deliver, HandOut, Parse, Write, Expire, PeExpire, ChangeDisk, Stopped, Failed, vars
<1>f. pc # "records" => \A exe : AllLinks(exe)' = AllLinks(exe)
  BY FilesHold
<1>1. CASE Collect
  BY <1>1, <1>r DEF LinksTell, Collect, ReadRegistry, OpenVolume, ReadRecords, EndVolume,
              CollectLanguagePackages, Failed, peVars
<1>2. CASE Extraction
  BY <1>2, <1>r DEF LinksTell, Extraction, FeedStops, ExtractEnds, Feed, Extract, peVars
<1>3. CASE StartProbe
  BY <1>3, <1>r DEF LinksTell, StartProbe, peVars
<1>4. CASE \E w \in Workers : HandOut(w) \/ Parse(w)
  BY <1>4, <1>r DEF LinksTell, HandOut, Parse, peVars
<1>5. CASE ParseEnds
  <2>1. links' = <<>> /\ pc' = "assemble"
    BY <1>5 DEF LinksTell, ParseEnds, peVars
  <2>2. DOMAIN links' = {}
    BY <2>1
  <2> QED
    BY <2>1, <2>2, <1>r DEF LinksTell
<1>6. CASE Assemble
  <2>1. PICK exe : LET got == PeProbe(PeImports, Files, cache, peExpired, exe)
                   IN  links' = [e \in DOMAIN links \cup {exe} |-> IF e = exe THEN got.out ELSE links[e]]
    BY <1>6 DEF Assemble
  <2>2. pc = "assemble" /\ pc' = "assemble" /\ peExpired' = peExpired
    BY <1>6 DEF Assemble
  <2>3. ASSUME ~peExpired PROVE \A e \in DOMAIN links' : links'[e] = AllLinks(e)
    <3>1. \A e \in DOMAIN links : links[e] = AllLinks(e)
      BY <2>2, <2>3 DEF LinksTell
    <3>2. links' = [e \in DOMAIN links \cup {exe} |-> IF e = exe THEN AllLinks(exe) ELSE links[e]]
      BY <2>1, <2>3, CacheIsNoMatter DEF AllLinks
    <3> QED
      BY <3>1, <3>2
  <2> QED
    BY <2>2, <2>3, <1>f, <1>r DEF LinksTell
<1>7. CASE Deliver
  <2>1. pc = "assemble" /\ pc' = "write" /\ links' = links
    BY <1>7 DEF Deliver, peVars
  <2>2. CASE peExpired
    <3>1. "partial" \in res'.warnings
      BY <1>7, <2>2 DEF Deliver, Aborted, IsResult
    <3> QED
      BY <2>1, <3>1, <1>r DEF LinksTell
  <2>3. CASE ~peExpired
    BY <2>1, <2>3, <1>f, <1>r DEF LinksTell
  <2> QED
    BY <2>2, <2>3
<1>8. CASE Write
  <2>1. pc = "write" /\ pc' = "done" /\ links' = links /\ res' = res
    BY <1>8 DEF Write, peVars
  <2> QED
    BY <2>1, <1>f, <1>r DEF LinksTell
<1>9. CASE PeExpire
  <2>1. pc \in {"parse", "assemble"} /\ peExpired' /\ pc' = pc /\ links' = links
    BY <1>9 DEF PeExpire
  <2> QED
    BY <2>1, <1>r DEF LinksTell
<1>10. CASE Expire \/ ChangeDisk
  BY <1>10, <1>r DEF LinksTell, Expire, ChangeDisk, peVars
<1>11. CASE Stopped \/ UNCHANGED vars
  <2>1. UNCHANGED <<pc, links, res, peExpired, disk>>
    BY <1>11 DEF Stopped, vars, peVars, diskVars
  <2>2. \A exe : AllLinks(exe)' = AllLinks(exe)
    BY <2>1 DEF AllLinks, Files, FilesOf, TruePath
  <2> QED
    BY <2>1, <2>2, <1>r DEF LinksTell
<1> QED
  BY <1>1, <1>2, <1>3, <1>4, <1>5, <1>6, <1>7, <1>8, <1>9, <1>10, <1>11 DEF Next, Extraction, Probing

\* The links of a report are all there are on a disk that holds still, or the report warns
\* that they are partial (pelink.go:337-340): whatever the cache held, in whatever order the
\* workers filled it, and whenever the deadline of the probe passed.
THEOREM PartialIsSaidAlways == Spec => []PartialIsSaid
<1>1. LinksInv => PartialIsSaid
  BY DEF LinksInv, LinksTell, PartialIsSaid, AllLinks
<1> QED
  BY <1>1, LinksInit, LinksStep, PTL DEF Spec

-----------------------------------------------------------------------------
(* The pool of the extraction.                                             *)

LEMMA PoolInit == Init => PoolInv
<1> SUFFICES ASSUME Init PROVE PoolInv
  OBVIOUS
<1>1. IsResult /\ res.asked = {} /\ res.executables = {}
  BY DEF Init, IsResult, NoResult
<1>2. AreWorkers
  BY DEF Init, AreWorkers
<1> QED
  BY <1>1, <1>2 DEF Init, PoolInv, NoneIsIdle, NoneForgotten

LEMMA PoolStep == PoolInv /\ [Next]_vars => PoolInv'
<1> SUFFICES ASSUME PoolInv, [Next]_vars PROVE PoolInv'
  OBVIOUS
<1> USE DEF PoolInv
<1>r. IsResult'
  BY DEF IsResult, Next, Collect, Extraction, Probing, ReadRegistry, OpenVolume, ReadRecords, EndVolume,
         CollectLanguagePackages, FeedStops, ExtractEnds, Feed, Extract, StartProbe, ParseEnds,
         Assemble, Deliver, HandOut, Parse, Write, Expire, PeExpire, ChangeDisk, Stopped, Failed, vars
<1>w. AreWorkers'
  BY DEF AreWorkers, Next, Collect, Extraction, Probing, ReadRegistry, OpenVolume, ReadRecords, EndVolume,
         CollectLanguagePackages, FeedStops, ExtractEnds, Feed, Extract, StartProbe, ParseEnds,
         Assemble, Deliver, HandOut, Parse, Write, Expire, PeExpire, ChangeDisk, Stopped, Failed, vars,
         poolVars
<1>i. NoneIsIdle'
  <2>1. CASE EndVolume
    BY <2>1 DEF EndVolume, NoneIsIdle, Idle, IsResult
  <2>2. CASE ReadRegistry \/ OpenVolume \/ ReadRecords \/ CollectLanguagePackages
    BY <2>2 DEF ReadRegistry, OpenVolume, ReadRecords, CollectLanguagePackages, Failed, NoneIsIdle,
                IsResult, poolVars
  <2>3. CASE Extraction
    BY <2>3 DEF Extraction, FeedStops, ExtractEnds, Feed, Extract, NoneIsIdle, IsResult
  <2>4. CASE Probing
    BY <2>4 DEF Probing, StartProbe, ParseEnds, Assemble, Deliver, HandOut, Parse, NoneIsIdle,
                IsResult, poolVars
  <2>5. CASE Write \/ Expire \/ PeExpire \/ ChangeDisk \/ Stopped \/ UNCHANGED vars
    BY <2>5 DEF Write, Expire, PeExpire, ChangeDisk, Stopped, vars, poolVars, NoneIsIdle
  <2> QED
    BY <2>1, <2>2, <2>3, <2>4, <2>5 DEF Next, Collect
<1>n. NoneForgotten'
  <2>1. CASE Collect
    <3>1. CASE ReadRegistry
      BY <3>1 DEF ReadRegistry, Failed, NoneForgotten, IsResult, poolVars
    <3>2. CASE OpenVolume \/ ReadRecords
      BY <3>2 DEF OpenVolume, ReadRecords, Failed, NoneForgotten, IsResult, poolVars
    <3>3. CASE EndVolume
      BY <3>3 DEF EndVolume, NoneForgotten, IsResult
    <3>4. CASE CollectLanguagePackages
      <4>1. res'.asked = toOpen /\ UNCHANGED <<toOpen, queue, worker, exit, expired>> /\ pc = "volume"
            /\ pc' = IF toOpen = {} THEN "report" ELSE "extract"
        BY <3>4 DEF CollectLanguagePackages, IsResult, poolVars
      <4> QED
        BY <4>1 DEF NoneForgotten
    <3> QED
      BY <2>1, <3>1, <3>2, <3>3, <3>4 DEF Collect
  <2>2. CASE FeedStops
    BY <2>2 DEF FeedStops, NoneForgotten, InHands
  <2>3. CASE ExtractEnds
    <3>1. InHands = {}
      BY <2>3 DEF ExtractEnds, InHands
    <3> QED
      BY <2>3, <3>1 DEF ExtractEnds, NoneForgotten
  <2>4. ASSUME NEW w \in Workers, Feed(w) PROVE NoneForgotten'
    <3>1. PICK p \in toOpen : worker' = [worker EXCEPT ![w] = p] /\ toOpen' = toOpen \ {p}
      BY <2>4 DEF Feed
    <3>2. p # Idle /\ worker[w] = Idle
      BY <2>4, <3>1 DEF Feed, NoneIsIdle
    <3>3. worker'[w] = p /\ \A u \in Workers : u # w => worker'[u] = worker[u]
      BY <3>1 DEF AreWorkers
    <3>4. toOpen \cup InHands \subseteq toOpen' \cup InHands'
      BY <3>1, <3>2, <3>3 DEF InHands
    <3>5. pc = "extract" /\ queue = "open" /\ UNCHANGED <<pc, queue, res, exit, expired>>
      BY <2>4 DEF Feed
    <3> QED
      BY <3>4, <3>5 DEF NoneForgotten
  <2>5. ASSUME NEW w \in Workers, Extract(w) PROVE NoneForgotten'
    <3>1. res'.asked = res.asked /\ res'.opened = res.opened \cup {worker[w]}
      BY <2>5 DEF Extract, IsResult
    <3>2. worker'[w] = Idle /\ \A u \in Workers : u # w => worker'[u] = worker[u]
      BY <2>5 DEF Extract, AreWorkers
    <3>3. InHands \subseteq InHands' \cup {worker[w]}
      BY <3>2 DEF InHands
    <3>4. pc = "extract" /\ UNCHANGED <<pc, queue, toOpen, exit, expired>>
      BY <2>5 DEF Extract
    <3> QED
      BY <3>1, <3>3, <3>4 DEF NoneForgotten
  <2>6. CASE Probing
    <3>1. /\ pc \in {"report", "parse", "assemble"} /\ pc' \in {"parse", "assemble", "write"}
          /\ res'.asked = res.asked /\ res'.opened = res.opened /\ UNCHANGED <<exit, expired>>
      BY <2>6 DEF Probing, StartProbe, ParseEnds, Assemble, Deliver, HandOut, Parse, IsResult
    <3> QED
      BY <3>1 DEF NoneForgotten
  <2>7. CASE Write
    BY <2>7 DEF Write, NoneForgotten
  <2>8. CASE Expire
    <3>1. expired' /\ pc \in {"volume", "records", "extract"}
          /\ UNCHANGED <<pc, res, toOpen, queue, worker, exit>>
      BY <2>8 DEF Expire, poolVars
    <3> QED
      BY <3>1 DEF NoneForgotten, InHands
  <2>9. CASE PeExpire \/ ChangeDisk \/ Stopped \/ UNCHANGED vars
    <3>1. UNCHANGED <<pc, res, toOpen, queue, worker, exit, expired>>
      BY <2>9 DEF PeExpire, ChangeDisk, Stopped, vars, poolVars
    <3> QED
      BY <3>1 DEF NoneForgotten, InHands
  <2> QED
    BY <2>1, <2>2, <2>3, <2>4, <2>5, <2>6, <2>7, <2>8, <2>9 DEF Next, Extraction
<1> QED
  BY <1>r, <1>w, <1>i, <1>n

\* A run that ends with a report opened every executable it set out to open, unless its
\* deadline passed: no path is lost between the feeder and its workers
\* (wincollect/peextract.go, extractAll), and only a deadline cuts the list short.
THEOREM OpenedUnlessExpired ==
  Spec => [](exit \in {0, 1} /\ ~expired => res.asked \subseteq res.opened)
<1>1. PoolInv => (exit \in {0, 1} /\ ~expired => res.asked \subseteq res.opened)
  BY DEF PoolInv, NoneForgotten
<1> QED
  BY <1>1, PoolInit, PoolStep, PTL DEF Spec

-----------------------------------------------------------------------------
(* Induction over numbers, for sets instead of predicates.                 *)

LEMMA LeastNumber ==
  ASSUME NEW T, T \subseteq Nat, T # {}
  PROVE  \E x \in T : \A y \in T : x <= y
<1> DEFINE R == OpToRel(<, Nat)
<1>1. IsWellFoundedOn(R, Nat)
  BY NatLessThanWellFounded
<1> HIDE DEF R
<1>2. PICK x \in T : \A y \in T : ~ (<<y, x>> \in R)
  BY <1>1, WFMin, Zenon
<1>3. \A y, z \in Nat : y < z => <<y, z>> \in R
  BY DEF R, OpToRel
<1>4. \A y \in T : ~ (y < x)
  BY <1>2, <1>3
<1> QED
  BY <1>4

LEMMA NumbersUpto ==
  ASSUME NEW N \in Nat, NEW T, 0 \in T, \A n \in Nat : n < N /\ n \in T => n + 1 \in T
  PROVE  0..N \subseteq T
<1> SUFFICES ASSUME (0..N) \ T # {} PROVE FALSE
  OBVIOUS
<1>1. PICK n \in (0..N) \ T : \A m \in (0..N) \ T : n <= m
  <2>1. (0..N) \ T \subseteq Nat
    OBVIOUS
  <2> QED
    BY <2>1, LeastNumber
<1>2. n - 1 \in Nat /\ n - 1 < N /\ n - 1 \in 0..N
  BY <1>1
<1>3. n - 1 \in T
  BY <1>1, <1>2
<1> QED
  BY <1>1, <1>2, <1>3

\* A finite set of numbers that is not empty has a greatest.
LEMMA GreatestNumber ==
  ASSUME NEW S, IsFiniteSet(S), S \subseteq Nat, S # {}
  PROVE  Max(S) \in S /\ \A y \in S : Max(S) >= y
<1> DEFINE T == {n \in Nat : \A U \in SUBSET S : U # {} /\ Cardinality(U) = n => \E x \in U : \A y \in U : x >= y}
<1>1. Cardinality(S) \in Nat /\ \A U \in SUBSET S : IsFiniteSet(U) /\ Cardinality(U) \in Nat
  BY FS_Subset, FS_CardinalityType
<1>2. 0 \in T
  BY <1>1, FS_EmptySet
<1>3. ASSUME NEW n \in Nat, n \in T PROVE n + 1 \in T
  <2> SUFFICES ASSUME NEW U \in SUBSET S, U # {}, Cardinality(U) = n + 1
               PROVE  \E x \in U : \A y \in U : x >= y
    OBVIOUS
  <2>1. PICK u \in U : TRUE
    OBVIOUS
  <2>2. Cardinality(U \ {u}) = n /\ U \ {u} \in SUBSET S
    <3>1. Cardinality(U \ {u}) = Cardinality(U) - 1
      BY <1>1, <2>1, FS_RemoveElement
    <3>2. (n + 1) - 1 = n
      OBVIOUS
    <3> QED
      BY <3>1, <3>2
  <2>3. CASE U \ {u} = {}
    BY <2>1, <2>3
  <2>4. CASE U \ {u} # {}
    <3>1. PICK x \in U \ {u} : \A y \in U \ {u} : x >= y
      BY <1>3, <2>2, <2>4
    <3>2. x \in Nat /\ u \in Nat /\ \A y \in U : y \in Nat
      OBVIOUS
    <3>3. CASE x >= u
      BY <3>1, <3>3
    <3>4. CASE u > x
      BY <3>1, <3>2, <3>4
    <3> QED
      BY <3>2, <3>3, <3>4
  <2> QED
    BY <2>3, <2>4
<1> HIDE DEF T
<1>4. 0..Cardinality(S) \subseteq T
  BY <1>1, <1>2, <1>3, NumbersUpto
<1>5. Cardinality(S) \in T
  BY <1>1, <1>4
<1>6. \E x \in S : \A y \in S : x >= y
  BY <1>5 DEF T
<1> QED
  BY <1>6 DEF Max

-----------------------------------------------------------------------------
(* The directories above a file, one step after the other.                 *)

\* The chain of resolvePath, step by step.
LEMMA ChainSteps ==
  ASSUME NEW ds, NEW from
  PROVE  \E C : /\ C[0] = [at |-> from, path |-> <<>>, lost |-> FALSE]
                /\ \A n \in 0..(MaxPathDepth - 1) : C[n + 1] = Up(ds, C[n])
                /\ Chain(ds, from) =
                     {s.path : s \in {t \in {C[MaxPathDepth]} : t.at = RootFileIndex /\ ~t.lost}}
<1> DEFINE N == MaxPathDepth
           first == [at |-> from, path |-> <<>>, lost |-> FALSE]
           F(h) == [depth \in 0..N |-> IF depth = 0 THEN {first} ELSE {Up(ds, s) : s \in h[depth - 1]}]
           above == CHOOSE h : h = F(h)
           Walk(n, c) == c[0] = first /\ \A k \in 0..(n - 1) : c[k + 1] = Up(ds, c[k])
           T == {n \in Nat : \E c : Walk(n, c)}
<1>1. N \in Nat
  BY DEF MaxPathDepth
<1>2. Chain(ds, from) = {s.path : s \in {t \in above[N] : t.at = RootFileIndex /\ ~t.lost}}
  BY DEF Chain
<1> HIDE DEF N, first
<1>3. 0 \in T
  <2>1. Walk(0, [k \in {0} |-> first])
    OBVIOUS
  <2> QED
    BY <2>1
<1>4. ASSUME NEW n \in Nat, n \in T PROVE n + 1 \in T
  <2>1. PICK c : Walk(n, c)
    BY <1>4
  <2> DEFINE e == [k \in 0..(n + 1) |-> IF k <= n THEN c[k] ELSE Up(ds, c[n])]
  <2>2. e[0] = first
    BY <2>1
  <2>3. ASSUME NEW k \in 0..n PROVE e[k + 1] = Up(ds, e[k])
    <3>1. CASE k = n
      <4>1. e[k + 1] = Up(ds, c[n]) /\ e[k] = c[n]
        BY <3>1
      <4> QED
        BY <4>1
    <3>2. CASE k < n
      <4>1. k \in 0..(n - 1) /\ e[k + 1] = c[k + 1] /\ e[k] = c[k]
        BY <3>2
      <4> QED
        BY <4>1, <2>1
    <3> QED
      BY <3>1, <3>2
  <2>4. Walk(n + 1, e)
    <3> HIDE DEF e
    <3> QED
      BY <2>2, <2>3
  <2> HIDE DEF e, Walk
  <2> QED
    BY <2>4
<1>5. PICK C : Walk(N, C)
  <2> HIDE DEF T, Walk
  <2>1. N \in T
    BY <1>1, <1>3, <1>4, NumbersUpto
  <2> QED
    BY <2>1 DEF T
<1>6. above = F(above)
  <2> DEFINE h == [depth \in 0..N |-> {C[depth]}]
  <2>1. ASSUME NEW d \in 0..N PROVE h[d] = IF d = 0 THEN {first} ELSE {Up(ds, s) : s \in h[d - 1]}
    <3>1. CASE d = 0
      BY <3>1, <1>5
    <3>2. CASE d # 0
      <4>1. d - 1 \in 0..(N - 1) /\ d - 1 \in 0..N /\ (d - 1) + 1 = d
        BY <3>2, <1>1
      <4>2. h[d - 1] = {C[d - 1]} /\ C[d] = Up(ds, C[d - 1])
        BY <4>1, <1>5
      <4>3. h[d] = {C[d]}
        OBVIOUS
      <4> HIDE DEF h
      <4> QED
        BY <3>2, <4>2, <4>3
    <3> QED
      BY <3>1, <3>2
  <2>2. h = F(h)
    BY <2>1
  <2> HIDE DEF h, F
  <2> QED
    BY <2>2
<1> HIDE DEF above
<1>7. \A d \in 0..N : above[d] = IF d = 0 THEN {first} ELSE {Up(ds, s) : s \in above[d - 1]}
  BY <1>6
<1>8. above[N] = {C[N]}
  <2> DEFINE U == {n \in Nat : n <= N => above[n] = {C[n]}}
  <2>1. 0 \in U
    <3>1. 0 \in 0..N /\ C[0] = first
      BY <1>1, <1>5
    <3>2. above[0] = {first}
      BY <1>7, <3>1
    <3> QED
      BY <3>1, <3>2
  <2>2. ASSUME NEW n \in Nat, n < N, n \in U PROVE n + 1 \in U
    <3>1. n + 1 \in 0..N /\ n \in 0..(N - 1) /\ (n + 1) - 1 = n /\ n + 1 # 0
      BY <2>2, <1>1
    <3>2. above[n + 1] = {Up(ds, s) : s \in above[n]}
      BY <3>1, <1>7
    <3>3. above[n] = {C[n]}
      BY <1>1, <2>2
    <3>4. C[n + 1] = Up(ds, C[n])
      BY <3>1, <1>5
    <3>5. above[n + 1] = {C[n + 1]}
      BY <3>2, <3>3, <3>4
    <3> QED
      BY <3>5, <2>2
  <2> HIDE DEF U
  <2>3. N \in U
    BY <1>1, <2>1, <2>2, NumbersUpto
  <2> QED
    BY <2>3 DEF U
<1> QED
  BY <1>2, <1>5, <1>8 DEF N, first

\* The way on the disk, step by step.
LEMMA WaySteps ==
  ASSUME NEW mft, NEW from
  PROVE  \E W : /\ W[0] = [at |-> from, path |-> <<>>, passed |-> {}]
                /\ \A n \in 0..(MaxPathDepth - 1) : W[n + 1] = TrueUp(mft, W[n])
                /\ Way(mft, from) = W[MaxPathDepth]
<1> DEFINE N == MaxPathDepth
           first == [at |-> from, path |-> <<>>, passed |-> {}]
           F(h) == [depth \in 0..N |-> IF depth = 0 THEN {first} ELSE {TrueUp(mft, s) : s \in h[depth - 1]}]
           above == CHOOSE h : h = F(h)
           Walk(n, c) == c[0] = first /\ \A k \in 0..(n - 1) : c[k + 1] = TrueUp(mft, c[k])
           T == {n \in Nat : \E c : Walk(n, c)}
<1>1. N \in Nat
  BY DEF MaxPathDepth
<1>2. Way(mft, from) = CHOOSE s \in above[N] : TRUE
  BY DEF Way
<1> HIDE DEF N, first
<1>3. 0 \in T
  <2>1. Walk(0, [k \in {0} |-> first])
    OBVIOUS
  <2> QED
    BY <2>1
<1>4. ASSUME NEW n \in Nat, n \in T PROVE n + 1 \in T
  <2>1. PICK c : Walk(n, c)
    BY <1>4
  <2> DEFINE e == [k \in 0..(n + 1) |-> IF k <= n THEN c[k] ELSE TrueUp(mft, c[n])]
  <2>2. e[0] = first
    BY <2>1
  <2>3. ASSUME NEW k \in 0..n PROVE e[k + 1] = TrueUp(mft, e[k])
    <3>1. CASE k = n
      <4>1. e[k + 1] = TrueUp(mft, c[n]) /\ e[k] = c[n]
        BY <3>1
      <4> QED
        BY <4>1
    <3>2. CASE k < n
      <4>1. k \in 0..(n - 1) /\ e[k + 1] = c[k + 1] /\ e[k] = c[k]
        BY <3>2
      <4> QED
        BY <4>1, <2>1
    <3> QED
      BY <3>1, <3>2
  <2>4. Walk(n + 1, e)
    <3> HIDE DEF e
    <3> QED
      BY <2>2, <2>3
  <2> HIDE DEF e, Walk
  <2> QED
    BY <2>4
<1>5. PICK W : Walk(N, W)
  <2> HIDE DEF T, Walk
  <2>1. N \in T
    BY <1>1, <1>3, <1>4, NumbersUpto
  <2> QED
    BY <2>1 DEF T
<1>6. above = F(above)
  <2> DEFINE h == [depth \in 0..N |-> {W[depth]}]
  <2>1. ASSUME NEW d \in 0..N PROVE h[d] = IF d = 0 THEN {first} ELSE {TrueUp(mft, s) : s \in h[d - 1]}
    <3>1. CASE d = 0
      BY <3>1, <1>5
    <3>2. CASE d # 0
      <4>1. d - 1 \in 0..(N - 1) /\ d - 1 \in 0..N /\ (d - 1) + 1 = d
        BY <3>2, <1>1
      <4>2. h[d - 1] = {W[d - 1]} /\ W[d] = TrueUp(mft, W[d - 1])
        BY <4>1, <1>5
      <4>3. h[d] = {W[d]}
        OBVIOUS
      <4> HIDE DEF h
      <4> QED
        BY <3>2, <4>2, <4>3
    <3> QED
      BY <3>1, <3>2
  <2>2. h = F(h)
    BY <2>1
  <2> HIDE DEF h, F
  <2> QED
    BY <2>2
<1> HIDE DEF above
<1>7. \A d \in 0..N : above[d] = IF d = 0 THEN {first} ELSE {TrueUp(mft, s) : s \in above[d - 1]}
  BY <1>6
<1>8. above[N] = {W[N]}
  <2> DEFINE U == {n \in Nat : n <= N => above[n] = {W[n]}}
  <2>1. 0 \in U
    <3>1. 0 \in 0..N /\ W[0] = first
      BY <1>1, <1>5
    <3>2. above[0] = {first}
      BY <1>7, <3>1
    <3> QED
      BY <3>1, <3>2
  <2>2. ASSUME NEW n \in Nat, n < N, n \in U PROVE n + 1 \in U
    <3>1. n + 1 \in 0..N /\ n \in 0..(N - 1) /\ (n + 1) - 1 = n /\ n + 1 # 0
      BY <2>2, <1>1
    <3>2. above[n + 1] = {TrueUp(mft, s) : s \in above[n]}
      BY <3>1, <1>7
    <3>3. above[n] = {W[n]}
      BY <1>1, <2>2
    <3>4. W[n + 1] = TrueUp(mft, W[n])
      BY <3>1, <1>5
    <3>5. above[n + 1] = {W[n + 1]}
      BY <3>2, <3>3, <3>4
    <3> QED
      BY <3>5, <2>2
  <2> HIDE DEF U
  <2>3. N \in U
    BY <1>1, <2>1, <2>2, NumbersUpto
  <2> QED
    BY <2>3 DEF U
<1> QED
  BY <1>2, <1>5, <1>8 DEF N, first
-----------------------------------------------------------------------------
(* What the chain of the records that were kept has to do with the way on  *)
(* the disk.                                                               *)

\* A step up the disk, and where a climb can go no further: no directory has the index,
\* or it is its own parent.
IsStep(s) ==
  /\ s = [at |-> s.at, path |-> s.path, passed |-> s.passed]
  /\ s.at = [index |-> s.at.index, seq |-> s.at.seq]
IsRef(ref) == ref = [index |-> ref.index, seq |-> ref.seq]
Stuck(mft, i) ==
  /\ i # RootFileIndex.index
  /\ \A d \in mft : d.dir /\ d.ref.index = i => d.parent.index = i

\* Two references of one index are one file.
LEMMA IndexIsIdentity ==
  ASSUME NEW a, NEW b, IsRef(a), IsRef(b)
  PROVE  /\ MftIndex(a) = MftIndex(b) <=> a.index = b.index
         /\ MftIndex(a) = RootFileIndex <=> a.index = RootFileIndex.index
         /\ MftIndex(a) = [index |-> a.index, seq |-> 0]
<1>1. MftIndex(a) = [index |-> a.index, seq |-> 0]
  <2>1. [a EXCEPT !.seq = 0] = [[index |-> a.index, seq |-> a.seq] EXCEPT !.seq = 0]
    BY DEF IsRef
  <2>2. [[index |-> a.index, seq |-> a.seq] EXCEPT !.seq = 0] = [index |-> a.index, seq |-> 0]
    OBVIOUS
  <2> QED
    BY <2>1, <2>2 DEF MftIndex
<1>2. MftIndex(b) = [index |-> b.index, seq |-> 0]
  <2>1. [b EXCEPT !.seq = 0] = [[index |-> b.index, seq |-> b.seq] EXCEPT !.seq = 0]
    BY DEF IsRef
  <2>2. [[index |-> b.index, seq |-> b.seq] EXCEPT !.seq = 0] = [index |-> b.index, seq |-> 0]
    OBVIOUS
  <2> QED
    BY <2>1, <2>2 DEF MftIndex
<1>3. RootFileIndex = [index |-> 5, seq |-> 0] /\ RootFileIndex.index = 5
  BY DEF RootFileIndex
<1> QED
  BY <1>1, <1>2, <1>3

\* One step up the disk.
GoesUp(mft, s, next) ==
  \E d \in mft : /\ d.dir /\ d.ref.index = s.at.index /\ d.parent.index # s.at.index
                /\ next = [at |-> d.parent, path |-> <<d.name>> \o s.path,
                           passed |-> s.passed \cup {d.ref}]

LEMMA TrueStep ==
  ASSUME NEW mft, IsMft(mft), NEW s, IsStep(s)
  PROVE  /\ IsStep(TrueUp(mft, s))
         /\ s.passed \subseteq TrueUp(mft, s).passed
         /\ Stuck(mft, s.at.index) => TrueUp(mft, s).at.index = s.at.index
         /\ s.at.index = RootFileIndex.index => TrueUp(mft, s) = s
         /\ s.at.index # RootFileIndex.index /\ ~Stuck(mft, s.at.index) =>
              GoesUp(mft, s, TrueUp(mft, s))
<1> DEFINE parents == {d \in mft : d.dir /\ d.ref.index = s.at.index}
           d0 == CHOOSE q \in parents : TRUE
           up == [at |-> d0.parent, path |-> <<d0.name>> \o s.path, passed |-> s.passed \cup {d0.ref}]
<1>1. TrueUp(mft, s) = IF s.at.index = RootFileIndex.index \/ parents = {} THEN s ELSE up
  BY DEF TrueUp
<1>2. CASE s.at.index = RootFileIndex.index \/ parents = {}
  BY <1>1, <1>2 DEF Stuck, GoesUp
<1>3. CASE s.at.index # RootFileIndex.index /\ parents # {}
  <2>1. d0 \in parents
    BY <1>3
  <2> HIDE DEF d0
  <2>2. d0 \in mft /\ d0.dir /\ d0.ref.index = s.at.index
    BY <2>1
  <2>3. d0.parent = [index |-> d0.parent.index, seq |-> d0.parent.seq]
    BY <2>2 DEF IsMft
  <2>4. /\ up.at = d0.parent /\ up.passed = s.passed \cup {d0.ref}
        /\ up = [at |-> up.at, path |-> up.path, passed |-> up.passed]
    OBVIOUS
  <2>5. ASSUME NEW d \in parents PROVE d = d0
    <3>1. d \in mft /\ d.ref.index = d0.ref.index
      BY <2>2
    <3>2. \A x, y \in mft : y.ref.index = x.ref.index => y = x
      BY DEF IsMft
    <3> QED
      BY <2>2, <3>1, <3>2
  <2>6. TrueUp(mft, s) = up
    BY <1>1, <1>3
  <2>7. IsStep(up)
    BY <2>3, <2>4 DEF IsStep
  <2>8. Stuck(mft, s.at.index) => d0.parent.index = s.at.index
    BY <2>2 DEF Stuck
  <2>9. ~Stuck(mft, s.at.index) => d0.parent.index # s.at.index
    BY <2>5, <1>3 DEF Stuck
  <2> QED
    BY <1>3, <2>2, <2>4, <2>6, <2>7, <2>8, <2>9 DEF GoesUp
<1> QED
  BY <1>2, <1>3

\* A step of the way as the chain sees it, without the sequence number.
Seen(s) == [at |-> MftIndex(s.at), path |-> s.path, lost |-> FALSE]

\* Where the directories on the way were kept as they are, the chain leads along it.
LEMMA ChainIsWay ==
  ASSUME NEW mft, IsMft(mft), NEW ds, NEW from, IsRef(from),
         Way(mft, from).at.index = RootFileIndex.index,
         \A d \in mft : d.dir /\ d.ref \in Way(mft, from).passed =>
            /\ MftIndex(d.ref) \in DOMAIN ds
            /\ ds[MftIndex(d.ref)].name = d.name /\ ds[MftIndex(d.ref)].parent = d.parent
  PROVE  Chain(ds, MftIndex(from)) = {Way(mft, from).path}
<1> DEFINE N == MaxPathDepth
<1>0. N \in Nat
  BY DEF MaxPathDepth
<1>1. PICK W : /\ W[0] = [at |-> from, path |-> <<>>, passed |-> {}]
               /\ \A n \in 0..(N - 1) : W[n + 1] = TrueUp(mft, W[n])
               /\ Way(mft, from) = W[N]
  BY WaySteps
<1>2. PICK C : /\ C[0] = [at |-> MftIndex(from), path |-> <<>>, lost |-> FALSE]
               /\ \A n \in 0..(N - 1) : C[n + 1] = Up(ds, C[n])
               /\ Chain(ds, MftIndex(from)) =
                    {s.path : s \in {t \in {C[N]} : t.at = RootFileIndex /\ ~t.lost}}
  BY ChainSteps
<1> HIDE DEF N
<1>3. \A n \in 0..N : IsStep(W[n])
  <2> DEFINE U == {n \in Nat : IsStep(W[n])}
  <2>1. 0 \in U
    BY <1>1 DEF IsStep, IsRef
  <2>2. ASSUME NEW n \in Nat, n < N, n \in U PROVE n + 1 \in U
    <3>1. n \in 0..(N - 1)
      BY <1>0, <2>2
    <3> QED
      BY <3>1, <1>1, <2>2, TrueStep
  <2> HIDE DEF U
  <2>3. 0..N \subseteq U
    BY <1>0, <2>1, <2>2, NumbersUpto
  <2> QED
    BY <2>3 DEF U
\* Seen from the top: nothing is passed that the whole way does not pass, and no climb
\* that reaches the root was stuck before.
<1>4. \A n \in 0..N : W[n].passed \subseteq W[N].passed /\ ~Stuck(mft, W[n].at.index)
  <2> DEFINE U == {k \in Nat : k <= N => /\ W[N - k].passed \subseteq W[N].passed
                                         /\ ~Stuck(mft, W[N - k].at.index)}
  <2>1. 0 \in U
    <3>1. N - 0 = N
      BY <1>0
    <3>2. ~Stuck(mft, W[N].at.index)
      BY <1>1 DEF Stuck
    <3> QED
      BY <3>1, <3>2
  <2>2. ASSUME NEW k \in Nat, k < N, k \in U PROVE k + 1 \in U
    <3> DEFINE m == N - (k + 1)
    <3>1. m \in 0..(N - 1) /\ m \in 0..N /\ m + 1 = N - k
      BY <1>0, <2>2
    <3>2. W[N - k].passed \subseteq W[N].passed /\ ~Stuck(mft, W[N - k].at.index)
      BY <1>0, <2>2
    <3> HIDE DEF m
    <3>3. W[m + 1] = TrueUp(mft, W[m]) /\ IsStep(W[m])
      BY <3>1, <1>1, <1>3
    <3>4. /\ W[m].passed \subseteq W[m + 1].passed
          /\ Stuck(mft, W[m].at.index) => W[m + 1].at.index = W[m].at.index
      BY <3>3, TrueStep
    <3>5. W[m].passed \subseteq W[N].passed /\ ~Stuck(mft, W[m].at.index)
      BY <3>1, <3>2, <3>4
    <3> QED
      BY <3>5 DEF m
  <2> HIDE DEF U
  <2>3. 0..N \subseteq U
    BY <1>0, <2>1, <2>2, NumbersUpto
  <2> TAKE n \in 0..N
  <2>4. N - n \in 0..N /\ N - n \in Nat /\ N - (N - n) = n /\ N - n <= N
    BY <1>0
  <2>5. N - n \in U
    BY <2>3, <2>4
  <2> QED
    BY <2>4, <2>5 DEF U
<1>5. \A n \in 0..N : C[n] = Seen(W[n])
  <2> DEFINE U == {n \in Nat : C[n] = Seen(W[n])}
  <2>1. 0 \in U
    <3>1. W[0].at = from /\ W[0].path = <<>>
      BY <1>1
    <3> QED
      BY <3>1, <1>2 DEF Seen
  <2>2. ASSUME NEW n \in Nat, n < N, n \in U PROVE n + 1 \in U
    <3>1. n \in 0..(N - 1) /\ n \in 0..N /\ n + 1 \in 0..N
      BY <1>0, <2>2
    <3>2. C[n + 1] = Up(ds, Seen(W[n])) /\ W[n + 1] = TrueUp(mft, W[n])
      BY <3>1, <1>1, <1>2, <2>2
    <3>3. IsStep(W[n]) /\ IsRef(W[n].at) /\ ~Stuck(mft, W[n].at.index)
      BY <3>1, <1>3, <1>4 DEF IsStep, IsRef
    <3>4. CASE W[n].at.index = RootFileIndex.index
      <4>1. W[n + 1] = W[n]
        BY <3>2, <3>3, <3>4, TrueStep
      <4>2. MftIndex(W[n].at) = RootFileIndex
        BY <3>3, <3>4, IndexIsIdentity
      <4>3. Seen(W[n]).at = MftIndex(W[n].at)
        BY DEF Seen
      <4>4. Up(ds, Seen(W[n])) = Seen(W[n])
        BY <4>2, <4>3 DEF Up
      <4>5. C[n + 1] = Seen(W[n + 1])
        BY <3>2, <4>1, <4>4
      <4> QED
        BY <4>5
    <3>5. CASE W[n].at.index # RootFileIndex.index
      <4>1. PICK d \in mft :
              /\ d.dir /\ d.ref.index = W[n].at.index /\ d.parent.index # W[n].at.index
              /\ W[n + 1] = [at |-> d.parent, path |-> <<d.name>> \o W[n].path,
                             passed |-> W[n].passed \cup {d.ref}]
        <5>1. GoesUp(mft, W[n], W[n + 1])
          BY <3>2, <3>3, <3>5, TrueStep
        <5> QED
          BY <5>1 DEF GoesUp
      <4>2. IsRef(d.ref) /\ IsRef(d.parent)
        BY DEF IsMft, IsRef
      <4>3. /\ W[n + 1].at = d.parent /\ W[n + 1].path = <<d.name>> \o W[n].path
            /\ d.ref \in W[n + 1].passed
        BY <4>1
      <4>4. d.ref \in Way(mft, from).passed
        BY <4>3, <3>1, <1>1, <1>4
      <4>5. MftIndex(d.ref) = MftIndex(W[n].at) /\ MftIndex(W[n].at) # RootFileIndex
            /\ MftIndex(d.parent) # MftIndex(W[n].at)
        BY <3>3, <3>5, <4>1, <4>2, IndexIsIdentity
      <4>6. /\ MftIndex(W[n].at) \in DOMAIN ds
            /\ ds[MftIndex(W[n].at)].name = d.name /\ ds[MftIndex(W[n].at)].parent = d.parent
        BY <4>1, <4>4, <4>5
      <4>7. /\ Seen(W[n]).at = MftIndex(W[n].at) /\ Seen(W[n]).path = W[n].path
            /\ Seen(W[n]).lost = FALSE
        BY DEF Seen
      <4>8. Up(ds, Seen(W[n])) = [at |-> MftIndex(d.parent), path |-> <<d.name>> \o W[n].path,
                                  lost |-> FALSE]
        BY <4>5, <4>6, <4>7 DEF Up
      <4>9. C[n + 1] = Seen(W[n + 1])
        <5>1. Seen(W[n + 1]) = [at |-> MftIndex(d.parent), path |-> <<d.name>> \o W[n].path,
                                lost |-> FALSE]
          BY <4>3 DEF Seen
        <5> QED
          BY <3>2, <4>8, <5>1
      <4> QED
        BY <4>9
    <3> QED
      BY <3>4, <3>5
  <2> HIDE DEF U
  <2>3. 0..N \subseteq U
    BY <1>0, <2>1, <2>2, NumbersUpto
  <2> QED
    BY <2>3 DEF U
<1>6. N \in 0..N
  BY <1>0
<1>7. IsRef(W[N].at)
  BY <1>3, <1>6 DEF IsStep, IsRef
<1>8. MftIndex(W[N].at) = RootFileIndex
  BY <1>1, <1>7, IndexIsIdentity
<1>9. C[N].at = RootFileIndex /\ ~C[N].lost /\ C[N].path = W[N].path
  <2>1. C[N] = Seen(W[N])
    BY <1>5, <1>6
  <2> QED
    BY <2>1, <1>8 DEF Seen
<1> QED
  BY <1>1, <1>2, <1>9

-----------------------------------------------------------------------------
(* Volumes and batches.                                                    *)

VolumeNames(s) == Range(s) \cup {"C"}

LEMMA VolumesAreListed ==
  ASSUME NEW s \in Specs
  PROVE  ParseVolumes(s) \in Seq(VolumeNames(s))
<1> DEFINE N == Len(s)
           S == VolumeNames(s)
           next(n, out) == IF s[n] \in Range(out) THEN out ELSE Append(out, s[n])
           F(h) == [n \in 0..N |-> IF n = 0 THEN <<>> ELSE next(n, h[n - 1])]
           out == CHOOSE h : h = F(h)
           Walk(n, h) == h[0] = <<>> /\ \A k \in 0..(n - 1) : h[k + 1] = next(k + 1, h[k])
           T == {n \in Nat : \E h : Walk(n, h)}
<1>1. N \in Nat /\ \A n \in 1..N : s[n] \in S
  <2>1. s \in Seq(Range(s))
    BY DiskConstants
  <2>2. \A n \in 1..Len(s) : s[n] \in Range(s)
    BY <2>1
  <2> QED
    BY <2>1, <2>2 DEF VolumeNames
<1>2. ParseVolumes(s) = IF s = <<>> THEN <<"C">> ELSE out[N]
  BY DEF ParseVolumes
<1> HIDE DEF N, next
<1>3. 0 \in T
  <2>1. Walk(0, [k \in {0} |-> <<>>])
    OBVIOUS
  <2> QED
    BY <2>1
<1>4. ASSUME NEW n \in Nat, n \in T PROVE n + 1 \in T
  <2>1. PICK c : Walk(n, c)
    BY <1>4
  <2> DEFINE e == [k \in 0..(n + 1) |-> IF k <= n THEN c[k] ELSE next(n + 1, c[n])]
  <2>2. e[0] = <<>>
    BY <2>1
  <2>3. ASSUME NEW k \in 0..n PROVE e[k + 1] = next(k + 1, e[k])
    <3>1. CASE k = n
      <4>1. e[k + 1] = next(n + 1, c[n]) /\ e[k] = c[n]
        BY <3>1
      <4> QED
        BY <3>1, <4>1
    <3>2. CASE k < n
      <4>1. k \in 0..(n - 1) /\ e[k + 1] = c[k + 1] /\ e[k] = c[k]
        BY <3>2
      <4> QED
        BY <4>1, <2>1
    <3> QED
      BY <3>1, <3>2
  <2>4. Walk(n + 1, e)
    <3> HIDE DEF e
    <3> QED
      BY <2>2, <2>3
  <2> HIDE DEF e, Walk
  <2> QED
    BY <2>4
<1>5. PICK C : Walk(N, C)
  <2> HIDE DEF T, Walk
  <2>1. N \in T
    BY <1>1, <1>3, <1>4, NumbersUpto
  <2> QED
    BY <2>1 DEF T
<1>6. out = F(out)
  <2> DEFINE h == [n \in 0..N |-> C[n]]
  <2>1. ASSUME NEW d \in 0..N PROVE h[d] = IF d = 0 THEN <<>> ELSE next(d, h[d - 1])
    <3>1. CASE d = 0
      BY <3>1, <1>5
    <3>2. CASE d # 0
      <4>1. d - 1 \in 0..(N - 1) /\ d - 1 \in 0..N /\ (d - 1) + 1 = d
        BY <3>2, <1>1
      <4>2. h[d - 1] = C[d - 1] /\ C[d] = next(d, C[d - 1])
        BY <4>1, <1>5
      <4>3. h[d] = C[d]
        OBVIOUS
      <4> HIDE DEF h
      <4> QED
        BY <3>2, <4>2, <4>3
    <3> QED
      BY <3>1, <3>2
  <2>2. h = F(h)
    BY <2>1
  <2> HIDE DEF h, F
  <2> QED
    BY <2>2
<1> HIDE DEF out
<1>7. \A d \in 0..N : out[d] = IF d = 0 THEN <<>> ELSE next(d, out[d - 1])
  BY <1>6
<1>8. out[N] \in Seq(S)
  <2> DEFINE U == {n \in Nat : n <= N => out[n] \in Seq(S)}
  <2>1. 0 \in U
    <3>1. 0 \in 0..N
      BY <1>1
    <3>2. out[0] = <<>>
      BY <1>7, <3>1
    <3>3. <<>> \in Seq(S)
      <4> HIDE DEF S
      <4> QED
        OBVIOUS
    <3> QED
      BY <3>2, <3>3
  <2>2. ASSUME NEW n \in Nat, n < N, n \in U PROVE n + 1 \in U
    <3>1. n + 1 \in 0..N /\ n + 1 \in 1..N /\ (n + 1) - 1 = n /\ n + 1 # 0
      BY <2>2, <1>1
    <3>2. out[n + 1] = next(n + 1, out[n])
      BY <3>1, <1>7
    <3>3. out[n] \in Seq(S) /\ s[n + 1] \in S
      BY <2>2, <1>1, <3>1
    <3>4. out[n + 1] \in Seq(S)
      BY <3>2, <3>3 DEF next
    <3> QED
      BY <3>4
  <2> HIDE DEF U
  <2>3. N \in U
    BY <1>1, <2>1, <2>2, NumbersUpto
  <2> QED
    BY <2>3 DEF U
<1>9. <<"C">> \in Seq(S)
  <2>1. "C" \in S
    BY DEF VolumeNames
  <2> HIDE DEF S
  <2> QED
    BY <2>1
<1> QED
  BY <1>2, <1>8, <1>9

\* One answer of the kernel: the records from the cursor on to the next, and none else.
LEMMA BatchIsNext ==
  ASSUME NEW mft, IsMft(mft), NEW from \in Nat, NEW n \in Nat \ {0}
  PROVE  LET batch == RecordsFrom(mft, from, n)
         IN  /\ batch \subseteq mft /\ \A s \in batch : s.ref.index >= from
             /\ batch = {} => \A s \in mft : s.ref.index < from
             /\ batch # {} => /\ NextCursor(batch) \in Nat
                              /\ \A s \in mft : s.ref.index < NextCursor(batch) =>
                                                  s.ref.index < from \/ s \in batch
<1> DEFINE left == {r \in mft : r.ref.index >= from}
           below(i) == {r \in left : r.ref.index < i}
           batch == RecordsFrom(mft, from, n)
<1>1. batch = {r \in left : Cardinality(below(r.ref.index)) < n}
  BY DEF RecordsFrom
<1>2. IsFiniteSet(mft) /\ \A r \in mft : r.ref.index \in Nat
  BY DEF IsMft
<1>3. \A i : IsFiniteSet(below(i))
  BY <1>2, FS_Subset
<1> HIDE DEF batch
<1>4. ASSUME batch = {}, NEW s \in mft, ~(s.ref.index < from) PROVE FALSE
  <2> DEFINE I == {r.ref.index : r \in left}
  <2>1. s \in left
    BY <1>2, <1>4
  <2>2. I \subseteq Nat /\ I # {}
    BY <1>2, <2>1
  <2>3. PICK i \in I : \A j \in I : i <= j
    BY <2>2, LeastNumber
  <2>4. PICK r \in left : r.ref.index = i
    BY <2>3
  <2>5. below(r.ref.index) = {}
    <3> SUFFICES ASSUME NEW q \in left, q.ref.index < i PROVE FALSE
      BY <2>4
    <3>1. q.ref.index \in I /\ q.ref.index \in Nat /\ i \in Nat
      BY <1>2, <2>2, <2>3
    <3> HIDE DEF I
    <3> QED
      BY <3>1, <2>3
  <2>6. Cardinality(below(r.ref.index)) = 0
    BY <2>5, FS_EmptySet
  <2> QED
    BY <1>1, <1>4, <2>4, <2>6
<1>5. ASSUME batch # {}
      PROVE  /\ NextCursor(batch) \in Nat
             /\ \A s \in mft : s.ref.index < NextCursor(batch) => s.ref.index < from \/ s \in batch
  <2> DEFINE I == {r.ref.index : r \in batch}
  <2>1. batch \subseteq mft /\ IsFiniteSet(batch)
    BY <1>1, <1>2, FS_Subset
  <2>2. I \subseteq Nat /\ I # {}
    BY <1>2, <1>5, <2>1
  <2>3. IsFiniteSet(I)
    <3> DEFINE f == [r \in batch |-> r.ref.index]
    <3>1. f \in Surjection(batch, I)
      BY DEF Surjection
    <3> QED
      BY <2>1, <3>1, FS_Surjection
  <2>4. Max(I) \in I /\ \A j \in I : Max(I) >= j
    BY <2>2, <2>3, GreatestNumber
  <2>5. NextCursor(batch) = 1 + Max(I)
    BY DEF NextCursor
  <2> HIDE DEF I
  <2>6. NextCursor(batch) \in Nat
    <3>1. Max(I) \in Nat
      BY <2>2, <2>4
    <3> QED
      BY <2>5, <3>1
  <2> SUFFICES ASSUME NEW s \in mft, s.ref.index < NextCursor(batch), ~(s.ref.index < from)
               PROVE  s \in batch
    BY <2>6
  <2>7. PICK r \in batch : r.ref.index = Max(I)
    BY <2>4 DEF I
  <2>8. s.ref.index <= r.ref.index /\ s \in left
    BY <1>2, <2>1, <2>2, <2>4, <2>5, <2>7
  <2>9. below(s.ref.index) \subseteq below(r.ref.index)
    BY <1>2, <2>1, <2>8
  <2>10. Cardinality(below(s.ref.index)) <= Cardinality(below(r.ref.index))
    BY <1>3, <2>9, FS_Subset
  <2>11. Cardinality(below(s.ref.index)) \in Nat /\ Cardinality(below(r.ref.index)) \in Nat
    BY <1>3, FS_CardinalityType
  <2>12. Cardinality(below(r.ref.index)) < n
    BY <1>1, <2>7
  <2> HIDE DEF below
  <2> QED
    BY <1>1, <2>8, <2>10, <2>11, <2>12
<1>6. batch \subseteq mft /\ \A s \in batch : s.ref.index >= from
  BY <1>1
<1> QED
  BY <1>4, <1>5, <1>6 DEF batch

\* The directories of a batch are kept as they are, and none other is changed.
LEMMA DirsAreKept ==
  ASSUME NEW mft, IsMft(mft), NEW ds, NEW batch, batch \subseteq mft, NEW s \in mft
  PROVE  LET new == WithDirs(ds, batch)
         IN  /\ s \in batch /\ s.dir => /\ MftIndex(s.ref) \in DOMAIN new
                                        /\ new[MftIndex(s.ref)].name = s.name
                                        /\ new[MftIndex(s.ref)].parent = s.parent
             /\ s \notin batch /\ MftIndex(s.ref) \in DOMAIN ds =>
                  /\ MftIndex(s.ref) \in DOMAIN new
                  /\ new[MftIndex(s.ref)] = ds[MftIndex(s.ref)]
<1> DEFINE new == {r \in batch : r.dir}
           key == {MftIndex(r.ref) : r \in new}
           at(i) == CHOOSE r \in new : MftIndex(r.ref) = i
           i0 == MftIndex(s.ref)
<1>1. WithDirs(ds, batch) =
        [i \in DOMAIN ds \cup key |->
           IF i \in key THEN [name |-> at(i).name, parent |-> at(i).parent] ELSE ds[i]]
  BY DEF WithDirs
<1>2. ASSUME NEW r \in batch, MftIndex(r.ref) = i0 PROVE r = s
  <2>1. r \in mft /\ IsRef(r.ref) /\ IsRef(s.ref)
    BY DEF IsMft, IsRef
  <2>2. r.ref.index = s.ref.index
    BY <1>2, <2>1, IndexIsIdentity
  <2>3. \A x, y \in mft : y.ref.index = x.ref.index => y = x
    BY DEF IsMft
  <2> QED
    BY <2>1, <2>2, <2>3
<1>3. CASE s \in batch /\ s.dir
  <2>1. s \in new /\ i0 \in key
    BY <1>3
  <2>2. at(i0) \in new /\ MftIndex(at(i0).ref) = i0
    BY <2>1
  <2>3. at(i0) = s
    BY <1>2, <2>2
  <2> HIDE DEF key, at, i0
  <2>4. /\ i0 \in DOMAIN WithDirs(ds, batch)
        /\ WithDirs(ds, batch)[i0] = [name |-> at(i0).name, parent |-> at(i0).parent]
    BY <1>1, <2>1
  <2> QED
    BY <1>3, <2>3, <2>4 DEF i0
<1>4. CASE s \notin batch /\ i0 \in DOMAIN ds
  <2>1. i0 \notin key
    BY <1>2, <1>4
  <2> HIDE DEF key, at, i0
  <2>2. i0 \in DOMAIN WithDirs(ds, batch) /\ WithDirs(ds, batch)[i0] = ds[i0]
    BY <1>1, <1>4, <2>1
  <2> QED
    BY <1>4, <2>2 DEF i0
<1> QED
  BY <1>3, <1>4
-----------------------------------------------------------------------------
(* What a full scan has seen.                                              *)

\* TruePath and Untouched of a table, with what was touched of it.
PathOn(mft, v, r) == <<v>> \o Way(mft, r.parent).path \o <<r.name>>
QuietOn(mft, moved, v, r) ==
  /\ ~r.dir /\ Way(mft, r.parent).at.index = RootFileIndex.index
  /\ \A ref \in Way(mft, r.parent).passed \cup {r.ref} : <<v, ref>> \notin moved

\* Every file of a volume that nobody touched is found, as what it is.
FoundOn(mft, moved, products, v, exes, mans, asked) ==
  \A r \in mft :
    LET p == PathOn(mft, v, r)
    IN  QuietOn(mft, moved, v, r) /\ ~OSOrStoreTerritory(p) =>
          /\ r.name \in ManifestNames => p \in mans
          /\ r.name \in ExecutableNames => p \in exes /\ (p \in asked \/ \E l \in products : IsStrictPrefix(l, p))

DiskOK == Ntfs \subseteq DOMAIN disk /\ \A v \in DOMAIN disk : IsMft(disk[v])
ListOK == spec \in Specs /\ volumes \in Seq(VolumeNames(spec))

\* The record is kept: as a directory on the way of others, and if it is wanted.
KeptIn(ds, wanted, r) ==
  /\ r.dir => /\ MftIndex(r.ref) \in DOMAIN ds
              /\ ds[MftIndex(r.ref)].name = r.name /\ ds[MftIndex(r.ref)].parent = r.parent
  /\ Keep(r) => r \in wanted

\* What lies before the cursor is kept, unless it was touched.
CursorTells ==
  pc = "records" =>
    /\ volumes # <<>> /\ Head(volumes) \in Ntfs /\ cursor \in Nat
    /\ \A r \in disk[Head(volumes)] :
         r.ref.index < cursor /\ <<Head(volumes), r.ref>> \notin touched => KeptIn(dirs, candidates, r)

\* Every volume is still to be read, or reported as not read, or has been seen.
SeenSoFar ==
  fullScan /\ pc \in {"volume", "records"} =>
    \A v \in Range(ParseVolumes(spec)) :
      \/ v \in Range(volumes) \/ res.incomplete
      \/ /\ v \in DOMAIN disk
         /\ FoundOn(disk[v], touched, res.products, v, res.executables, manifests, toOpen)
SeenAtEnd ==
  fullScan /\ (pc \in {"extract", "report", "parse", "assemble", "write"} \/ exit \in {0, 1}) =>
    \A v \in Range(ParseVolumes(spec)) :
      \/ res.incomplete
      \/ /\ v \in DOMAIN disk
         /\ FoundOn(disk[v], touched, res.products, v, res.executables, res.manifests, res.asked)
EndIsHonest == exit = 0 => ~res.incomplete

SightInv == PoolInv /\ DiskOK /\ ListOK /\ CursorTells /\ SeenSoFar /\ SeenAtEnd /\ EndIsHonest

LEMMA SightInit == Init => SightInv
<1> SUFFICES ASSUME Init PROVE SightInv
  OBVIOUS
<1>1. PoolInv
  BY PoolInit
<1>3. DiskOK
  BY DiskConstants DEF Init, DiskOK
<1>4. ListOK
  BY DEF Init, ListOK
<1>5. CursorTells /\ SeenSoFar /\ SeenAtEnd /\ EndIsHonest
  BY DEF Init, CursorTells, SeenSoFar, SeenAtEnd, EndIsHonest, NoResult
<1> QED
  BY <1>1, <1>3, <1>4, <1>5 DEF SightInv

\* More found is no less, and more touched asks for less.
LEMMA FoundGrows ==
  ASSUME NEW mft, NEW v, NEW ps, NEW t1, NEW t2, NEW e1, NEW e2, NEW m1, NEW m2, NEW a1, NEW a2,
         t1 \subseteq t2, e1 \subseteq e2, m1 \subseteq m2, a1 \subseteq a2,
         FoundOn(mft, t1, ps, v, e1, m1, a1)
  PROVE  FoundOn(mft, t2, ps, v, e2, m2, a2)
<1>1. \A r : QuietOn(mft, t2, v, r) => QuietOn(mft, t1, v, r)
  BY DEF QuietOn
<1> QED
  BY <1>1 DEF FoundOn

\* A way is a sequence of names, so the path of a file is not empty.
LEMMA WayIsPath ==
  ASSUME NEW mft, IsMft(mft), NEW from, IsRef(from)
  PROVE  Way(mft, from).path \in Seq({d.name : d \in mft})
<1> DEFINE N == MaxPathDepth
           S == {d.name : d \in mft}
<1>0. N \in Nat
  BY DEF MaxPathDepth
<1>1. PICK W : /\ W[0] = [at |-> from, path |-> <<>>, passed |-> {}]
               /\ \A n \in 0..(N - 1) : W[n + 1] = TrueUp(mft, W[n])
               /\ Way(mft, from) = W[N]
  BY WaySteps
<1> DEFINE U == {n \in Nat : IsStep(W[n]) /\ W[n].path \in Seq(S)}
<1> HIDE DEF N
<1>2. 0 \in U
  <2>1. IsStep(W[0])
    BY <1>1 DEF IsStep, IsRef
  <2>2. W[0].path = <<>>
    BY <1>1
  <2>3. <<>> \in Seq(S)
    BY EmptySeq
  <2> HIDE DEF S
  <2> QED
    BY <2>1, <2>2, <2>3
<1>3. ASSUME NEW n \in Nat, n < N, n \in U PROVE n + 1 \in U
  <2>1. n \in 0..(N - 1)
    BY <1>0, <1>3
  <2>2. IsStep(W[n]) /\ W[n].path \in Seq(S) /\ W[n + 1] = TrueUp(mft, W[n])
    BY <2>1, <1>1, <1>3
  <2>3. IsStep(W[n + 1])
    BY <2>2, TrueStep
  <2>4. W[n + 1].path \in Seq(S)
    <3>1. W[n + 1] = W[n] \/ \E d \in mft : W[n + 1].path = <<d.name>> \o W[n].path
      BY <2>2, SMTT(30) DEF TrueUp
    <3>2. \A d \in mft : <<d.name>> \o W[n].path \in Seq(S)
      BY <2>2
    <3> QED
      BY <3>1, <3>2, <2>2
  <2> QED
    BY <2>3, <2>4
<1> HIDE DEF U
<1>4. 0..N \subseteq U
  BY <1>0, <1>2, <1>3, NumbersUpto
<1>5. N \in U
  BY <1>4, <1>0
<1> QED
  BY <1>5, <1>1 DEF U

LEMMA NoEmptyPath ==
  ASSUME NEW mft, IsMft(mft), NEW v, NEW r \in mft
  PROVE  PathOn(mft, v, r) # <<>>
<1> DEFINE S == {d.name : d \in mft} \cup {v}
<1>1. Way(mft, r.parent).path \in Seq({d.name : d \in mft})
  BY WayIsPath DEF IsMft, IsRef
<1>2. Way(mft, r.parent).path \in Seq(S)
  BY <1>1
<1>3. <<v>> \in Seq(S) /\ <<r.name>> \in Seq(S)
  OBVIOUS
<1> HIDE DEF S
<1>4. ASSUME NEW p \in Seq(S), NEW a \in Seq(S), NEW b \in Seq(S), Len(a) = 1 PROVE a \o p \o b # <<>>
  <2>1. a \o p \in Seq(S) /\ Len(a \o p) = 1 + Len(p)
    BY <1>4, ConcatProperties, ZenonT(30)
  <2>2. Len(a \o p \o b) = Len(a \o p) + Len(b)
    BY <2>1, ConcatProperties
  <2>3. Len(p) \in Nat /\ Len(b) \in Nat
    OBVIOUS
  <2> QED
    BY <2>1, <2>2, <2>3
<1> QED
  BY <1>2, <1>3, <1>4 DEF PathOn

\* The end of a volume: what was kept leads to every file that nobody touched.
LEMMA VolumeIsFound ==
  ASSUME NEW mft, IsMft(mft), NEW moved, NEW v, NEW ds, NEW wanted, NEW products,
         \A r \in mft : <<v, r.ref>> \notin moved => KeptIn(ds, wanted, r)
  PROVE  LET found == {e \in BuildResult(v, ds, wanted) : e.path # <<>> /\ ~OSOrStoreTerritory(e.path)}
             exes  == {e.path : e \in {f \in found : f.name \in ExecutableNames}}
             mans  == {e.path : e \in {f \in found : f.name \in ManifestNames}}
         IN  FoundOn(mft, moved, products, v, exes, mans, {p \in exes : ~Covers(products, p)})
<1> DEFINE found == {e \in BuildResult(v, ds, wanted) : e.path # <<>> /\ ~OSOrStoreTerritory(e.path)}
           exes  == {e.path : e \in {f \in found : f.name \in ExecutableNames}}
           mans  == {e.path : e \in {f \in found : f.name \in ManifestNames}}
           open == {p \in exes : ~Covers(products, p)}
<1>1. ASSUME NEW r \in mft, QuietOn(mft, moved, v, r), ~OSOrStoreTerritory(PathOn(mft, v, r)),
             r.name \in ExecutableNames \cup ManifestNames
      PROVE  \E e \in found : e.name = r.name /\ e.path = PathOn(mft, v, r)
  <2>1. r \in wanted
    <3>1. Keep(r) /\ <<v, r.ref>> \notin moved
      BY <1>1 DEF QuietOn, Keep
    <3> QED
      BY <3>1 DEF KeptIn
  <2>2. Chain(ds, MftIndex(r.parent)) = {Way(mft, r.parent).path}
    <3>1. IsRef(r.parent) /\ Way(mft, r.parent).at.index = RootFileIndex.index
      BY <1>1 DEF IsMft, IsRef, QuietOn
    <3>2. ASSUME NEW d \in mft, d.dir, d.ref \in Way(mft, r.parent).passed
          PROVE  /\ MftIndex(d.ref) \in DOMAIN ds
                 /\ ds[MftIndex(d.ref)].name = d.name /\ ds[MftIndex(d.ref)].parent = d.parent
      <4>1. <<v, d.ref>> \notin moved
        BY <1>1, <3>2 DEF QuietOn
      <4> QED
        BY <4>1, <3>2 DEF KeptIn
    <3> QED
      BY <3>1, <3>2, ChainIsWay
  <2>3. ResolvePath(v, ds, r.parent, r.name) = PathOn(mft, v, r)
    <3>1. (CHOOSE c \in {Way(mft, r.parent).path} : TRUE) = Way(mft, r.parent).path
      OBVIOUS
    <3> QED
      BY <2>2, <3>1 DEF ResolvePath, PathOn
  <2>4. [name |-> r.name, path |-> ResolvePath(v, ds, r.parent, r.name)] \in BuildResult(v, ds, wanted)
    BY <2>1 DEF BuildResult
  <2>5. PathOn(mft, v, r) # <<>>
    BY NoEmptyPath
  <2> QED
    BY <2>3, <2>4, <2>5, <1>1
<1> HIDE DEF found
<1>2. ASSUME NEW r \in mft, QuietOn(mft, moved, v, r), ~OSOrStoreTerritory(PathOn(mft, v, r))
      PROVE  /\ r.name \in ManifestNames => PathOn(mft, v, r) \in mans
             /\ r.name \in ExecutableNames =>
                  /\ PathOn(mft, v, r) \in exes
                  /\ \/ PathOn(mft, v, r) \in open
                     \/ \E l \in products : IsStrictPrefix(l, PathOn(mft, v, r))
  <2>1. r.name \in ManifestNames => PathOn(mft, v, r) \in mans
    BY <1>1, <1>2
  <2>2. r.name \in ExecutableNames => PathOn(mft, v, r) \in exes
    BY <1>1, <1>2
  <2> QED
    BY <2>1, <2>2 DEF Covers
<1> HIDE DEF exes, mans, open
<1>3. FoundOn(mft, moved, products, v, exes, mans, open)
  BY <1>2 DEF FoundOn
<1> QED
  BY <1>3 DEF exes, mans, open, found

\* The tables stay tables, whatever is deleted or moved.
LEMMA TablesStay ==
  ASSUME NEW mft, IsMft(mft), NEW r \in mft, NEW d \in mft
  PROVE  IsMft(mft \ {r}) /\ IsMft((mft \ {r}) \cup {[r EXCEPT !.parent = d.ref]})
<1> DEFINE q == [r EXCEPT !.parent = d.ref]
           m == mft \ {r}
<1>1. IsFiniteSet(mft) /\ IsFiniteSet(m) /\ IsFiniteSet(m \cup {q})
  <2>1. IsFiniteSet(mft)
    BY DEF IsMft
  <2>2. IsFiniteSet(m)
    BY <2>1, FS_RemoveElement
  <2> QED
    BY <2>1, <2>2, FS_AddElement
<1>2. /\ q = [ref |-> r.ref, parent |-> d.ref, name |-> r.name, dir |-> r.dir]
      /\ r.ref = [index |-> r.ref.index, seq |-> r.ref.seq] /\ r.ref.index \in Nat
      /\ d.ref = [index |-> d.ref.index, seq |-> d.ref.seq]
  <2>1. /\ r = [ref |-> r.ref, parent |-> r.parent, name |-> r.name, dir |-> r.dir]
        /\ r.ref = [index |-> r.ref.index, seq |-> r.ref.seq] /\ r.ref.index \in Nat
        /\ d.ref = [index |-> d.ref.index, seq |-> d.ref.seq]
    BY DEF IsMft
  <2>2. q = [[ref |-> r.ref, parent |-> r.parent, name |-> r.name, dir |-> r.dir] EXCEPT !.parent = d.ref]
    BY <2>1
  <2> QED
    BY <2>1, <2>2
<1>3. \A x, y \in mft : y.ref.index = x.ref.index => y = x
  BY DEF IsMft
<1>4. IsMft(m)
  BY <1>1 DEF IsMft
<1> HIDE DEF q
<1>5. IsMft(m \cup {q})
  <2>1. \A x \in m \cup {q} :
          /\ x = [ref |-> x.ref, parent |-> x.parent, name |-> x.name, dir |-> x.dir]
          /\ x.ref = [index |-> x.ref.index, seq |-> x.ref.seq] /\ x.ref.index \in Nat
          /\ x.parent = [index |-> x.parent.index, seq |-> x.parent.seq]
    <3>1. \A x \in m :
            /\ x = [ref |-> x.ref, parent |-> x.parent, name |-> x.name, dir |-> x.dir]
            /\ x.ref = [index |-> x.ref.index, seq |-> x.ref.seq] /\ x.ref.index \in Nat
            /\ x.parent = [index |-> x.parent.index, seq |-> x.parent.seq]
      BY <1>4 DEF IsMft
    <3>2. /\ q = [ref |-> q.ref, parent |-> q.parent, name |-> q.name, dir |-> q.dir]
          /\ q.ref = [index |-> q.ref.index, seq |-> q.ref.seq] /\ q.ref.index \in Nat
          /\ q.parent = [index |-> q.parent.index, seq |-> q.parent.seq]
      BY <1>2
    <3> QED
      BY <3>1, <3>2
  <2>2. \A x, y \in m \cup {q} : y.ref.index = x.ref.index => y = x
    <3>1. q.ref = r.ref
      BY <1>2
    <3> QED
      BY <3>1, <1>3
  <2> QED
    BY <1>1, <2>1, <2>2 DEF IsMft
<1> QED
  BY <1>4, <1>5 DEF q

\* What a change does to the disk: it touches one file of the volume that is being read.
LEMMA ChangeTouches ==
  ASSUME ChangeDisk, DiskOK, CursorTells
  PROVE  /\ Head(volumes) \in DOMAIN disk /\ DOMAIN disk' = DOMAIN disk
         /\ IsMft(disk'[Head(volumes)])
         /\ \A v \in DOMAIN disk : v # Head(volumes) => disk'[v] = disk[v]
         /\ \A r \in disk'[Head(volumes)] :
              r \in disk[Head(volumes)] \/ <<Head(volumes), r.ref>> \in touched'
         /\ touched \subseteq touched'
<1> DEFINE v == Head(volumes)
<1>1. v \in DOMAIN disk
  BY DEF ChangeDisk, CursorTells, DiskOK
<1>2. IsMft(disk[v])
  BY <1>1 DEF DiskOK
<1>3. PICK r \in disk[v] :
        \/ disk' = [disk EXCEPT ![v] = @ \ {r}] /\ touched' = touched \cup {<<v, r.ref>>}
        \/ \E d \in disk[v] :
             /\ disk' = [disk EXCEPT ![v] = (@ \ {r}) \cup {[r EXCEPT !.parent = d.ref]}]
             /\ touched' = touched \cup {<<v, r.ref>>}
  BY DEF ChangeDisk
<1>4. CASE disk' = [disk EXCEPT ![v] = @ \ {r}]
  <2>1. disk'[v] = disk[v] \ {r}
    BY <1>1, <1>4
  <2>2. IsMft(disk[v] \ {r})
    BY <1>2, <1>3, TablesStay
  <2>3. IsMft(disk'[v])
    BY <2>1, <2>2
  <2> QED
    BY <1>1, <1>3, <1>4, <2>1, <2>3
<1>5. ASSUME NEW d \in disk[v], disk' = [disk EXCEPT ![v] = (@ \ {r}) \cup {[r EXCEPT !.parent = d.ref]}]
      PROVE  /\ DOMAIN disk' = DOMAIN disk /\ IsMft(disk'[v])
             /\ \A w \in DOMAIN disk : w # v => disk'[w] = disk[w]
             /\ \A q \in disk'[v] : q \in disk[v] \/ q.ref = r.ref
  <2>1. disk'[v] = (disk[v] \ {r}) \cup {[r EXCEPT !.parent = d.ref]}
    BY <1>1, <1>5
  <2>2. IsMft((disk[v] \ {r}) \cup {[r EXCEPT !.parent = d.ref]})
    BY <1>2, <1>3, TablesStay
  <2>3. [r EXCEPT !.parent = d.ref].ref = r.ref
    <3>1. r = [ref |-> r.ref, parent |-> r.parent, name |-> r.name, dir |-> r.dir]
      BY <1>2 DEF IsMft
    <3> QED
      BY <3>1
  <2>4. IsMft(disk'[v])
    BY <2>1, <2>2
  <2> QED
    BY <1>1, <1>5, <2>1, <2>3, <2>4
<1> QED
  BY <1>1, <1>3, <1>4, <1>5

LEMMA DiskStays ==
  ASSUME [Next]_vars, DiskOK, CursorTells
  PROVE  DiskOK' /\ (ChangeDisk \/ UNCHANGED <<disk, touched>>)
<1>1. ChangeDisk \/ UNCHANGED <<disk, touched>>
  BY DEF Next, Collect, Extraction, Probing, ReadRegistry, OpenVolume, ReadRecords, EndVolume,
         CollectLanguagePackages, FeedStops, ExtractEnds, Feed, Extract, StartProbe, ParseEnds,
         Assemble, Deliver, HandOut, Parse, Write, Expire, PeExpire, Stopped, Failed, vars, diskVars
<1>2. CASE ChangeDisk
  BY <1>2, ChangeTouches DEF DiskOK
<1>3. CASE UNCHANGED <<disk, touched>>
  BY <1>3 DEF DiskOK
<1> QED
  BY <1>1, <1>2, <1>3

LEMMA ListStays ==
  ASSUME [Next]_vars, ListOK, CursorTells
  PROVE  ListOK' /\ spec' = spec /\ fullScan' = fullScan
<1>1. spec' = spec /\ fullScan' = fullScan
  BY DEF Next, Collect, Extraction, Probing, ReadRegistry, OpenVolume, ReadRecords, EndVolume,
         CollectLanguagePackages, FeedStops, ExtractEnds, Feed, Extract, StartProbe, ParseEnds,
         Assemble, Deliver, HandOut, Parse, Write, Expire, PeExpire, ChangeDisk, Stopped, Failed, vars,
         options
<1>2. \/ volumes' = volumes \/ volumes' = <<>> \/ volumes' = ParseVolumes(spec)
      \/ (volumes # <<>> /\ volumes' = Tail(volumes))
  <2>1. CASE ReadRegistry
    BY <2>1 DEF ReadRegistry, Failed, enumVars
  <2>2. CASE OpenVolume
    BY <2>2 DEF OpenVolume, Failed, enumVars
  <2>3. CASE EndVolume
    BY <2>3 DEF EndVolume, CursorTells
  <2>4. CASE ReadRecords \/ CollectLanguagePackages \/ Extraction
    BY <2>4 DEF ReadRecords, CollectLanguagePackages, Extraction, FeedStops, ExtractEnds, Feed, Extract,
                Failed, enumVars
  <2>5. CASE Probing
    BY <2>5 DEF Probing, StartProbe, ParseEnds, Assemble, Deliver, HandOut, Parse, enumVars
  <2>6. CASE Write \/ Expire \/ PeExpire \/ ChangeDisk \/ Stopped \/ UNCHANGED vars
    BY <2>6 DEF Write, Expire, PeExpire, ChangeDisk, Stopped, vars, enumVars
  <2> QED
    BY <2>1, <2>2, <2>3, <2>4, <2>5, <2>6 DEF Next, Collect
<1>3. volumes' \in Seq(VolumeNames(spec))
  BY <1>2, VolumesAreListed, HeadTailProperties, EmptySeq DEF ListOK
<1> QED
  BY <1>1, <1>3 DEF ListOK

\* The head and the tail are the list.
LEMMA HeadOrTail ==
  ASSUME NEW S, NEW s \in Seq(S), s # <<>>
  PROVE  Head(s) \in Range(s) /\ \A v \in Range(s) : v = Head(s) \/ v \in Range(Tail(s))
<1>1. Len(s) \in Nat \ {0} /\ DOMAIN s = 1..Len(s) /\ Head(s) = s[1]
  BY EmptySeq
<1>2. /\ Tail(s) \in Seq(S) /\ Len(Tail(s)) = Len(s) - 1
      /\ \A i \in 1..Len(Tail(s)) : Tail(s)[i] = s[i + 1]
  BY HeadTailProperties
<1>3. ASSUME NEW i \in 1..Len(s), i # 1 PROVE s[i] \in Range(Tail(s))
  <2>1. i - 1 \in 1..Len(Tail(s)) /\ (i - 1) + 1 = i
    BY <1>1, <1>2, <1>3
  <2>2. Tail(s)[i - 1] = s[i]
    BY <1>2, <2>1
  <2>3. DOMAIN Tail(s) = 1..Len(Tail(s))
    BY <1>2
  <2> QED
    BY <2>1, <2>2, <2>3 DEF Range
<1> QED
  BY <1>1, <1>3 DEF Range

Sight == CursorTells /\ SeenSoFar /\ SeenAtEnd /\ EndIsHonest

\* A step that leaves the disk and what was found alone.
LEMMA RestIsQuiet ==
  ASSUME SightInv, UNCHANGED <<disk, touched, fullScan, spec>>,
         pc \in {"extract", "report", "parse", "assemble", "write"},
         pc' \in {"extract", "report", "parse", "assemble", "write", "done"},
         UNCHANGED <<res.incomplete, res.products, res.executables, res.manifests, res.asked>>,
         exit' = exit \/ exit' = IF res.incomplete THEN 1 ELSE 0
  PROVE  Sight'
<1>1. CursorTells' /\ SeenSoFar'
  BY DEF CursorTells, SeenSoFar
<1>2. EndIsHonest'
  BY DEF SightInv, EndIsHonest
<1>3. SeenAtEnd'
  BY DEF SightInv, SeenAtEnd
<1> QED
  BY <1>1, <1>2, <1>3 DEF Sight

LEMMA SightRegistry == ASSUME SightInv, ReadRegistry PROVE Sight'
<1>0. pc = "registry" /\ exit \notin {0, 1}
  BY DEF ReadRegistry, SightInv, PoolInv, NoneForgotten
<1>1. CASE Failed(3)
  BY <1>0, <1>1 DEF Failed, Sight, CursorTells, SeenSoFar, SeenAtEnd, EndIsHonest
<1>2. CASE ~Failed(3)
  <2>1. /\ volumes' = IF fullScan THEN ParseVolumes(spec) ELSE <<>>
        /\ pc' = IF fullScan THEN "volume" ELSE "report"
        /\ UNCHANGED <<exit, spec, fullScan>>
    BY <1>2 DEF ReadRegistry, options
  <2> QED
    BY <1>0, <2>1 DEF Sight, CursorTells, SeenSoFar, SeenAtEnd, EndIsHonest
<1> QED
  BY <1>1, <1>2

LEMMA SightOpen == ASSUME SightInv, OpenVolume PROVE Sight'
<1>0. /\ pc = "volume" /\ exit \notin {0, 1} /\ volumes # <<>>
      /\ UNCHANGED <<disk, touched, fullScan, spec, manifests, toOpen>>
  BY DEF OpenVolume, SightInv, PoolInv, NoneForgotten, Failed, diskVars, options, poolVars
<1>1. CASE Failed(4)
  BY <1>0, <1>1 DEF Failed, Sight, CursorTells, SeenSoFar, SeenAtEnd, EndIsHonest
<1>2. CASE ~expired /\ Head(volumes) \in Ntfs /\ elevated
  <2>1. /\ pc' = "records" /\ cursor' = 0 /\ UNCHANGED <<volumes, res, exit>>
    BY <1>2 DEF OpenVolume
  <2>2. CursorTells'
    <3>1. Head(volumes) \in DOMAIN disk /\ IsMft(disk[Head(volumes)])
      BY <1>2 DEF SightInv, DiskOK
    <3>2. \A r \in disk[Head(volumes)] : ~(r.ref.index < 0)
      <4>1. \A r \in disk[Head(volumes)] : r.ref.index \in Nat
        BY <3>1 DEF IsMft
      <4> QED
        BY <4>1
    <3> QED
      BY <1>0, <1>2, <2>1, <3>2 DEF CursorTells
  <2>3. SeenSoFar'
    BY <1>0, <2>1 DEF SightInv, SeenSoFar
  <2> QED
    BY <1>0, <2>1, <2>2, <2>3 DEF Sight, SeenAtEnd, EndIsHonest
<1>3. CASE ~expired /\ ~(Head(volumes) \in Ntfs /\ elevated)
  <2>1. res'.incomplete /\ UNCHANGED <<pc, exit>>
    BY <1>3 DEF OpenVolume, SightInv, PoolInv, IsResult
  <2> QED
    BY <1>0, <2>1 DEF Sight, CursorTells, SeenSoFar, SeenAtEnd, EndIsHonest
<1> QED
  BY <1>1, <1>2, <1>3 DEF OpenVolume

LEMMA SightRecords == ASSUME SightInv, ReadRecords PROVE Sight'
<1>0. /\ pc = "records" /\ exit \notin {0, 1}
      /\ UNCHANGED <<disk, touched, fullScan, spec, volumes, res, manifests, toOpen>>
  BY DEF ReadRecords, SightInv, PoolInv, NoneForgotten, Failed, diskVars, options, poolVars, enumVars
<1>1. CASE Failed(4)
  BY <1>0, <1>1 DEF Failed, Sight, CursorTells, SeenSoFar, SeenAtEnd, EndIsHonest
<1>2. CASE ~Failed(4)
  <2>1. PICK batch : batch = RecordsFrom(disk[Head(volumes)], cursor, BatchSize)
    OBVIOUS
  <2>2. /\ batch # {} /\ cursor' = NextCursor(batch) /\ dirs' = WithDirs(dirs, batch)
        /\ candidates' = candidates \cup {r \in batch : Keep(r)}
        /\ UNCHANGED <<pc, exit>>
    BY <1>2, <2>1 DEF ReadRecords
  <2>3. PICK mft : mft = disk[Head(volumes)]
    OBVIOUS
  <2>4. IsMft(mft) /\ cursor \in Nat
    BY <1>0, <2>3 DEF SightInv, DiskOK, CursorTells
  <2>5. /\ batch \subseteq mft /\ cursor' \in Nat
        /\ \A s \in mft : s.ref.index < cursor' => s.ref.index < cursor \/ s \in batch
        /\ \A s \in batch : s.ref.index >= cursor
    BY <2>1, <2>2, <2>3, <2>4, BatchIsNext, DiskConstants
  <2>6. ASSUME NEW r \in mft, r.ref.index < cursor', <<Head(volumes), r.ref>> \notin touched
        PROVE  KeptIn(dirs', candidates', r)
    <3>0. r.ref.index \in Nat
      BY <2>4 DEF IsMft
    <3>1. CASE r \in batch
      <4>1. r.dir => /\ MftIndex(r.ref) \in DOMAIN dirs'
                     /\ dirs'[MftIndex(r.ref)].name = r.name /\ dirs'[MftIndex(r.ref)].parent = r.parent
        BY <2>2, <2>4, <2>5, <3>1, DirsAreKept
      <4>2. Keep(r) => r \in candidates'
        BY <2>2, <3>1
      <4> QED
        BY <4>1, <4>2 DEF KeptIn
    <3>2. CASE r \notin batch
      <4>1. KeptIn(dirs, candidates, r)
        <5>1. r.ref.index < cursor
          BY <2>5, <2>6, <3>2
        <5> QED
          BY <1>0, <2>3, <2>6, <5>1 DEF SightInv, CursorTells
      <4>2. MftIndex(r.ref) \in DOMAIN dirs =>
               MftIndex(r.ref) \in DOMAIN dirs' /\ dirs'[MftIndex(r.ref)] = dirs[MftIndex(r.ref)]
        BY <2>2, <2>4, <2>5, <3>2, DirsAreKept
      <4>3. candidates \subseteq candidates'
        BY <2>2
      <4> QED
        BY <4>1, <4>2, <4>3 DEF KeptIn
    <3> QED
      BY <3>1, <3>2
  <2>7. CursorTells'
    BY <1>0, <2>2, <2>3, <2>5, <2>6 DEF SightInv, CursorTells
  <2>8. SeenSoFar'
    BY <1>0, <2>2 DEF SightInv, SeenSoFar
  <2> QED
    BY <1>0, <2>2, <2>7, <2>8 DEF Sight, SeenAtEnd, EndIsHonest
<1> QED
  BY <1>1, <1>2

LEMMA SightEndVolume == ASSUME SightInv, EndVolume PROVE Sight'
<1>0. /\ pc = "records" /\ pc' = "volume" /\ exit \notin {0, 1} /\ volumes # <<>>
      /\ volumes' = Tail(volumes) /\ UNCHANGED <<disk, touched, fullScan, spec, exit>>
  BY DEF EndVolume, SightInv, PoolInv, NoneForgotten, diskVars, options, CursorTells
<1>1. PICK exes, mans, open :
        /\ LET found == {e \in BuildResult(Head(volumes), dirs, candidates) :
                           e.path # <<>> /\ ~OSOrStoreTerritory(e.path)}
           IN  /\ exes = {e.path : e \in {f \in found : f.name \in ExecutableNames}}
               /\ mans = {e.path : e \in {f \in found : f.name \in ManifestNames}}
               /\ open = {p \in exes : ~Covers(res.products, p)}
  OBVIOUS
<1>2. /\ res' = [res EXCEPT !.executables = @ \cup exes]
      /\ manifests' = manifests \cup mans /\ toOpen' = toOpen \cup open
  BY <1>1 DEF EndVolume
<1>3. /\ res'.executables = res.executables \cup exes
      /\ res'.products = res.products /\ res'.incomplete = res.incomplete
  BY <1>2 DEF SightInv, PoolInv, IsResult
<1>4. PICK u : u = Head(volumes)
  OBVIOUS
<1>5. u \in DOMAIN disk /\ IsMft(disk[u])
  BY <1>0, <1>4 DEF SightInv, CursorTells, DiskOK
<1>6. FoundOn(disk[u], touched, res.products, u, exes, mans, open)
  <2>1. \A r \in disk[u] : r.ref.index < cursor
    BY <1>0, <1>4, <1>5, BatchIsNext, DiskConstants DEF EndVolume, SightInv, CursorTells
  <2>2. \A r \in disk[u] : <<u, r.ref>> \notin touched => KeptIn(dirs, candidates, r)
    BY <1>0, <1>4, <2>1 DEF SightInv, CursorTells
  <2> QED
    BY <1>1, <1>4, <1>5, <2>2, VolumeIsFound
<1>7. ASSUME NEW v, v = u \/ (v \in DOMAIN disk /\ FoundOn(disk[v], touched, res.products, v, res.executables, manifests, toOpen))
      PROVE  v \in DOMAIN disk' /\ FoundOn(disk'[v], touched', res'.products, v, res'.executables, manifests', toOpen')
  <2>1. CASE v = u
    BY <2>1, <1>0, <1>2, <1>3, <1>5, <1>6, FoundGrows
  <2>2. CASE v # u
    BY <2>2, <1>0, <1>2, <1>3, <1>7, FoundGrows
  <2> QED
    BY <2>1, <2>2
<1>8. SeenSoFar'
  <2>1. \A v \in Range(volumes) : v = u \/ v \in Range(Tail(volumes))
    BY <1>0, <1>4, HeadOrTail DEF SightInv, ListOK
  <2>2. ASSUME fullScan, NEW v \in Range(ParseVolumes(spec))
        PROVE  v \in Range(volumes') \/ res'.incomplete
               \/ (v \in DOMAIN disk' /\ FoundOn(disk'[v], touched', res'.products, v, res'.executables, manifests', toOpen'))
    <3>1. \/ v \in Range(volumes) \/ res.incomplete
          \/ (v \in DOMAIN disk /\ FoundOn(disk[v], touched, res.products, v, res.executables, manifests, toOpen))
      BY <1>0, <2>2 DEF SightInv, SeenSoFar
    <3> QED
      BY <3>1, <2>1, <1>0, <1>3, <1>7
  <2> QED
    BY <2>2, <1>0 DEF SeenSoFar
<1> QED
  BY <1>0, <1>8 DEF Sight, CursorTells, SeenAtEnd, EndIsHonest

LEMMA SightManifests == ASSUME SightInv, CollectLanguagePackages PROVE Sight'
<1>0. /\ pc = "volume" /\ pc' \in {"report", "extract"} /\ exit \notin {0, 1} /\ volumes = <<>>
      /\ UNCHANGED <<disk, touched, fullScan, spec, exit>>
  BY DEF CollectLanguagePackages, SightInv, PoolInv, NoneForgotten, diskVars, options
<1>1. /\ res'.manifests = manifests \cap Files /\ res'.asked = toOpen
      /\ UNCHANGED <<res.executables, res.products, res.incomplete>>
  BY DEF CollectLanguagePackages, SightInv, PoolInv, IsResult
<1>2. ASSUME NEW v \in DOMAIN disk, FoundOn(disk[v], touched, res.products, v, res.executables, manifests, toOpen)
      PROVE  FoundOn(disk[v], touched, res.products, v, res.executables, manifests \cap Files, toOpen)
  <2>1. \A r \in disk[v] : ~r.dir => PathOn(disk[v], v, r) \in Files
    <3>1. \A r \in disk[v] : ~r.dir => PathOn(disk[v], v, r) \in FilesOf(v)
      BY DEF PathOn, TruePath, FilesOf
    <3> QED
      BY <3>1 DEF Files
  <2> QED
    BY <1>2, <2>1 DEF FoundOn, QuietOn
<1>3. Range(volumes) = {}
  BY <1>0 DEF Range
<1>4. SeenAtEnd'
  BY <1>0, <1>1, <1>2, <1>3 DEF SightInv, SeenSoFar, SeenAtEnd
<1> QED
  BY <1>0, <1>4 DEF Sight, CursorTells, SeenSoFar, EndIsHonest

LEMMA SightChange == ASSUME SightInv, ChangeDisk PROVE Sight'
<1>0. /\ pc = "records" /\ exit \notin {0, 1} /\ volumes # <<>>
      /\ UNCHANGED <<pc, fullScan, spec, exit, volumes, cursor, dirs, candidates, res, manifests, toOpen>>
  BY DEF ChangeDisk, SightInv, PoolInv, NoneForgotten, options, enumVars, poolVars, CursorTells
<1>1. PICK u : u = Head(volumes)
  OBVIOUS
<1>2. /\ u \in DOMAIN disk /\ DOMAIN disk' = DOMAIN disk
      /\ \A v \in DOMAIN disk : v # u => disk'[v] = disk[v]
      /\ \A r \in disk'[u] : r \in disk[u] \/ <<u, r.ref>> \in touched'
      /\ touched \subseteq touched'
  BY <1>1, ChangeTouches DEF SightInv
<1>3. CursorTells'
  BY <1>0, <1>1, <1>2 DEF SightInv, CursorTells
<1>4. u \in Range(volumes)
  BY <1>0, <1>1, HeadOrTail DEF SightInv, ListOK
<1>5. SeenSoFar'
  <2>1. ASSUME NEW v \in DOMAIN disk, v # u,
               FoundOn(disk[v], touched, res.products, v, res.executables, manifests, toOpen)
        PROVE  FoundOn(disk'[v], touched', res.products, v, res.executables, manifests, toOpen)
    BY <2>1, <1>2, FoundGrows
  <2> QED
    BY <2>1, <1>0, <1>2, <1>4 DEF SightInv, SeenSoFar
<1> QED
  BY <1>0, <1>3, <1>5 DEF Sight, SeenAtEnd, EndIsHonest

LEMMA SightStep == SightInv /\ [Next]_vars => SightInv'
<1> SUFFICES ASSUME SightInv, [Next]_vars PROVE SightInv'
  OBVIOUS
<1>p. PoolInv'
  BY PoolStep DEF SightInv
<1>d. DiskOK' /\ (ChangeDisk \/ UNCHANGED <<disk, touched>>)
  BY DiskStays DEF SightInv
<1>l. ListOK' /\ spec' = spec /\ fullScan' = fullScan
  BY ListStays DEF SightInv
<1>r. IsResult
  BY DEF SightInv, PoolInv
<1>s. Sight'
  <2>1. CASE Collect
    BY <2>1, SightRegistry, SightOpen, SightRecords, SightEndVolume, SightManifests DEF Collect
  <2>2. CASE Extraction
    <3>1. /\ UNCHANGED <<disk, touched, exit>> /\ pc = "extract" /\ pc' \in {"extract", "report"}
          /\ UNCHANGED <<res.incomplete, res.products, res.executables, res.manifests, res.asked>>
      BY <2>2, <1>r DEF Extraction, FeedStops, ExtractEnds, Feed, Extract, diskVars, IsResult
    <3> QED
      BY <3>1, <1>l, RestIsQuiet
  <2>3. CASE Probing
    <3>1. /\ UNCHANGED <<disk, touched, exit>>
          /\ pc \in {"report", "parse", "assemble"} /\ pc' \in {"parse", "assemble", "write"}
          /\ UNCHANGED <<res.incomplete, res.products, res.executables, res.manifests, res.asked>>
      BY <2>3, <1>r DEF Probing, StartProbe, ParseEnds, Assemble, Deliver, HandOut, Parse, diskVars, IsResult
    <3> QED
      BY <3>1, <1>l, RestIsQuiet
  <2>4. CASE Write
    <3>1. UNCHANGED <<disk, touched, res>> /\ pc = "write" /\ pc' = "done"
          /\ exit' = IF res.incomplete THEN 1 ELSE 0
      BY <2>4 DEF Write, diskVars
    <3> QED
      BY <3>1, <1>l, RestIsQuiet
  <2>5. CASE Expire \/ PeExpire \/ Stopped \/ UNCHANGED vars
    <3>1. UNCHANGED <<disk, touched, pc, exit, res, volumes, cursor, dirs, candidates, manifests, toOpen>>
      BY <2>5 DEF Expire, PeExpire, Stopped, vars, diskVars, enumVars, poolVars
    <3> QED
      BY <3>1, <1>l DEF SightInv, Sight, CursorTells, SeenSoFar, SeenAtEnd, EndIsHonest
  <2>6. CASE ChangeDisk
    BY <2>6, SightChange
  <2> QED
    BY <2>1, <2>2, <2>3, <2>4, <2>5, <2>6 DEF Next
<1> QED
  BY <1>p, <1>d, <1>l, <1>s DEF SightInv, Sight

\* A full scan that reports success before its deadline has every executable and every
\* manifest that nobody touched (wincollect/locations.go, usn/path.go): on any disk, for
\* any list of volumes, whatever the order and the size of the kernel's answers, and
\* whatever was deleted or moved beside them while it read.
THEOREM FullScanSeesAllAlways == Spec => []FullScanSeesAll
<1>1. SightInv => FullScanSeesAll
  <2> SUFFICES ASSUME SightInv, exit = 0, fullScan, ~expired,
                      NEW v \in Range(ParseVolumes(spec)), NEW r \in disk[v],
                      Untouched(v, r), ~OSOrStoreTerritory(TruePath(v, r))
               PROVE  /\ r.name \in ManifestNames => TruePath(v, r) \in res.manifests
                      /\ r.name \in ExecutableNames =>
                           /\ TruePath(v, r) \in res.executables
                           /\ \/ TruePath(v, r) \in res.opened
                              \/ \E l \in res.products : IsStrictPrefix(l, TruePath(v, r))
    BY DEF FullScanSeesAll
  <2>1. TruePath(v, r) = PathOn(disk[v], v, r)
    BY DEF TruePath, PathOn
  <2>2. QuietOn(disk[v], touched, v, r)
    BY DEF Untouched, QuietOn
  <2>3. FoundOn(disk[v], touched, res.products, v, res.executables, res.manifests, res.asked)
    BY DEF SightInv, SeenAtEnd, EndIsHonest
  <2>4. res.asked \subseteq res.opened
    BY DEF SightInv, PoolInv, NoneForgotten
  <2> QED
    BY <2>1, <2>2, <2>3, <2>4 DEF FoundOn
<1> QED
  BY <1>1, SightInit, SightStep, PTL DEF Spec
=============================================================================
