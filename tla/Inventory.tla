----------------------------- MODULE Inventory ------------------------------
(***************************************************************************)
(* The component list of a report and what is computed from it: the        *)
(* normalisation, the difference between two scans, the digest and the     *)
(* counts per source (internal/model and cmd/swinv/manifest.go).           *)
(*                                                                         *)
(* Types, names and versions are numbers, so that they have an order.      *)
(***************************************************************************)
EXTENDS Integers, Sequences, FiniteSets, SequencesExt, Ordering

----------------------------------------------------------------------------
(* Normalisation *)

Key(c) == <<c.name, c.version, c.typ, c.purl, c.root>>

\* What a component is called where something points to it.
Identify(c) == IF c.purl # <<>> THEN c.purl ELSE <<c.name, c.version>>

\* By type, name, version and package URL: the root does not take part.
PurlRank(purl) == IF purl = <<>> THEN 0 ELSE IF purl[4] = "" THEN 1 ELSE 2
Less(a, b) ==
  \/ a.typ < b.typ
  \/ a.typ = b.typ /\ a.name < b.name
  \/ a.typ = b.typ /\ a.name = b.name /\ a.version < b.version
  \/ /\ a.typ = b.typ /\ a.name = b.name /\ a.version = b.version
     /\ PurlRank(a.purl) < PurlRank(b.purl)

\* A stable sort.
Sorted(cs) ==
  LET before == {at \in (DOMAIN cs) \X (DOMAIN cs) :
                   \/ Less(cs[at[1]], cs[at[2]])
                   \/ ~Less(cs[at[2]], cs[at[1]]) /\ at[1] < at[2]}
      order == InOrder(DOMAIN cs, before)
  IN  [k \in DOMAIN order |-> cs[order[k]]]

\* Lists are united and attributes too; of a single-valued field the first that is
\* not empty stays.
Merged(cs, same) ==
  LET first(field, none) ==
        LET filled == {i \in same : cs[i][field] # none}
        IN  IF filled = {} THEN none ELSE cs[Least(filled)][field]
  IN  [cs[Least(same)] EXCEPT
         !.locs = UNION {cs[i].locs : i \in same},
         !.attrs = UNION {cs[i].attrs : i \in same},
         !.by = first("by", ""),
         !.ownedBy = first("ownedBy", <<>>)]

Normalize(cs) ==
  LET same(i) == {j \in DOMAIN cs : Key(cs[j]) = Key(cs[i])}
      firsts == Positions({i \in DOMAIN cs : i = Least(same(i))})
  IN  Sorted([k \in DOMAIN firsts |-> Merged(cs, same(firsts[k]))])

----------------------------------------------------------------------------
(* The difference between two scans *)

Identity(c) == <<c.name, c.typ>>
Copies(cs, id, v) == {i \in DOMAIN cs : Identity(cs[i]) = id /\ cs[i].version = v}

\* Mutant: a version is lost only when no copy of it is left.
DiffVersionsBySet(a, b) == {i \in DOMAIN a : Copies(b, Identity(a[i]), a[i].version) = {}}

\* The entries of a that b has no copy left for: versions are matched one by one,
\* and which of several copies is left over is a matter of their order.
DiffVersions(a, b) ==
  {i \in DOMAIN a :
     Cardinality({j \in Copies(a, Identity(a[i]), a[i].version) : j <= i})
       > Cardinality(Copies(b, Identity(a[i]), a[i].version))}

\* Exactly one version left on each side is a move; anything else is spelled out.
ComputeDelta(current, baseline) ==
  LET new == DiffVersions(current, baseline)
      old == DiffVersions(baseline, current)
      fresh(id) == {i \in new : Identity(current[i]) = id}
      lost(id) == {i \in old : Identity(baseline[i]) = id}
      ids == {Identity(current[i]) : i \in DOMAIN current}
      moved == {id \in ids : Cardinality(fresh(id)) = 1 /\ Cardinality(lost(id)) = 1}
      pick(cs, S) == LET at == Positions({i \in S : Identity(cs[i]) \notin moved})
                     IN  [k \in DOMAIN at |-> cs[at[k]]]
  IN  [added |-> pick(current, new),
       removed |-> pick(baseline, old),
       changed |-> {[name |-> id[1], typ |-> id[2],
                     from |-> baseline[Least(lost(id))].version,
                     to |-> current[Least(fresh(id))].version,
                     purl |-> current[Least(fresh(id))].purl] : id \in moved}]

\* Every copy of a version that was added or moved to is marked.
Tag(delta, cs) ==
  LET added(c) == \E i \in DOMAIN delta.added :
                    /\ Identity(delta.added[i]) = Identity(c)
                    /\ delta.added[i].version = c.version
      changed(c) == \E ch \in delta.changed : /\ <<ch.name, ch.typ>> = Identity(c)
                                              /\ ch.to = c.version
  IN  [i \in DOMAIN cs |-> IF changed(cs[i]) THEN [cs[i] EXCEPT !.change = "changed"]
                           ELSE IF added(cs[i]) THEN [cs[i] EXCEPT !.change = "added"]
                           ELSE cs[i]]

\* --delta-only: what moved, each with its change; of several copies of a version
\* that was moved to, the last.
DeltaComponents(delta, cs) ==
  LET mark(s, kind) == [i \in DOMAIN s |-> [s[i] EXCEPT !.change = kind]]
      target(ch) == {i \in DOMAIN cs : Identity(cs[i]) = <<ch.name, ch.typ>>
                                       /\ cs[i].version = ch.to}
      last(S) == CHOOSE i \in S : \A j \in S : j <= i
      moved == [i \in 1..Cardinality(delta.changed) |->
                  cs[last(target(SetToSeq(delta.changed)[i]))]]
  IN  Sorted(mark(delta.added, "added") \o mark(delta.removed, "removed")
             \o mark(moved, "changed"))

DigestLine(c) == <<c.typ, c.name, c.version, c.root, c.purl>>

\* Mutants: the root is left out; the lines are hashed in the order they arrive.
InventoryDigestRootless(cs) ==
  LET line(c) == <<c.typ, c.name, c.version, c.purl>>
  IN  [l \in {line(cs[i]) : i \in DOMAIN cs} |->
         Cardinality({i \in DOMAIN cs : line(cs[i]) = l})]
InventoryDigestUnsorted(cs) == [i \in DOMAIN cs |-> DigestLine(cs[i])]

\* The digest of a list is this bag: equal bags, and only they, have equal digests.
InventoryDigest(cs) ==
  [line \in {DigestLine(cs[i]) : i \in DOMAIN cs} |->
     Cardinality({i \in DOMAIN cs : DigestLine(cs[i]) = line})]

----------------------------------------------------------------------------
(* The manifest's sources *)

SourceKey(by) == IF by = "" THEN "unattributed"
                 ELSE IF by = "dpkg-db-cataloger" THEN "dpkg" ELSE by
ComponentsBySource(cs) ==
  [s \in {SourceKey(cs[i].by) : i \in DOMAIN cs} |->
     Cardinality({i \in DOMAIN cs : SourceKey(cs[i].by) = s})]

\* A database that is not on this host is skipped, whatever was counted for it; one
\* that is there and gave nothing is an error.
SourceStatuses(counts, dpkgPresent) ==
  LET n == IF "dpkg" \in DOMAIN counts THEN counts["dpkg"] ELSE 0
      verdict(s) ==
        CASE s # "dpkg" -> [status |-> "ok", components |-> counts[s]]
          [] s = "dpkg" /\ ~dpkgPresent -> [status |-> "skipped", components |-> 0]
          [] s = "dpkg" /\ dpkgPresent /\ n = 0 -> [status |-> "error", components |-> 0]
          [] OTHER -> [status |-> "ok", components |-> n]
  IN  [s \in DOMAIN counts \cup {"dpkg"} |-> verdict(s)]

=============================================================================
