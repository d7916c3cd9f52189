------------------------------- MODULE Series -------------------------------
(***************************************************************************)
(* A series of scans of one host whose software changes between them: what *)
(* each run of cmd/swinv/main.go assembles, compares with an earlier       *)
(* report (--since), shortens (--delta-only, --heartbeat) and writes.      *)
(*                                                                         *)
(* machine   the software on the disk, [typ, name, version, root] each     *)
(* report    the last report, until the software changes again             *)
(* baseline  the JSON report that --since names                            *)
(* recorded  the digest the heartbeat state holds for this host            *)
(* sent      the component records of the last stream under --heartbeat    *)
(*           that carried them                                             *)
(* changes   how many times the software has changed                       *)
(***************************************************************************)
EXTENDS Cataloging, Ndjson, CycloneDX

CONSTANTS Possible,    \* the software that may be installed
          Images,      \* the machines a series may start on
          FilesOf,     \* name -> the files its package lists, inside its root
          EvidenceOf,  \* name of an ecosystem package -> the file it was read from
          HasDpkg,     \* whether the host itself has a dpkg database
          Modes,       \* the flags a run may be started with
          Surfaces,    \* what may be listening, and the configuration
          Orders,      \* in which order the catalogers may finish
          MaxChanges   \* bound: how often the software changes

IsLibrary(l) == l = [soname |-> l.soname, path |-> l.path, purl |-> l.purl]
IsListener(s) ==
  /\ s = [exe |-> s.exe, components |-> s.components, links |-> s.links, endpoints |-> s.endpoints]
  /\ s.links \in Seq(ToSet(s.links)) /\ \A l \in ToSet(s.links) : IsLibrary(l)
IsBinary(b) ==
  /\ b = [exe |-> b.exe, purl |-> b.purl, links |-> b.links]
  /\ b.links \in Seq(ToSet(b.links)) /\ \A l \in ToSet(b.links) : IsLibrary(l)
IsRow(e) == e = [key |-> e.key, exe |-> e.exe, container |-> e.container, backend |-> e.backend,
                 components |-> e.components]

\* Catalogers finish one after the other; what is inside a container is named by
\* package URLs <<type, name, version, distribution>>; what a binary loads is read once,
\* for the list of binaries and where it listens.
ASSUME SeriesConstants ==
  /\ \A i \in Possible : {i.typ, i.name, i.version} \subseteq Int /\ i.root \in Seq(STRING)
  /\ \A m \in Images : m \subseteq Possible /\ IsFiniteSet(m)
  /\ \A order \in Orders : /\ order \in [Possible -> Int]
                           /\ \A i, j \in Possible : order[i] = order[j] => i = j
  /\ \A surface \in Surfaces :
       /\ surface.services \in Seq(ToSet(surface.services))
       /\ \A s \in ToSet(surface.services) : IsListener(s)
       /\ surface.containers \in Seq(ToSet(surface.containers))
       /\ \A c \in ToSet(surface.containers) :
            /\ c.services \in Seq(ToSet(c.services))
            /\ \A s \in ToSet(c.services) : /\ s.components \in Seq(Int \X Int \X Int \X STRING)
                                             /\ s.links \in Seq(ToSet(s.links))
       /\ surface.links \in Seq(ToSet(surface.links))
       /\ \A b \in ToSet(surface.links) : IsBinary(b)
       /\ \A s \in ToSet(surface.services), b \in ToSet(surface.links) :
            s.exe = b.exe /\ s.links # <<>> => b.links = s.links
       /\ surface.exposure \in Seq(ToSet(surface.exposure))
       /\ \A e \in ToSet(surface.exposure) : IsRow(e)
       /\ surface.config \in Seq(ToSet(surface.config))

\* Only a package database is called "db"; a nested root is no container and not where
\* the documents of the host are; the empty path is no file.
ASSUME SeriesPaths ==
  /\ \A i \in Possible :
       /\ "db" \notin ToSet(i.root)
       /\ i.root # HostRoot => ~IsContainerRoot(i.root) /\ ~IsPrefix(i.root, <<"usr", "doc">>)
       /\ i.typ # Deb => /\ EvidenceOf[i.name] \in Seq(STRING)
                         /\ "db" \notin ToSet(EvidenceOf[i.name])
       /\ i.typ = Deb => \A f \in FilesOf[i.name] : f \in Seq(STRING) /\ f # <<>>
  /\ ChaseSymlink(<<>>) = {}

VARIABLES machine, report, baseline, recorded, sent, changes
seriesVars == <<machine, report, baseline, recorded, sent, changes>>

NoReport == [kind |-> "none"]
NoBaseline == [kind |-> "none", components |-> <<>>, only |-> FALSE]
NoDelta == [kind |-> "none"]

----------------------------------------------------------------------------
(* What Syft hands over *)

\* A package of a nested root also cites a document of the same name on the host.
Found(install) ==
  [typ |-> install.typ, name |-> install.name, version |-> install.version,
   by |-> IF install.typ = Deb THEN "dpkg-db-cataloger" ELSE "python",
   files |-> IF install.typ = Deb THEN FilesOf[install.name] ELSE {},
   locs |-> IF install.typ # Deb THEN <<install.root \o EvidenceOf[install.name]>>
            ELSE <<install.root \o <<"db", "status">>, <<"usr", "doc">>>>]

\* One entry of two databases may arrive as one package with the evidence of both.
Twins(i) == {j \in machine : /\ <<j.typ, j.name, j.version>> = <<i.typ, i.name, i.version>>
                            /\ Len(j.root) > Len(i.root)}
Packages(order, merged) ==
  LET twin(i) == IF merged THEN Twins(i) ELSE {}
      shadowed == UNION {twin(i) : i \in machine}
      pkg(i) == [Found(i) EXCEPT !.locs =
                   @ \o FlattenSeq(SetToSeq({Found(j).locs : j \in twin(i)}))]
      earlier == {at \in machine \X machine : order[at[1]] < order[at[2]]}
      seq == InOrder(machine \ shadowed, earlier)
  IN  [k \in DOMAIN seq |-> pkg(seq[k])]

\* A package list and a piece of evidence overlap when one path ends in the other.
Overlaps(packages) ==
  SetToSeq({at \in (DOMAIN packages) \X (DOMAIN packages) :
              /\ at[1] # at[2]
              /\ \E f \in packages[at[1]].files, l \in ToSet(packages[at[2]].locs) : IsSuffix(f, l)})

----------------------------------------------------------------------------
(* Assembling a report *)

\* What is asked of the package databases: listeners, their libraries, the binaries.
OwnerProbePaths(surface) ==
  {s.exe : s \in ToSet(surface.services)}
  \cup UNION {{l.path : l \in ToSet(s.links)} : s \in ToSet(surface.services)}
  \cup UNION {{b.exe} \cup {l.path : l \in ToSet(b.links)} : b \in ToSet(surface.links)}

OwnersSeq(owners, p) == IF p \in DOMAIN owners THEN SetToSeq(owners[p]) ELSE <<>>
FirstOwner(owners, p) == LET s == OwnersSeq(owners, p) IN IF s = <<>> THEN <<>> ELSE s[1]

ModelLinks(links, owners) ==
  [i \in DOMAIN links |-> [links[i] EXCEPT !.purl = FirstOwner(owners, links[i].path)]]

\* A listener is named after the package that installed it, and its libraries after
\* theirs; what is inside a container was named there.
AttachLinks(surface, owners) ==
  [services |-> [i \in DOMAIN surface.services |->
     [surface.services[i] EXCEPT !.components = OwnersSeq(owners, surface.services[i].exe),
                                 !.links = ModelLinks(@, owners)]],
   links |-> [i \in DOMAIN surface.links |->
     [surface.links[i] EXCEPT !.purl = FirstOwner(owners, surface.links[i].exe),
                              !.links = ModelLinks(@, owners)]]]

\* A row of the host's own has the software of its executable, a published one that
\* of the container behind it.
Exposed(surface, owners) ==
  LET inside(id) == FlattenSeq([i \in DOMAIN surface.containers |->
                      IF surface.containers[i].id # id THEN <<>>
                      ELSE FlattenSeq([j \in DOMAIN surface.containers[i].services |->
                             surface.containers[i].services[j].components])])
  IN  [i \in DOMAIN surface.exposure |->
         LET e == surface.exposure[i]
         IN  [e EXCEPT !.components = IF e.backend.cid # "" THEN inside(e.backend.cid)
                                      ELSE OwnersSeq(owners, e.exe)]]

ContainerComponents(containers) ==
  LET purls(c) == UNION {ToSet(s.components) : s \in ToSet(c.services)}
      one(c, purl) == [typ |-> purl[1], name |-> purl[2], version |-> purl[3],
                       purl |-> purl, root |-> ContainerRoot(c.id), by |-> "container",
                       locs |-> {}, ownedBy |-> <<>>, attrs |-> {}, source |-> "", change |-> ""]
  IN  FlattenSeq([i \in DOMAIN containers |->
        SetToSeq({one(containers[i], p) : p \in purls(containers[i])})])

Scanned(mode, components) ==
  LET all == Normalize(components)
      evidence == UNION {c.locs : c \in ToSet(all)}
  IN  IF mode.skipNested /\ NestedRoots(HostRoot, evidence) # {}
      THEN DropNestedRootComponents(all) ELSE all

\* Everything up to the manifest: the components with their sources, and what is
\* listening.
Assembled(mode, packages, surface) ==
  LET scan == Convert(HostRoot, packages, Overlaps(packages), OwnerProbePaths(surface))
      inventory == Normalize(Scanned(mode, scan.components)
                               \o ContainerComponents(surface.containers))
      stamped == [i \in DOMAIN inventory |->
                    [inventory[i] EXCEPT !.source = SourceKey(inventory[i].by)]]
      attached == AttachLinks(surface, scan.fileOwners)
  IN  [kind |-> "report", components |-> stamped, inventory |-> stamped, owners |-> scan.fileOwners,
       services |-> attached.services, links |-> attached.links,
       containers |-> surface.containers, exposure |-> Exposed(surface, scan.fileOwners),
       config |-> surface.config, include |-> mode.include, mode |-> mode,
       sources |-> SourceStatuses(ComponentsBySource(stamped), HasDpkg),
       delta |-> NoDelta, digest |-> NoDigest, unchanged |-> FALSE,
       how |-> [found |-> {}, forced |-> FALSE, asked |-> {}]]

\* --since, and --delta-only, which leaves only what moved.
WithDelta(r) ==
  IF ~r.mode.since \/ baseline = NoBaseline THEN r
  ELSE LET d == ComputeDelta(r.components, baseline.components)
           tagged == Tag(d, r.components)
       IN  [r EXCEPT !.delta = [kind |-> "delta", against |-> baseline.components, it |-> d],
                     !.inventory = tagged,
                     !.components = IF r.mode.deltaOnly THEN DeltaComponents(d, tagged)
                                    ELSE tagged]

\* --heartbeat: the list is left out when its digest is the recorded one and nothing
\* forces it.
WithHeartbeat(r, forced) ==
  IF ~r.mode.heartbeat THEN r
  ELSE LET digest == {InventoryDigest(r.components)}
       IN  [r EXCEPT !.digest = digest, !.unchanged = ~forced /\ recorded = digest]

----------------------------------------------------------------------------
(* The steps *)

\* A package manager has one version of a package in each root.
Installable(m) ==
  \A i, j \in m : i.typ = Deb /\ <<i.typ, i.name, i.root>> = <<j.typ, j.name, j.root>> => i = j

SeriesInit == /\ machine \in Images
        /\ report = NoReport /\ baseline = NoBaseline
        /\ recorded = NoDigest /\ sent = {} /\ changes = 0

SameName(i, j) == <<i.typ, i.name>> = <<j.typ, j.name>>

\* An installation, a removal, an upgrade, or a move to another root.
SoftwareChanges ==
  /\ report # NoReport /\ changes < MaxChanges
  /\ \E i \in Possible :
       machine' \in {machine \cup {i}, machine \ {i}} \cup
                    {(machine \ {j}) \cup {i} : j \in {k \in machine : SameName(i, k)}}
  /\ machine' # machine /\ Installable(machine')
  /\ report' = NoReport /\ changes' = changes + 1
  /\ UNCHANGED <<baseline, recorded, sent>>

\* A report of what changed is not a baseline.
LoadBaseline(mode) == mode.since => ~baseline.only

Said(r) == {<<Key(c), c.change = "removed">> : c \in ToSet(r.components)}

\* One run.  Its JSON report replaces the one --since names, unless it goes elsewhere.
Run(mode, packages, surface, forced) ==
  /\ LoadBaseline(mode)
  /\ LET r == WithHeartbeat(WithDelta(Assembled(mode, packages, surface)), forced)
     IN  /\ report' = [r EXCEPT !.how = [found |-> ToSet(packages), forced |-> forced,
                                      asked |-> OwnerProbePaths(surface)]]
         /\ baseline' = IF mode.aside THEN baseline
                        ELSE [kind |-> "report", components |-> r.components,
                              only |-> mode.deltaOnly /\ r.delta # NoDelta]
         /\ recorded' = IF mode.heartbeat /\ ~r.unchanged THEN r.digest ELSE recorded
         /\ sent' = IF mode.heartbeat /\ ~r.unchanged THEN Said(r) ELSE sent
  /\ UNCHANGED <<machine, changes>>

SeriesNext == \/ SoftwareChanges
        \/ \E mode \in Modes, order \in Orders, merged \in BOOLEAN, surface \in Surfaces,
              forced \in BOOLEAN :
             /\ mode.deltaOnly => baseline # NoBaseline
             /\ merged => \E i \in machine : Twins(i) # {}
             /\ forced => mode.heartbeat /\ recorded # NoDigest
             /\ Run(mode, Packages(order, merged), surface, forced)

SeriesSpec == SeriesInit /\ [][SeriesNext]_seriesVars

----------------------------------------------------------------------------
(* What a report may be relied on for *)

Reported == report # NoReport
Full == Reported => report.components = report.inventory
Amount(cs, k) == Cardinality({i \in DOMAIN cs : <<cs[i].name, cs[i].typ, cs[i].version>> = k})
MovesTo(d, k) == {ch \in d.changed : <<ch.name, ch.typ, ch.to>> = k}
MovesFrom(d, k) == {ch \in d.changed : <<ch.name, ch.typ, ch.from>> = k}

\* The delta is the whole difference: the baseline without what was removed or moved
\* from, with what was added or moved to, is the inventory of this scan, copy by copy
\* (model.ComputeDelta).
DeltaReplays ==
  Reported /\ report.delta # NoDelta =>
    LET d == report.delta.it
        against == report.delta.against
        all == ToSet(against) \cup ToSet(report.inventory)
    IN  \A k \in {<<c.name, c.typ, c.version>> : c \in all} :
          Amount(report.inventory, k) =
            Amount(against, k) - Amount(d.removed, k) - Cardinality(MovesFrom(d, k))
              + Amount(d.added, k) + Cardinality(MovesTo(d, k))

\* A stream that leaves the components out stands for exactly those the last stream
\* under --heartbeat carried (docs/FLAGS.md, --heartbeat).
SuppressedWasSent == Reported /\ report.unchanged => Said(report) = sent

\* What the manifest announces is what the stream carries, whatever record types were
\* asked for: WriteNDJSON never refuses its own stream (reconcileNDJSON).
CountsMatchStream ==
  Reported => \A include \in SUBSET (RecordTypes \ {"component"}) :
                WriteNDJSON([report EXCEPT !.include = include]).ok

\* A page built from a stream shows the stream: each component record once, each
\* listener once with all that is attributed to it, and each library under the binary
\* that loads it (cmd/swinv/reportfrom.go).
PageIsTheStream ==
  Reported =>
    LET stream == WriteNDJSON(report).lines
        inside == UNION {ToSet(c.services) : c \in ToSet(report.containers)}
    IN  \A page \in ReconstructFromNDJSON(stream) :
          /\ Len(page.components) = (IF report.unchanged THEN 0 ELSE Len(report.components))
          /\ \A i \in DOMAIN page.components :
               Key(page.components[i]) = Key(report.components[i])
          /\ "exposure" \in report.include =>
               /\ {e.key : e \in ToSet(page.exposure)} = {e.key : e \in ToSet(report.exposure)}
               /\ Len(page.exposure) = Cardinality({e.key : e \in ToSet(report.exposure)})
               /\ \A e \in ToSet(report.exposure), p \in ToSet(page.exposure) :
                    p.key = e.key => ToSet(e.components) \subseteq ToSet(p.components)
          /\ "link" \in report.include /\ ~report.unchanged =>
               \A b \in ToSet(report.services) \cup ToSet(report.links) \cup inside :
                 \A l \in ToSet(b.links) :
                   \E p \in ToSet(page.links) :
                     p.exe = b.exe /\ l.path \in {k.path : k \in ToSet(p.links)}

\* In the CycloneDX document of a whole inventory a listener of the host depends on
\* software of the host only, also when a container or a nested root has the same
\* package (writeCycloneDX).
HostEdgesNameHostSoftware ==
  Reported /\ Full =>
    \A s \in ToSet(CdxServices(report)) :
      s.root = HostRoot =>
        \A i \in s.dependsOn : report.components[i].root = HostRoot

\* The package that vouches for another is in the inventory, of a distribution, and in
\* the same root (applyFileOwnership).
OwnedWithinRoot ==
  Reported /\ ~report.mode.skipNested =>
    \A c \in ToSet(report.inventory) :
      c.ownedBy # NoOwner =>
        \E o \in ToSet(report.inventory) :
          /\ o.purl = c.ownedBy /\ o.root = c.root /\ IsOSPackage(o.typ)

\* Every path asked about is owned by just those host packages that list it, under any
\* spelling it has on a merged system or behind a link; a package that Syft merged with
\* its copy of a nested root is not named (finalizeOwners).
OwnersAreRight ==
  Reported =>
    LET spelled(p) == {UsrMerge(q) : q \in {p} \cup ChaseSymlink(UsrMerge(p))}
        lists(i, p) == /\ i.typ = Deb /\ i.root = HostRoot
                       /\ \E f \in FilesOf[i.name] : UsrMerge(f) \in spelled(p)
        named(i, p) == /\ p \in DOMAIN report.owners
                       /\ \E id \in report.owners[p] : id[2] = i.name /\ id[3] = i.version
        single(i) == \A j \in machine \ {i} :
                       <<j.typ, j.name, j.version>> # <<i.typ, i.name, i.version>>
    IN  \A p \in report.how.asked :
          /\ \A i \in machine : lists(i, p) /\ single(i) => named(i, p)
          /\ p \in DOMAIN report.owners =>
               \A id \in report.owners[p] :
                 \E i \in machine : lists(i, p) /\ id[2] = i.name /\ id[3] = i.version

\* --skip-nested-rootfs leaves every package of the host in, and takes every package
\* out that only a nested database lists (README.md, Nested root filesystems).
SkipKeepsHost ==
  Reported /\ report.mode.skipNested =>
    LET has(i) == \E c \in ToSet(report.inventory) :
                    /\ ~IsContainerRoot(c.root)
                    /\ <<c.typ, c.name, c.version>> = <<i.typ, i.name, i.version>>
        onHost(i) == \E j \in machine : /\ j.root = HostRoot
                       /\ <<j.typ, j.name, j.version>> = <<i.typ, i.name, i.version>>
    IN  \A i \in machine : /\ onHost(i) => has(i)
                           /\ ~onHost(i) /\ i.typ = Deb => ~has(i)

\* The same software found again, in whatever order the catalogers finish, is not sent
\* again (InventoryDigest, applyHeartbeat).
QuietWhenUnchanged ==
  [][(/\ Reported /\ report' # NoReport /\ report.mode = report'.mode
      /\ report.mode.heartbeat /\ ~report.mode.since
      /\ report.how.found = report'.how.found /\ report.containers = report'.containers
      /\ ~report'.how.forced)
     => report'.unchanged]_seriesVars

=============================================================================
