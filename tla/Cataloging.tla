----------------------------- MODULE Cataloging -----------------------------
(***************************************************************************)
(* From the packages Syft found to the components of a scan: which         *)
(* filesystem each one is in, which distribution package vouches for it,   *)
(* and which package installed a path somebody asked about                 *)
(* (internal/scan: scan.go, nested.go, provenance.go, ownership.go,        *)
(* fileowners.go).                                                         *)
(*                                                                         *)
(* A path is a sequence of names.  The name "db" stands for the directory  *)
(* of a package database, whichever of the known ones it is, so the root   *)
(* file system a database belongs to is what comes before it.              *)
(***************************************************************************)
EXTENDS Inventory

CONSTANTS MergedDirs,  \* the top-level directories that are links into /usr
          LinkTo,      \* path of a symlink -> the path it names
          Regular,     \* the paths that are regular files
          Releases     \* nested root -> what its own os-release says

HostRoot == <<>>
Deb      == 1
Python   == 2
NoPurl   == <<>>
NoOwner  == <<>>
MaxHops  == 8

----------------------------------------------------------------------------
(* Nested root file systems *)

\* The root a location's package database belongs to, if it is not the host's own.
NestedRootPrefix(loc) ==
  LET at == {k \in DOMAIN loc : loc[k] = "db"}
  IN  IF at = {} \/ Least(at) = 1 THEN {} ELSE {SubSeq(loc, 1, Least(at) - 1)}

IsHostPackageDBPath(loc) == loc # <<>> /\ loc[1] = "db"

\* Only a scan of / looks for them, in the locations of its components.
NestedRoots(scanRoot, locations) ==
  IF scanRoot # HostRoot THEN {} ELSE UNION {NestedRootPrefix(l) : l \in locations}

\* Mutant: any nested evidence is enough.
SomeNestedDatabaseEvidence(c) == \E l \in c.locs : NestedRootPrefix(l) # {}
\* --skip-nested-rootfs: a component goes when all its database evidence is nested.
OnlyNestedDatabaseEvidence(c) ==
  /\ \E l \in c.locs : NestedRootPrefix(l) # {}
  /\ ~\E l \in c.locs : IsHostPackageDBPath(l)
DropNestedRootComponents(components) ==
  At(components, {k \in DOMAIN components : ~OnlyNestedDatabaseEvidence(components[k])})

\* The first location under any nested root decides; the roots are tried in order,
\* so of two that contain it the shorter one wins.
RootOf(locs, nested) ==
  LET over(l) == {r \in nested : IsPrefix(r, l)}
      under == {k \in DOMAIN locs : over(locs[k]) # {}}
  IN  IF under = {} THEN HostRoot
      ELSE CHOOSE r \in over(locs[Least(under)]) :
             \A q \in over(locs[Least(under)]) : Len(r) <= Len(q)

----------------------------------------------------------------------------
(* Components *)

\* Syft labels every package with the distribution of the scanned root.
Purl(p) == <<p.typ, p.name, p.version, IF p.typ = Deb THEN "host" ELSE "">>
KeepDistroClaim(purl) == purl  \* mutant
StripDistroClaim(purl) == IF purl = NoPurl THEN purl ELSE [purl EXCEPT ![4] = ""]

ComponentFromPackage(p) ==
  [typ |-> p.typ, name |-> p.name, version |-> p.version, purl |-> Purl(p),
   root |-> HostRoot, by |-> p.by, locs |-> p.locs, ownedBy |-> NoOwner, attrs |-> {},
   source |-> "", change |-> ""]

\* Software of a nested root carries no claim about the host's distribution, and the
\* release its own root states.
AssignRoots(components, nested) ==
  [i \in DOMAIN components |->
     LET c == components[i]
         root == RootOf(c.locs, nested)
     IN  IF root = HostRoot THEN c
         ELSE [c EXCEPT !.root = root, !.purl = StripDistroClaim(@),
                 !.attrs = @ \cup IF root \in DOMAIN Releases
                                  THEN {<<"root_os_id", Releases[root]>>} ELSE {}]]

IsOSPackage(typ) == typ = Deb

\* Mutant: whatever root they are in.
ApplyAnyOwnership(components, relationships) ==
  LET by(j) == {k \in DOMAIN relationships :
                  LET r == relationships[k]
                  IN  /\ r[2] = j /\ IsOSPackage(components[r[1]].typ)
                      /\ ~IsOSPackage(components[j].typ)}
  IN  [j \in DOMAIN components |->
         IF by(j) = {} THEN components[j]
         ELSE [components[j] EXCEPT !.ownedBy = components[relationships[Least(by(j))][1]].purl]]

\* A distribution package vouches for an ecosystem package of the same root whose
\* evidence it owns; of several, the last relationship Syft lists.
ApplyFileOwnership(components, relationships) ==
  LET vouches(k, j) ==
        LET r == relationships[k]
        IN  /\ r[2] = j /\ r[1] # j
            /\ IsOSPackage(components[r[1]].typ) /\ ~IsOSPackage(components[j].typ)
            /\ components[r[1]].root = components[j].root
            /\ components[r[1]].purl # NoPurl
      last(S) == CHOOSE k \in S : \A i \in S : i <= k
      by(j) == {k \in DOMAIN relationships : vouches(k, j)}
  IN  [j \in DOMAIN components |->
         IF by(j) = {} THEN components[j]
         ELSE [components[j] EXCEPT !.ownedBy = components[relationships[last(by(j))][1]].purl]]

----------------------------------------------------------------------------
(* Which package installed a path *)

\* Before the /usr merge /bin/x is what the databases say; the kernel says /usr/bin/x.
UsrMerge(p) == IF Len(p) > 1 /\ p[1] \in MergedDirs THEN <<"usr">> \o p ELSE p

\* At most MaxHops looks at a path: a loop answers nothing.
ChaseSymlink(p) ==
  LET step(q, hop) == IF q \in DOMAIN LinkTo THEN LinkTo[q] ELSE q
      end == FoldLeft(step, p, [hop \in 1..(MaxHops - 1) |-> hop])
  IN  IF end \in Regular THEN {end} ELSE {}

\* A probe pairs the spelling that is compared with every path asked about under it.
ProbeSet(asked) == {<<UsrMerge(p), p>> : p \in asked \ {<<>>}}
ProbeAsNamed(probe) == probe  \* mutant
ExpandProbeSymlinks(probe) ==
  probe \cup UNION {{<<UsrMerge(q), pair[2]>> : q \in ChaseSymlink(pair[1])} : pair \in probe}

\* Only distribution packages list their files.
OwnedFiles(p) == IF IsOSPackage(p.typ) THEN p.files ELSE {}
ResolveOwners(probe, packages) ==
  [asked \in {pair[2] : pair \in probe} |->
     {i \in DOMAIN packages :
        \E f \in OwnedFiles(packages[i]) : <<UsrMerge(f), asked>> \in probe}]

\* A hit inside a nested root names a file of that root, not of the host.
FinalizeOwners(components, hits) ==
  LET ids(p) == {Identify(components[i]) : i \in {k \in hits[p] : components[k].root = HostRoot}}
  IN  [p \in {q \in DOMAIN hits : ids(q) # {}} |-> ids(p)]

\* Stage 3 of a scan, up to the normalisation.
Convert(scanRoot, packages, relationships, ownerProbe) ==
  LET raw == [i \in DOMAIN packages |-> ComponentFromPackage(packages[i])]
      locations == UNION {ToSet(p.locs) : p \in ToSet(packages)}
      rooted == AssignRoots(raw, NestedRoots(scanRoot, locations))
      owned == ApplyFileOwnership(rooted, relationships)
      probe == ExpandProbeSymlinks(ProbeSet(ownerProbe))
  IN  [components |-> [i \in DOMAIN owned |-> [owned[i] EXCEPT !.locs = ToSet(@)]],
       fileOwners |-> FinalizeOwners(owned, ResolveOwners(probe, packages))]
=============================================================================
