------------------------- MODULE ContainerPackages -------------------------
(***************************************************************************)
(* What a container's own package databases say (internal/ctrpkg), and how *)
(* a file of a container is read through the engine (internal/dockerapi).  *)
(*                                                                         *)
(* A filesystem is a record of parsed databases: release is the two        *)
(* os-release files in the order they are tried; dpkg, apk and rpm are     *)
(* sequences of stanzas [name, version, arch, status, files].  Canon is    *)
(* the usr-merge: the one spelling of a path reachable by two.             *)
(***************************************************************************)
EXTENDS Integers, Sequences, FiniteSets

CONSTANTS Canon,       \* path -> its canonical spelling
          SymlinkHops  \* how many links of a container's filesystem are followed

NoRelease == [id |-> "", version |-> ""]
NoPurl    == <<>>
Elements(s) == {s[i] : i \in DOMAIN s}
First(S) == CHOOSE k \in S : \A j \in S : k <= j

----------------------------------------------------------------------------
(* os-release and package URLs *)

\* The first of the two files that names an id.
ReadRelease(fs) ==
  LET usable == {k \in DOMAIN fs.release : fs.release[k].id # ""}
  IN  IF usable = {} THEN NoRelease ELSE fs.release[First(usable)]

Purl(type, rel, p) ==
  IF p.name = "" \/ p.version = "" THEN NoPurl
  ELSE <<type, rel.id, p.name, p.version, p.arch,
         IF rel.id # "" /\ rel.version # "" THEN rel.version ELSE "">>

\* The reverse, for the forms this program writes.
ParsePurl(purl) == IF purl = NoPurl \/ Len(purl) < 4 \/ "" \in {purl[3], purl[4]} THEN {}
                   ELSE {[type |-> purl[1], name |-> purl[3], version |-> purl[4]]}

----------------------------------------------------------------------------
(* The whole database *)

\* A package that was removed but left its configuration behind is not installed.
AllDpkg(fs) == {p \in Elements(fs.dpkg) : /\ p.name # "" /\ p.version # ""
                                          /\ p.status \in {"installed", "half-installed"}}
AllApk(fs) == {p \in Elements(fs.apk) : p.name # "" /\ p.version # ""}
AllRPM(fs) == {p \in Elements(fs.rpm) : p.name # ""}

\* One database answers, the first that has anything.
All(fs) ==
  LET rel == ReadRelease(fs)
      as(type, S) == {Purl(type, rel, p) : p \in S}
  IN  IF AllDpkg(fs) # {} THEN as("deb", AllDpkg(fs))
      ELSE IF AllApk(fs) # {} THEN as("apk", AllApk(fs))
      ELSE as("rpm", AllRPM(fs))

----------------------------------------------------------------------------
(* The targeted probe *)

\* Two asked paths with one canonical spelling are one question, answered under
\* the later of them.
Want(paths) ==
  {paths[k] : k \in {j \in DOMAIN paths :
     \A i \in DOMAIN paths : Canon[paths[i]] = Canon[paths[j]] => i <= j}}

Lists(p, path) == \E f \in p.files : Canon[f] = Canon[path]

\* Of two packages that list a file dpkg's answer is whichever is met first in a
\* map; the version is that of the last stanza with one.
ProbeDpkg(fs, rel, path) ==
  {Purl("deb", rel, p) : p \in {q \in Elements(fs.dpkg) :
     q.name # "" /\ q.version # "" /\ Lists(q, path)}}

FirstListing(stanzas, named, path) ==
  LET S == {k \in named : Lists(stanzas[k], path)}
  IN  IF S = {} THEN {} ELSE {stanzas[First(S)]}

ProbeApk(fs, rel, path) ==
  {Purl("apk", rel, p) :
     p \in FirstListing(fs.apk, {k \in DOMAIN fs.apk : fs.apk[k].name # ""}, path)}
ProbeRPM(fs, rel, path) ==
  {Purl("rpm", rel, p) : p \in FirstListing(fs.rpm, DOMAIN fs.rpm, path)}

\* What each answered path may be owned by: an earlier database is not overruled.
Probe(fs, paths) ==
  LET rel == ReadRelease(fs)
      may(path) == IF ProbeDpkg(fs, rel, path) # {} THEN ProbeDpkg(fs, rel, path)
                   ELSE IF ProbeApk(fs, rel, path) # {} THEN ProbeApk(fs, rel, path)
                   ELSE ProbeRPM(fs, rel, path)
  IN  [path \in Elements(paths) |-> IF path \in Want(paths) THEN may(path) ELSE {}]

----------------------------------------------------------------------------
(* Reading through the engine *)

\* A tree maps a path to [kind, target]; the engine archives a symlink as itself,
\* so its target is asked for in turn, a few times and never twice the same.
ReadFile(tree, path) ==
  LET visit[hop \in 0..SymlinkHops, p \in DOMAIN tree \cup {"absent"},
            seen \in SUBSET DOMAIN tree] ==
        IF hop = SymlinkHops \/ p \in seen \/ p \notin DOMAIN tree THEN {}
        ELSE IF tree[p].kind = "file" THEN {p}
        ELSE IF tree[p].kind = "link" THEN visit[hop + 1, tree[p].target, seen \cup {p}]
        ELSE {}
  IN  visit[0, path, {}]

\* Ports the image exposes and the run configuration binds, by container port.
ExposedPorts(exposed, bindings) ==
  {[port |-> b.port, proto |-> b.proto] : b \in {c \in bindings \cup exposed : c.port # 0}}

\* What the listing says: only ports published on the host.
ListedPorts(ports) == {p \in ports : p.hostPort # 0}
=============================================================================
