------------------------------ MODULE Excludes ------------------------------
(***************************************************************************)
(* What a scan of a tree leaves out: the layout of a running system, the   *)
(* mounts that are not local, and the patterns of the operator             *)
(* (internal/scan/options.go, internal/pathnorm/excludes.go); and the      *)
(* symbolic links that would end the scan (internal/scan/preflight.go).    *)
(*                                                                         *)
(* A path is a sequence of names, <<>> the root directory.  A pattern is   *)
(* [form, path], and its path is relative to the scan root:                *)
(*   "tree"  ./a/b/**      "file"  ./a/b      "glob"  ./a/*/b/**           *)
(*   "any"   **/a/**       "one"   */a/**     "bad"   anything else        *)
(***************************************************************************)
EXTENDS Integers, SequencesExt

NonLocalFilesystems == {"nfs", "9p", "autofs", "tmpfs", "squashfs", "overlay", "proc"}
DefaultExcludeDirs  == {<<"proc">>, <<"sys">>}
DefaultExcludeFiles == {<<"swapfile">>}
NoiseNames          == {"cache"}
HomeExcludeDirs     == {<<"home">>, <<"root">>}
SnapMountRoots      == {<<"snap">>, <<"var", "lib", "snapd", "snap">>}
OSRelease           == {<<"etc", "os-release">>, <<"usr", "lib", "os-release">>}
MaxHops             == 8

Pattern(form, path) == [form |-> form, path |-> path]
DirPattern(rel)     == Pattern("tree", rel)

----------------------------------------------------------------------------
(* The file system: kind of every entry, target of every link, directories *)
(* that may not be searched, mount table                                   *)

\* One look at a path: the first link on the way is replaced by its target.
Look(fs, at) ==
  LET links == {k \in DOMAIN at.path : SubSeq(at.path, 1, k) \in DOMAIN fs.to}
      k == CHOOSE j \in links : \A i \in links : j <= i
      reach == IF links = {} THEN Len(at.path) ELSE k
  IN  [path |-> IF links = {} THEN at.path
                ELSE fs.to[SubSeq(at.path, 1, k)] \o SubSeq(at.path, k + 1, Len(at.path)),
       denied |-> at.denied \/ \E j \in 0..(reach - 1) : SubSeq(at.path, 1, j) \in fs.deny]
Resolve(fs, p) ==
  FoldLeft(LAMBDA at, hop : Look(fs, at), [path |-> p, denied |-> FALSE],
           [hop \in 1..(MaxHops + 1) |-> hop])
\* The member of a set of one: naming a value so evaluates it once.
The(S) == CHOOSE x \in S : TRUE
Stat(fs, p) ==
  The({IF end.denied \/ end.path \in DOMAIN fs.to THEN "error"
       ELSE IF end.path \in DOMAIN fs.kind THEN "ok" ELSE "absent" : end \in {Resolve(fs, p)}})

Parent(p) == SubSeq(p, 1, Len(p) - 1)
Under(dir, p) == IsPrefix(dir, p)
Children(fs, dir) == {p \in DOMAIN fs.kind : p # <<>> /\ Parent(p) = dir}

----------------------------------------------------------------------------
(* Building the list *)

\* A path inside the root, as a pattern spells it; the root itself is not one.
RootRelative(root, abs) ==
  IF Under(root, abs) /\ abs # root THEN {SubSeq(abs, Len(root) + 1, Len(abs))} ELSE {}

\* A line that does not parse is skipped, and / is never excluded.
ParseMountinfo(table) ==
  {m.point : m \in {n \in table : n.parses /\ n.type \in NonLocalFilesystems /\ n.point # <<>>}}

IsSnapMount(point) == \E dir \in SnapMountRoots : Under(dir, point)

\* Mutant: the point of the mount is taken as the host spells it.
MountExcludesAsMounted(root, table, noSnap) ==
  {DirPattern(p) : p \in {q \in ParseMountinfo(table) : noSnap \/ ~IsSnapMount(q)}}

\* Every mount that is not local, except the snaps, which are installed software.
MountExcludes(root, table, noSnap) ==
  LET points == {p \in ParseMountinfo(table) : noSnap \/ ~IsSnapMount(p)}
  IN  {DirPattern(rel) : rel \in UNION {RootRelative(root, p) : p \in points}}

LooksLikeRootFilesystem(fs, root) ==
  root = <<>>
  \/ \E marker \in OSRelease : /\ Stat(fs, root \o marker) = "ok"
                               /\ fs.kind[Resolve(fs, root \o marker).path] = "file"

DefaultExcludes(fs, root) ==
  IF ~LooksLikeRootFilesystem(fs, root) THEN {}
  ELSE {DirPattern(d) : d \in DefaultExcludeDirs}
       \cup {Pattern("file", f) : f \in DefaultExcludeFiles}
       \cup {Pattern("any", <<n>>) : n \in NoiseNames}
HomeExcludes(fs, root) ==
  IF LooksLikeRootFilesystem(fs, root) THEN {DirPattern(d) : d \in HomeExcludeDirs} ELSE {}

\* What Syft rejects is a usage error.
ValidatePattern(p) == p.form # "bad"

BuildExcludes(fs, root, o) ==
  LET all == DefaultExcludes(fs, root)
             \cup (IF o.includeHome THEN {} ELSE HomeExcludes(fs, root))
             \cup (IF o.autoMounts THEN MountExcludes(root, fs.mounts, o.noSnap) ELSE {})
             \cup (IF o.noSnap THEN {DirPattern(<<"snap">>)} ELSE {})
             \cup (IF o.noFlatpak THEN {DirPattern(<<"var", "lib", "flatpak">>)} ELSE {})
             \cup o.user
  IN  [ok |-> \A p \in all : ValidatePattern(p), patterns |-> all]

----------------------------------------------------------------------------
(* What a pattern matches *)

\* A star stands for one name.
GlobPrefix(glob, rel) ==
  /\ Len(glob) <= Len(rel)
  /\ \A i \in DOMAIN glob : glob[i] \in {"*", rel[i]}

Matches(p, rel) ==
  CASE p.form \in {"tree", "glob"} -> GlobPrefix(p.path, rel)
    [] p.form = "file" -> rel = p.path
    [] p.form = "any"  -> \E i \in DOMAIN rel : rel[i] = p.path[1]
    [] p.form = "one"  -> Len(rel) > 1 /\ rel[2] = p.path[1]
    [] p.form = "bad"  -> FALSE

\* Syft matches every pattern against every path below the root.
Excluded(patterns, root, p) ==
  \E rel \in RootRelative(root, p), pattern \in patterns : Matches(pattern, rel)

\* The walks that are not Syft's keep the plain subtrees only.
SubtreeExcludes(patterns) ==
  {p.path : p \in {q \in patterns : q.form \in {"tree", "file"} /\ q.path # <<>>}}

----------------------------------------------------------------------------
(* The preflight *)

\* Mutant: the two glob forms are honoured as well, at any depth.
AbsoluteMatchersOfGlobs(excludes) ==
  {p \in excludes : p.form \in {"tree", "file", "glob"}}
  \cup {Pattern("any", p.path) : p \in {q \in excludes : q.form \in {"any", "one"}}}

\* Only anchored patterns: the preflight rather walks too much.
AbsoluteMatchers(excludes) == {p \in excludes : p.form \in {"tree", "file", "glob"}}

\* A link to nothing is harmless; one whose target, or the directory of it, cannot be
\* resolved would end the scan.
SymlinkTargetResolvable(fs, link) ==
  Stat(fs, fs.to[link]) = "absent"
  \/ (Stat(fs, fs.to[link]) = "ok" /\ Stat(fs, Parent(fs.to[link])) = "ok")
=============================================================================
