------------------------------ MODULE FileTree ------------------------------
(***************************************************************************)
(* What a scan of a tree reads, from the options to the index of its       *)
(* files: the exclusions are computed, the executables probed, the links   *)
(* that would end the scan set aside (internal/scan/preflight.go), and the *)
(* tree is indexed, while somebody else may change it.  The indexer is     *)
(* Syft's, modelled from what preflight.go and scan.go say of it.          *)
(***************************************************************************)
EXTENDS Linking

CONSTANTS
  Trees,        \* [fs, root] the program may be started on
  Options,      \* options it may be given
  Exes,         \* executables that listen on the host
  Revocable,    \* directories whose permission may be taken away meanwhile
  MaxChanges    \* bound on what somebody else changes

DirsOf(fs) == {p \in DOMAIN fs.kind : fs.kind[p] = "dir"}

\* A scan starts at a root that can be reached.  A file system is a record of these fields,
\* its paths are sequences of names, and what lies on a path to an entry is a directory.
ASSUME FileTreeConstants ==
  \A t \in Trees :
    /\ t.root \in Seq(STRING) /\ Stat(t.fs, t.root) = "ok" /\ Stat(t.fs, Parent(t.root)) = "ok"
    /\ t.fs = [kind |-> t.fs.kind, to |-> t.fs.to, relative |-> t.fs.relative,
               deny |-> t.fs.deny, mounts |-> t.fs.mounts, elf |-> t.fs.elf, conf |-> t.fs.conf]
    /\ \A p \in DOMAIN t.fs.kind :
         p \in Seq(STRING) /\ \A j \in 0..(Len(p) - 1) : SubSeq(p, 1, j) \in DirsOf(t.fs)
    /\ \A l \in DOMAIN t.fs.to : l \in Seq(STRING) /\ l # <<>>
    /\ \A m \in t.fs.mounts : m.point \in Seq(STRING)
ASSUME OptionConstants == \A opt \in Options : \A p \in opt.user : p.path \in Seq(STRING)

VARIABLES
  fs,           \* the file system
  root,         \* --root
  o,            \* the options
  pc,
  excludes,     \* patterns of the scan
  probe,        \* result of the ELF pass
  todo,         \* directories the walk under way has still to read
  links,        \* links the preflight quarantines
  roots,        \* targets the indexer has queued
  seen,         \* roots it has begun
  indexed,      \* regular files in its index
  incomplete,   \* the indexer gave up
  changes       \* changes by somebody else
vars == <<fs, root, o, pc, excludes, probe, todo, links, roots, seen, indexed, incomplete, changes>>

NoProbe == [byExe |-> <<>>, libPaths |-> {}, walked |-> {}]

Init ==
  /\ \E t \in Trees : fs = t.fs /\ root = t.root
  /\ o \in Options
  /\ pc = "excludes" /\ excludes = {} /\ probe = NoProbe
  /\ todo = {} /\ links = {} /\ roots = {} /\ seen = {} /\ indexed = {}
  /\ incomplete = FALSE /\ changes = 0

\* main.go: a pattern Syft would reject is a usage error before anything is read.
ComputeExcludes ==
  /\ pc = "excludes"
  /\ LET built == BuildExcludes(fs, root, o)
     IN  /\ excludes' = built.patterns
         /\ pc' = IF built.ok THEN "elf" ELSE "usage"
  /\ UNCHANGED <<fs, root, o, probe, todo, links, roots, seen, indexed, incomplete, changes>>

ProbeExecutables ==
  /\ pc = "elf"
  /\ probe' = ProbeELF(fs, root, o, Exes)
  /\ pc' = "preflight" /\ todo' = {root}
  /\ UNCHANGED <<fs, root, o, excludes, links, roots, seen, indexed, incomplete, changes>>

----------------------------------------------------------------------------
(* The preflight: one directory of the walk at a time *)

Unreadable(dir) == \E j \in 0..Len(dir) : SubSeq(dir, 1, j) \in fs.deny
LinksIn(dir) == {l \in DOMAIN fs.to : Parent(l) = dir}
MatchesAny(patterns, p) ==
  \E rel \in RootRelative(root, p), pattern \in patterns : Matches(pattern, rel)

QuarantineSymlinks ==
  /\ pc = "preflight" /\ todo # {}
  /\ LET dir  == CHOOSE d \in todo : TRUE
         skip == AbsoluteMatchers(excludes)
         open == ~Unreadable(dir)
     IN  /\ todo' = (todo \ {dir})
                    \cup {d \in Children(fs, dir) \cap DirsOf(fs) : open /\ ~MatchesAny(skip, d)}
         /\ links' = links \cup {l \in LinksIn(dir) :
                        open /\ ~MatchesAny(skip, l) /\ ~SymlinkTargetResolvable(fs, l)}
  /\ UNCHANGED <<fs, root, o, pc, excludes, probe, roots, seen, indexed, incomplete, changes>>

\* The links join the patterns, each as the one path it is.
StartIndex ==
  /\ pc = "preflight" /\ todo = {}
  /\ excludes' = excludes \cup {Pattern("file", SubSeq(l, Len(root) + 1, Len(l))) : l \in links}
  /\ pc' = "index" /\ roots' = {root}
  /\ UNCHANGED <<fs, root, o, probe, todo, links, seen, indexed, incomplete, changes>>

----------------------------------------------------------------------------
(* The indexer *)

\* Where the indexer enters a root: the directory of it is resolved, its last name is not.
Entry(r) == IF r = <<>> THEN r ELSE Append(Resolve(fs, Parent(r)).path, r[Len(r)])
Enterable(r) == Stat(fs, r) = "ok" /\ Stat(fs, Parent(r)) = "ok"

\* A root whose directory cannot be resolved ends the indexing; the report says so.
IndexRoot ==
  /\ pc = "index" /\ todo = {} /\ roots # {}
  /\ LET r  == CHOOSE x \in roots : TRUE
         at == Entry(r)
     IN  /\ roots' = roots \ {r} /\ seen' = seen \cup {r}
         /\ IF ~Enterable(r)
            THEN pc' = "done" /\ incomplete' = TRUE /\ indexed' = {} /\ UNCHANGED todo
            ELSE /\ todo' = {d \in {at} \cap DirsOf(fs) : ~Excluded(excludes, root, d)}
                 /\ indexed' = indexed \cup {p \in {at} \cap DOMAIN fs.kind :
                                  fs.kind[p] = "file" /\ ~Excluded(excludes, root, p)}
                 /\ UNCHANGED <<pc, incomplete>>
  /\ UNCHANGED <<fs, root, o, excludes, probe, links, changes>>

\* One directory: its files are indexed, its directories entered, the targets of its
\* links queued unless they do not exist.
IndexDirectory ==
  /\ pc = "index" /\ todo # {}
  /\ LET dir  == CHOOSE d \in todo : TRUE
         met  == {p \in Children(fs, dir) \cup LinksIn(dir) :
                    ~Unreadable(dir) /\ ~Excluded(excludes, root, p)}
     IN  /\ todo' = (todo \ {dir}) \cup (met \cap DirsOf(fs))
         /\ indexed' = indexed \cup {p \in met \cap DOMAIN fs.kind : fs.kind[p] = "file"}
         /\ roots' = roots \cup ({fs.to[l] : l \in {k \in met \cap DOMAIN fs.to :
                                     Stat(fs, fs.to[k]) # "absent"}} \ seen)
  /\ UNCHANGED <<fs, root, o, pc, excludes, probe, links, seen, incomplete, changes>>

Finish ==
  /\ pc = "index" /\ todo = {} /\ roots = {}
  /\ pc' = "done"
  /\ UNCHANGED <<fs, root, o, excludes, probe, todo, links, roots, seen, indexed, incomplete, changes>>

----------------------------------------------------------------------------
(* Somebody else: a permission is taken away, a link is removed *)

Revoke(dir) ==
  /\ changes < MaxChanges /\ pc \in {"preflight", "index"}
  /\ dir \in DOMAIN fs.kind /\ dir \notin fs.deny
  /\ fs' = [fs EXCEPT !.deny = @ \cup {dir}]
  /\ changes' = changes + 1
  /\ UNCHANGED <<root, o, pc, excludes, probe, todo, links, roots, seen, indexed, incomplete>>

Stopped == pc \in {"done", "usage"} /\ UNCHANGED vars

Next ==
  \/ ComputeExcludes \/ ProbeExecutables
  \/ QuarantineSymlinks \/ StartIndex
  \/ IndexRoot \/ IndexDirectory \/ Finish
  \/ \E dir \in Revocable : Revoke(dir)
  \/ Stopped

Spec == Init /\ [][Next]_vars

----------------------------------------------------------------------------
(* Properties *)

\* The operator excluded a directory by its name alone, not "with all that is in it".  The
\* preflight stays out of it; the indexer comes into it by a link from elsewhere.
BareDirectory == \E x \in excludes : x.form = "file" /\ root \o x.path \in DirsOf(fs)

\* A link has led the indexer out of the tree, where the preflight does not look.
LeftTheTree == \E r \in seen : Enterable(r) /\ ~Under(root, Entry(r))

\* A link never ends the indexing of a tree that held still: the preflight has found every
\* one that would, among those the indexer meets below the root, whatever they resolve to.
\* preflight.go:21-44 is about nothing else.
AbortNeedsAChange == incomplete => changes > 0 \/ BareDirectory \/ LeftTheTree

\* The mount a path lies on: the deepest whose point is above it.
MountOf(p) ==
  LET over == {m \in fs.mounts : Under(m.point, p)}
  IN  {m \in over : \A n \in over : Len(n.point) <= Len(m.point)}

\* Nothing on a mount below the root that is not local is indexed, whichever name or link
\* led there (options.go:84-90); the snaps are not meant, nor the mount the operator made
\* the root.
RemoteNeverIndexed ==
  o.autoMounts =>
    \A p \in indexed : \A m \in MountOf(p) :
      /\ Under(root, m.point) /\ m.point # root
      /\ m.parses /\ m.type \in NonLocalFilesystems
      => IsSnapMount(m.point) /\ ~o.noSnap

\* What an object needs, each name with the path this object would find it at.
AskedBy(object) ==
  {<<i.soname, IF i.soname \in SlashNames THEN Nowhere
               ELSE ResolveSoname(fs, root, i.soname, i.dirs)>> :
     i \in {Needs(fs, root, object, 1)[k] : k \in DOMAIN Needs(fs, root, object, 1)}}
Beyond(asked) ==
  UNION {AskedBy(a[2]) : a \in {b \in asked : b[2] # Nowhere /\ root \o b[2] \in DOMAIN fs.elf}}

\* The links of an executable are its needs, those of its libraries and those of theirs:
\* each once, "direct" exactly when the executable itself asks for it, at a file that lies
\* below the probed root, and none is missing where nobody disagrees on where it lies.
LinksAreTheClosure ==
  pc = "preflight" /\ todo = {root} /\ changes = 0 =>
    \A exe \in probe.walked :
      LET found  == probe.byExe[exe]
          first  == AskedBy(exe)
          all    == first \cup Beyond(first) \cup Beyond(Beyond(first))
          agreed == \A a, b \in all : a[1] = b[1] => a[2] = b[2]
      IN  /\ \A a, b \in found : a.soname = b.soname => a = b
          /\ \A a \in found : a.direct <=> \E f \in first : f[1] = a.soname
          /\ \A a \in found : a.path # Nowhere =>
               Resolve(fs, root \o a.path).path \in DOMAIN fs.kind
               /\ Under(root, Resolve(fs, root \o a.path).path)
          /\ agreed => {<<a.soname, a.path>> : a \in found} = all
=============================================================================
