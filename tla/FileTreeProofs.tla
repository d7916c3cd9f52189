--------------------------- MODULE FileTreeProofs ---------------------------
(***************************************************************************)
(* Theorems about FileTree: what the exclusions leave out is not indexed,  *)
(* for every tree, every set of options and every change of permissions    *)
(* while the tree is read, however links resolve (Resolve and Stat are     *)
(* never unfolded).                                                        *)
(***************************************************************************)
EXTENDS FileTree, SequenceTheorems, TLAPS

-----------------------------------------------------------------------------
(* Lemmas about paths and patterns.                                        *)

\* What lies under a directory of the root lies under the root.
LEMMA UnderAll ==
  ASSUME NEW r \in Seq(STRING), NEW d \in Seq(STRING), NEW p \in Seq(STRING),
         Under(r, d), Under(d, p)
  PROVE  /\ Len(r) <= Len(d) /\ Len(d) <= Len(p)
         /\ \A i \in 1..Len(d) : d[i] = p[i]
         /\ Under(r, p)
<1>1. Len(r) \in Nat /\ Len(d) \in Nat /\ Len(p) \in Nat
  OBVIOUS
<1>2. Len(r) <= Len(d) /\ SubSeq(r, 1, Len(r)) = SubSeq(d, 1, Len(r))
  BY DEF Under, IsPrefix
<1>3. Len(d) <= Len(p) /\ SubSeq(d, 1, Len(d)) = SubSeq(p, 1, Len(d))
  BY DEF Under, IsPrefix
<1>4. \A i \in 1..Len(r) : SubSeq(r, 1, Len(r))[i] = r[i] /\ SubSeq(d, 1, Len(r))[i] = d[i]
  BY <1>1, <1>2
<1>5. \A i \in 1..Len(d) : SubSeq(d, 1, Len(d))[i] = d[i] /\ SubSeq(p, 1, Len(d))[i] = p[i]
  BY <1>1, <1>3
<1>6. \A i \in 1..Len(d) : d[i] = p[i]
  BY <1>3, <1>5
<1>7. SubSeq(d, 1, Len(r)) = SubSeq(p, 1, Len(r))
  <2>1. /\ SubSeq(d, 1, Len(r)) \in Seq(STRING) /\ SubSeq(p, 1, Len(r)) \in Seq(STRING)
        /\ Len(SubSeq(d, 1, Len(r))) = Len(r) /\ Len(SubSeq(p, 1, Len(r))) = Len(r)
        /\ \A i \in 1..Len(r) : SubSeq(d, 1, Len(r))[i] = d[i] /\ SubSeq(p, 1, Len(r))[i] = p[i]
    BY <1>1, <1>2, <1>3
  <2>2. \A i \in 1..Len(r) : d[i] = p[i]
    BY <1>1, <1>2, <1>6
  <2> QED
    BY <2>1, <2>2, SeqEqual
<1> QED
  BY <1>1, <1>2, <1>3, <1>6, <1>7 DEF Under, IsPrefix

\* The pattern of a directory below the root excludes whatever lies in it.
LEMMA TreeExcludes ==
  ASSUME NEW r \in Seq(STRING), NEW d \in Seq(STRING), NEW p \in Seq(STRING), NEW patterns,
         Under(r, d), d # r, Under(d, p),
         \A rel \in RootRelative(r, d) : DirPattern(rel) \in patterns
  PROVE  Excluded(patterns, r, p)
<1> DEFINE inside == SubSeq(d, Len(r) + 1, Len(d))
           rel    == SubSeq(p, Len(r) + 1, Len(p))
<1>1. /\ Len(r) \in Nat /\ Len(d) \in Nat /\ Len(p) \in Nat
      /\ Len(r) <= Len(d) /\ Len(d) <= Len(p)
      /\ \A i \in 1..Len(d) : d[i] = p[i]
      /\ Under(r, p)
  BY UnderAll
<1>2. Len(r) < Len(d)
  <2> SUFFICES ASSUME Len(r) = Len(d)
               PROVE  FALSE
    BY <1>1
  <2>1. SubSeq(r, 1, Len(r)) = SubSeq(d, 1, Len(d))
    BY DEF Under, IsPrefix
  <2> QED
    BY <2>1, SubSeqFull
<1>3. p # r
  BY <1>1, <1>2
<1>4. RootRelative(r, d) = {inside} /\ RootRelative(r, p) = {rel}
  BY <1>1, <1>3 DEF RootRelative
<1>5. DirPattern(inside) \in patterns
  BY <1>4
<1>6. /\ inside \in Seq(STRING) /\ Len(inside) = Len(d) - Len(r)
      /\ rel \in Seq(STRING) /\ Len(rel) = Len(p) - Len(r)
      /\ \A i \in 1..(Len(d) - Len(r)) : inside[i] = d[Len(r) + i] /\ rel[i] = p[Len(r) + i]
  BY <1>1, <1>2
<1>7. GlobPrefix(inside, rel)
  <2>1. Len(inside) <= Len(rel)
    BY <1>1, <1>6
  <2>2. ASSUME NEW i \in DOMAIN inside
        PROVE  inside[i] = rel[i]
    <3>1. i \in 1..(Len(d) - Len(r)) /\ Len(r) + i \in 1..Len(d)
      BY <1>1, <1>2, <1>6
    <3> QED
      BY <1>1, <1>6, <3>1
  <2> QED
    BY <2>1, <2>2 DEF GlobPrefix
<1>8. Matches(DirPattern(inside), rel)
  BY <1>7 DEF Matches, DirPattern, Pattern
<1> QED
  BY <1>4, <1>5, <1>8 DEF Excluded

-----------------------------------------------------------------------------
(* The inductive invariant.                                                *)

\* What the file system keeps whatever permissions are taken away.
IsFS ==
  /\ fs = [kind |-> fs.kind, to |-> fs.to, relative |-> fs.relative, deny |-> fs.deny,
           mounts |-> fs.mounts, elf |-> fs.elf, conf |-> fs.conf]
  /\ root \in Seq(STRING)
  /\ \A p \in DOMAIN fs.kind :
       p \in Seq(STRING) /\ \A j \in 0..(Len(p) - 1) : SubSeq(p, 1, j) \in DirsOf(fs)
  /\ \A l \in DOMAIN fs.to : l \in Seq(STRING) /\ l # <<>>
  /\ \A m \in fs.mounts : m.point \in Seq(STRING)

\* Once they are computed, the patterns hold those of the mounts.
MountsExcluded ==
  pc \notin {"excludes", "usage"} /\ o.autoMounts => MountExcludes(root, fs.mounts, o.noSnap) \subseteq excludes

\* Nothing is in the index before the indexer runs, and nothing a pattern matches ever.
IndexedIsNotExcluded ==
  /\ pc \notin {"index", "done"} => indexed = {}
  /\ \A p \in indexed : p \in DOMAIN fs.kind /\ ~Excluded(excludes, root, p)

IndexInv == IsFS /\ MountsExcluded /\ IndexedIsNotExcluded

LEMMA IndexInvInit == Init => IndexInv
BY FileTreeConstants DEF Init, IndexInv, DirsOf, IsFS, MountsExcluded, IndexedIsNotExcluded

\* Only a permission changes under the scan.
LEMMA RevokeKeeps ==
  ASSUME IsFS, NEW dir, Revoke(dir)
  PROVE  IsFS' /\ fs'.kind = fs.kind /\ fs'.mounts = fs.mounts /\ fs'.to = fs.to
BY DEF IsFS, Revoke, DirsOf

LEMMA IndexInvStep == IndexInv /\ [Next]_vars => IndexInv'
<1> SUFFICES ASSUME IndexInv, [Next]_vars PROVE IndexInv'
  OBVIOUS
<1> USE DEF IndexInv
<1>1. CASE ComputeExcludes
  <2>1. o.autoMounts => MountExcludes(root, fs.mounts, o.noSnap) \subseteq excludes'
    BY <1>1 DEF ComputeExcludes, BuildExcludes
  <2> QED
    BY <1>1, <2>1 DEF ComputeExcludes, IsFS, MountsExcluded, IndexedIsNotExcluded
<1>2. CASE ProbeExecutables
  BY <1>2 DEF ProbeExecutables, IsFS, MountsExcluded, IndexedIsNotExcluded
<1>3. CASE QuarantineSymlinks
  BY <1>3 DEF QuarantineSymlinks, IsFS, MountsExcluded, IndexedIsNotExcluded
<1>4. CASE StartIndex
  <2>1. excludes \subseteq excludes'
    BY <1>4 DEF StartIndex
  <2> QED
    BY <1>4, <2>1 DEF StartIndex, IsFS, MountsExcluded, IndexedIsNotExcluded
<1>5. CASE IndexRoot
  <2>1. \A p \in indexed' : p \in DOMAIN fs.kind /\ ~Excluded(excludes, root, p)
    BY <1>5 DEF IndexRoot, IndexedIsNotExcluded
  <2>2. pc' \in {"index", "done"} /\ pc = "index" /\ UNCHANGED <<fs, root, o, excludes>>
    BY <1>5 DEF IndexRoot
  <2> QED
    BY <2>1, <2>2 DEF IsFS, MountsExcluded, IndexedIsNotExcluded
<1>6. CASE IndexDirectory
  <2>1. \A p \in indexed' : p \in DOMAIN fs.kind /\ ~Excluded(excludes, root, p)
    BY <1>6 DEF IndexDirectory, IndexedIsNotExcluded
  <2>2. pc = "index" /\ UNCHANGED <<fs, root, o, pc, excludes>>
    BY <1>6 DEF IndexDirectory
  <2> QED
    BY <2>1, <2>2 DEF IsFS, MountsExcluded, IndexedIsNotExcluded
<1>7. CASE Finish
  BY <1>7 DEF Finish, IsFS, MountsExcluded, IndexedIsNotExcluded
<1>8. CASE \E dir \in Revocable : Revoke(dir)
  <2>1. PICK dir \in Revocable : Revoke(dir)
    BY <1>8
  <2>2. IsFS' /\ fs'.kind = fs.kind /\ fs'.mounts = fs.mounts
    BY <2>1, RevokeKeeps
  <2>3. UNCHANGED <<root, o, pc, excludes, indexed>>
    BY <2>1 DEF Revoke
  <2> QED
    BY <2>2, <2>3 DEF MountsExcluded, IndexedIsNotExcluded
<1>9. CASE UNCHANGED vars
  BY <1>9 DEF vars, IsFS, MountsExcluded, IndexedIsNotExcluded
<1> QED
  BY <1>1, <1>2, <1>3, <1>4, <1>5, <1>6, <1>7, <1>8, <1>9 DEF Next, Stopped

-----------------------------------------------------------------------------
(* Why no link ends the indexing: whatever directory the indexer reads     *)
(* below the root, the preflight has read before it.                       *)

\* A directory the preflight reads when it honours these patterns.
Reached(patterns, d) ==
  /\ d \in DirsOf(fs) /\ Under(root, d) /\ ~Unreadable(d)
  /\ \A j \in (Len(root) + 1)..Len(d) :
       /\ SubSeq(d, 1, j) \in DirsOf(fs)
       /\ ~MatchesAny(AbsoluteMatchers(patterns), SubSeq(d, 1, j))

\* Its links that would end the scan are set aside.
Handled(patterns, d) ==
  \A l \in LinksIn(d) : \/ MatchesAny(AbsoluteMatchers(patterns), l)
                        \/ SymlinkTargetResolvable(fs, l)
                        \/ l \in links

\* Nothing the indexer would meet there ends it.
Harmless(d) == \A l \in LinksIn(d) : Excluded(excludes, root, l) \/ SymlinkTargetResolvable(fs, l)

IsPath(p) == Len(p) \in Nat /\ DOMAIN p = 1..Len(p)
Named ==
  /\ \A x \in excludes : IsPath(x.path)
  /\ \A x \in o.user : x.path \in Seq(STRING)
  /\ links \subseteq DOMAIN fs.to
Quiet    == pc # "done" => ~incomplete
Counted  == changes \in Nat /\ (changes = 0 => Enterable(root))
WalkCovers ==
  changes = 0 /\ pc = "preflight" =>
    /\ \A a \in todo : a \in Seq(STRING) /\ Under(root, a)
    /\ \A d \in DirsOf(fs) :
         Reached(excludes, d) => Handled(excludes, d) \/ \E a \in todo : Under(a, d)
NothingHarmful ==
  changes = 0 /\ pc = "index" => \A d \in DirsOf(fs) : Reached(excludes, d) => Harmless(d)
StaysInside ==
  changes = 0 /\ pc = "index" /\ ~BareDirectory /\ ~LeftTheTree =>
    /\ \A d \in todo : d \in DirsOf(fs) /\ Under(root, d) /\ ~Excluded(excludes, root, d)
    /\ \A r \in roots : Enterable(r)

AbortInv ==
  /\ IsFS /\ Named /\ Quiet /\ Counted
  /\ WalkCovers /\ NothingHarmful /\ StaysInside /\ AbortNeedsAChange

LEMMA UnderSelf == ASSUME NEW r \in Seq(STRING) PROVE Under(r, r)
BY DEF Under, IsPrefix

\* What a path begins with is above it.
LEMMA PrefixIsAbove ==
  ASSUME NEW p \in Seq(STRING), NEW j \in 0..Len(p)
  PROVE  SubSeq(p, 1, j) \in Seq(STRING) /\ Len(SubSeq(p, 1, j)) = j /\ Under(SubSeq(p, 1, j), p)
<1>1. Len(p) \in Nat
  OBVIOUS
<1>2. SubSeq(p, 1, j) \in Seq(STRING) /\ Len(SubSeq(p, 1, j)) = j
  BY <1>1
<1>3. SubSeq(SubSeq(p, 1, j), 1, j) = SubSeq(p, 1, j)
  BY <1>2, SubSeqFull
<1> QED
  BY <1>1, <1>2, <1>3 DEF Under, IsPrefix

\* What lies in a directory of the tree lies below the root.
LEMMA EntryIsBelow ==
  ASSUME NEW r \in Seq(STRING), NEW d \in Seq(STRING), NEW p \in Seq(STRING),
         Under(r, d), p # <<>>, Parent(p) = d
  PROVE  Under(r, p) /\ p # r /\ Under(d, p) /\ Len(p) = Len(d) + 1
<1>1. Len(p) \in Nat /\ Len(p) > 0 /\ Len(d) = Len(p) - 1
  BY EmptySeq DEF Parent
<1>2. Under(d, p)
  <2>1. Len(p) - 1 \in 0..Len(p) /\ d = SubSeq(p, 1, Len(p) - 1)
    BY <1>1 DEF Parent
  <2> QED
    BY <2>1, PrefixIsAbove
<1>3. Len(r) <= Len(d) /\ Under(r, p)
  BY <1>2, UnderAll
<1> QED
  BY <1>1, <1>2, <1>3

\* A pattern of a subtree that matches a path matches what lies below it.
LEMMA GlobGoesDown ==
  ASSUME NEW glob, IsPath(glob), NEW d \in Seq(STRING),
         NEW n \in Nat, NEW j \in Nat, n < j, j <= Len(d),
         GlobPrefix(glob, SubSeq(SubSeq(d, 1, j), n + 1, j))
  PROVE  GlobPrefix(glob, SubSeq(d, n + 1, Len(d)))
<1> DEFINE q == SubSeq(d, 1, j)
           a == SubSeq(q, n + 1, j)
           b == SubSeq(d, n + 1, Len(d))
<1>1. Len(d) \in Nat /\ Len(glob) \in Nat /\ DOMAIN glob = 1..Len(glob)
  BY DEF IsPath
<1>2. q \in Seq(STRING) /\ Len(q) = j /\ \A i \in 1..j : q[i] = d[i]
  BY <1>1
<1>3. a \in Seq(STRING) /\ Len(a) = j - n /\ \A i \in 1..(j - n) : a[i] = q[n + i]
  BY <1>2
<1>4. b \in Seq(STRING) /\ Len(b) = Len(d) - n /\ \A i \in 1..(Len(d) - n) : b[i] = d[n + i]
  BY <1>1
<1>5. Len(glob) <= j - n /\ \A i \in DOMAIN glob : glob[i] \in {"*", a[i]}
  BY <1>3 DEF GlobPrefix
<1> HIDE DEF q, a, b
<1>6. \A i \in 1..(j - n) : n + i \in 1..j
  OBVIOUS
<1>7. \A i \in DOMAIN glob : a[i] = b[i]
  <2> TAKE i \in DOMAIN glob
  <2>1. i \in 1..(j - n) /\ i \in 1..(Len(d) - n)
    BY <1>1, <1>5
  <2> QED
    BY <2>1, <1>2, <1>3, <1>4, <1>6
<1>8. Len(glob) <= Len(b)
  BY <1>1, <1>4, <1>5
<1> QED
  BY <1>5, <1>7, <1>8 DEF GlobPrefix, b

\* A directory the indexer reads is one the preflight has read: a directory above it that a
\* pattern matches would be excluded with all that is in it.
LEMMA IndexedIsReached ==
  ASSUME IsFS, Named, ~BareDirectory, NEW d \in DirsOf(fs), Under(root, d),
         ~Excluded(excludes, root, d), ~Unreadable(d)
  PROVE  Reached(excludes, d)
<1>1. /\ root \in Seq(STRING) /\ d \in Seq(STRING) /\ Len(root) \in Nat /\ Len(d) \in Nat
      /\ \A i \in 0..(Len(d) - 1) : SubSeq(d, 1, i) \in DirsOf(fs)
  BY DEF IsFS, DirsOf
<1> SUFFICES ASSUME NEW j \in (Len(root) + 1)..Len(d)
             PROVE  /\ SubSeq(d, 1, j) \in DirsOf(fs)
                    /\ ~MatchesAny(AbsoluteMatchers(excludes), SubSeq(d, 1, j))
  BY DEF Reached
<1> DEFINE q == SubSeq(d, 1, j)
<1>2. j \in Nat /\ Len(root) < j /\ j <= Len(d)
  BY <1>1
<1>3. q \in Seq(STRING) /\ Len(q) = j /\ Under(q, d)
  BY <1>1, <1>2, PrefixIsAbove
<1>4. q \in DirsOf(fs)
  <2>1. CASE j = Len(d)
    BY <2>1, <1>1, SubSeqFull
  <2>2. CASE j # Len(d)
    BY <2>2, <1>1, <1>2
  <2> QED
    BY <2>1, <2>2
<1>5. d # root /\ q # root
  BY <1>1, <1>2, <1>3
<1>6. Under(root, q) /\ root \o SubSeq(q, Len(root) + 1, j) = q
  <2>1. \A i \in 1..Len(root) : q[i] = root[i]
    <3>1. \A i \in 1..Len(root) : d[i] = root[i]
      BY <1>1, UnderSelf, UnderAll
    <3> QED
      BY <3>1, <1>1, <1>2
  <2>2. SubSeq(q, 1, Len(root)) = SubSeq(root, 1, Len(root))
    <3>1. /\ SubSeq(q, 1, Len(root)) \in Seq(STRING) /\ SubSeq(root, 1, Len(root)) \in Seq(STRING)
          /\ Len(SubSeq(q, 1, Len(root))) = Len(root) /\ Len(SubSeq(root, 1, Len(root))) = Len(root)
          /\ \A i \in 1..Len(root) : /\ SubSeq(q, 1, Len(root))[i] = q[i]
                                     /\ SubSeq(root, 1, Len(root))[i] = root[i]
      BY <1>1, <1>2, <1>3
    <3> QED
      BY <3>1, <2>1, SeqEqual
  <2>3. root \o SubSeq(q, Len(root) + 1, j) = q
    <3> DEFINE rest == SubSeq(q, Len(root) + 1, j)
    <3>1. /\ rest \in Seq(STRING) /\ Len(rest) = j - Len(root)
          /\ \A i \in 1..(j - Len(root)) : rest[i] = q[Len(root) + i]
      BY <1>1, <1>2, <1>3
    <3> HIDE DEF rest
    <3>2. /\ root \o rest \in Seq(STRING) /\ Len(root \o rest) = j
          /\ \A i \in 1..j : (root \o rest)[i] = IF i <= Len(root) THEN root[i] ELSE rest[i - Len(root)]
      BY <3>1, <1>1, <1>2
    <3>3. \A i \in 1..j : (root \o rest)[i] = q[i]
      <4> TAKE i \in 1..j
      <4>1. CASE i <= Len(root)
        BY <4>1, <3>2, <2>1, <1>1, <1>2
      <4>2. CASE i > Len(root)
        <5>1. i - Len(root) \in 1..(j - Len(root)) /\ Len(root) + (i - Len(root)) = i
          BY <4>2, <1>1, <1>2
        <5> QED
          BY <5>1, <4>2, <3>1, <3>2, <1>1, <1>2
      <4>3. i <= Len(root) \/ i > Len(root)
        BY <1>1, <1>2
      <4> HIDE DEF q
      <4> QED
        BY <4>1, <4>2, <4>3
    <3>4. root \o rest = q
      BY <3>2, <3>3, <1>3, SeqEqual
    <3> QED
      BY <3>4 DEF rest
  <2> QED
    BY <2>2, <2>3, <1>1, <1>2, <1>3 DEF Under, IsPrefix
<1>7. /\ RootRelative(root, q) = {SubSeq(q, Len(root) + 1, j)}
      /\ RootRelative(root, d) = {SubSeq(d, Len(root) + 1, Len(d))}
  BY <1>3, <1>5, <1>6 DEF RootRelative
<1>8. ASSUME NEW x \in AbsoluteMatchers(excludes), Matches(x, SubSeq(q, Len(root) + 1, j))
      PROVE  FALSE
  <2>1. x \in excludes /\ IsPath(x.path) /\ x.form \in {"tree", "file", "glob"}
    BY DEF AbsoluteMatchers, Named
  <2>2. CASE x.form = "file"
    <3>1. x.path = SubSeq(q, Len(root) + 1, j)
      BY <1>8, <2>2 DEF Matches
    <3> QED
      BY <3>1, <2>1, <2>2, <1>4, <1>6 DEF BareDirectory
  <2>3. CASE x.form \in {"tree", "glob"}
    <3>1. GlobPrefix(x.path, SubSeq(q, Len(root) + 1, j))
      BY <1>8, <2>3 DEF Matches
    <3>2. GlobPrefix(x.path, SubSeq(d, Len(root) + 1, Len(d)))
      BY <3>1, <2>1, <1>1, <1>2, GlobGoesDown
    <3>3. Matches(x, SubSeq(d, Len(root) + 1, Len(d)))
      BY <3>2, <2>3 DEF Matches
    <3> QED
      BY <3>3, <2>1, <1>7 DEF Excluded
  <2> QED
    BY <2>1, <2>2, <2>3
<1> QED
  BY <1>4, <1>7, <1>8 DEF MatchesAny

\* Every pattern the options add is one of a path.
LEMMA OptionsName ==
  ASSUME IsFS, \A x \in o.user : x.path \in Seq(STRING)
  PROVE  \A x \in BuildExcludes(fs, root, o).patterns : IsPath(x.path)
<1>1. \A x \in DefaultExcludes(fs, root) : IsPath(x.path)
  <2>1. /\ IsPath(<<"proc">>) /\ IsPath(<<"sys">>) /\ IsPath(<<"swapfile">>) /\ IsPath(<<"cache">>)
    BY DEF IsPath
  <2> QED
    BY <2>1 DEF DefaultExcludes, DirPattern, Pattern, DefaultExcludeDirs, DefaultExcludeFiles, NoiseNames
<1>2. \A x \in HomeExcludes(fs, root) : IsPath(x.path)
  <2>1. IsPath(<<"home">>) /\ IsPath(<<"root">>)
    BY DEF IsPath
  <2> QED
    BY <2>1 DEF HomeExcludes, DirPattern, Pattern, HomeExcludeDirs
<1>3. \A x \in MountExcludes(root, fs.mounts, o.noSnap) : IsPath(x.path)
  <2>1. \A p \in ParseMountinfo(fs.mounts) : p \in Seq(STRING)
    BY DEF ParseMountinfo, IsFS
  <2>2. \A p \in Seq(STRING) : \A rel \in RootRelative(root, p) : rel \in Seq(STRING)
    <3> TAKE p \in Seq(STRING)
    <3>1. \A rel \in RootRelative(root, p) : rel = SubSeq(p, Len(root) + 1, Len(p))
      BY DEF RootRelative
    <3>2. SubSeq(p, Len(root) + 1, Len(p)) \in Seq(STRING)
      <4>1. Len(root) \in Nat /\ Len(p) \in Nat
        BY DEF IsFS
      <4> QED
        BY <4>1
    <3> QED
      BY <3>1, <3>2
  <2> QED
    BY <2>1, <2>2 DEF MountExcludes, DirPattern, Pattern, IsPath
<1>4. IsPath(DirPattern(<<"snap">>).path) /\ IsPath(DirPattern(<<"var", "lib", "flatpak">>).path)
  BY DEF DirPattern, Pattern, IsPath
<1>5. \A x \in o.user : IsPath(x.path)
  BY DEF IsPath
<1> QED
  BY <1>1, <1>2, <1>3, <1>4, <1>5 DEF BuildExcludes

\* One directory of the preflight's walk: its own links are set aside, and its
\* directories go on covering those below it.
LEMMA WalkGoesOn ==
  ASSUME IsFS, Named, WalkCovers, QuarantineSymlinks
  PROVE  WalkCovers' /\ Named'
<1>0. Named'
  BY DEF QuarantineSymlinks, Named, LinksIn
<1> SUFFICES ASSUME changes = 0
             PROVE  WalkCovers'
  BY <1>0 DEF QuarantineSymlinks, WalkCovers
<1>1. /\ pc = "preflight" /\ todo # {} /\ UNCHANGED <<fs, root, o, pc, excludes, changes>>
  BY DEF QuarantineSymlinks
<1>2. PICK dir \in todo :
        /\ todo' = (todo \ {dir})
                     \cup {d \in Children(fs, dir) \cap DirsOf(fs) :
                             ~Unreadable(dir) /\ ~MatchesAny(AbsoluteMatchers(excludes), d)}
        /\ links' = links \cup {l \in LinksIn(dir) :
                      ~Unreadable(dir) /\ ~MatchesAny(AbsoluteMatchers(excludes), l)
                      /\ ~SymlinkTargetResolvable(fs, l)}
  BY <1>1 DEF QuarantineSymlinks
<1>3. /\ root \in Seq(STRING) /\ \A d \in DirsOf(fs) : d \in Seq(STRING)
      /\ \A a \in todo : a \in Seq(STRING) /\ Under(root, a)
  BY <1>1 DEF IsFS, DirsOf, WalkCovers
<1>4. \A a \in todo' : a \in Seq(STRING) /\ Under(root, a)
  <2> TAKE a \in todo'
  <2>1. CASE a \in todo
    BY <2>1, <1>3
  <2>2. CASE a \in Children(fs, dir) \cap DirsOf(fs)
    BY <2>2, <1>3, EntryIsBelow DEF Children
  <2> QED
    BY <2>1, <2>2, <1>2
<1>6. ASSUME NEW d \in DirsOf(fs), Reached(excludes, d)
      PROVE  \/ \A l \in LinksIn(d) : \/ MatchesAny(AbsoluteMatchers(excludes), l)
                                      \/ SymlinkTargetResolvable(fs, l)
                                      \/ l \in links'
             \/ \E a \in todo' : Under(a, d)
  <2>1. CASE Handled(excludes, d)
    BY <2>1, <1>2 DEF Handled
  <2>2. CASE \E a \in todo \ {dir} : Under(a, d)
    BY <2>2, <1>2
  <2>3. CASE Under(dir, d) /\ dir = d
    BY <2>3, <1>2, <1>6 DEF Reached
  <2>4. CASE Under(dir, d) /\ dir # d
    <3> DEFINE c == SubSeq(d, 1, Len(dir) + 1)
    <3>1. /\ dir \in Seq(STRING) /\ d \in Seq(STRING) /\ Len(root) \in Nat
          /\ Len(dir) \in Nat /\ Len(d) \in Nat /\ Len(root) <= Len(dir) /\ Len(dir) <= Len(d)
          /\ \A i \in 1..Len(dir) : dir[i] = d[i]
      BY <2>4, <1>3, UnderAll
    <3>2. Len(dir) < Len(d)
      BY <3>1, <2>4, SeqEqual
    <3>3. c \in Seq(STRING) /\ Len(c) = Len(dir) + 1 /\ Under(c, d)
      <4>1. Len(dir) + 1 \in 0..Len(d)
        BY <3>1, <3>2
      <4> QED
        BY <4>1, <3>1, PrefixIsAbove
    <3>4. Parent(c) = dir /\ c # <<>>
      <4>1. /\ Len(c) - 1 = Len(dir) /\ \A i \in 1..Len(dir) : c[i] = d[i]
        BY <3>1, <3>2, <3>3
      <4> HIDE DEF c
      <4>2. /\ SubSeq(c, 1, Len(dir)) \in Seq(STRING) /\ Len(SubSeq(c, 1, Len(dir))) = Len(dir)
            /\ \A i \in 1..Len(dir) : SubSeq(c, 1, Len(dir))[i] = c[i]
        BY <3>1, <3>3
      <4>3. SubSeq(c, 1, Len(dir)) = dir
        <5>1. \A i \in 1..Len(dir) : SubSeq(c, 1, Len(dir))[i] = dir[i]
          BY <4>1, <4>2, <3>1
        <5> QED
          BY <5>1, <4>2, <3>1, SeqEqual
      <4>4. c # <<>>
        BY <3>1, <3>3, EmptySeq
      <4> QED
        BY <4>1, <4>3, <4>4 DEF Parent
    <3>5. Len(dir) + 1 \in (Len(root) + 1)..Len(d)
      BY <3>1, <3>2
    <3>6. c \in DirsOf(fs) /\ ~MatchesAny(AbsoluteMatchers(excludes), c)
      BY <1>6, <3>5 DEF Reached
    <3>7. ~Unreadable(dir)
      <4>1. \A j \in 0..Len(dir) : j \in 0..Len(d) /\ SubSeq(dir, 1, j) = SubSeq(d, 1, j)
        <5> TAKE j \in 0..Len(dir)
        <5>1. j \in 0..Len(d)
          BY <3>1
        <5>2. /\ SubSeq(dir, 1, j) \in Seq(STRING) /\ Len(SubSeq(dir, 1, j)) = j
              /\ SubSeq(d, 1, j) \in Seq(STRING) /\ Len(SubSeq(d, 1, j)) = j
              /\ \A i \in 1..j : SubSeq(dir, 1, j)[i] = dir[i] /\ SubSeq(d, 1, j)[i] = d[i]
          BY <3>1, <5>1
        <5>3. \A i \in 1..j : SubSeq(dir, 1, j)[i] = SubSeq(d, 1, j)[i]
          BY <3>1, <5>2
        <5> QED
          BY <5>1, <5>2, <5>3, SeqEqual
      <4> QED
        BY <4>1, <1>6 DEF Reached, Unreadable
    <3>8. c \in todo'
      BY <3>4, <3>6, <3>7, <1>2 DEF Children, DirsOf
    <3> QED
      BY <3>3, <3>8
  <2> QED
    BY <2>1, <2>2, <2>3, <2>4, <1>1, <1>6 DEF WalkCovers
<1>7. \A d : Reached(excludes, d)' <=> Reached(excludes, d)
  BY <1>1 DEF Reached, DirsOf, Unreadable, MatchesAny, AbsoluteMatchers
<1>8. \A d : Handled(excludes, d)' <=> \A l \in LinksIn(d) :
               \/ MatchesAny(AbsoluteMatchers(excludes), l)
               \/ SymlinkTargetResolvable(fs, l)
               \/ l \in links'
  BY <1>1 DEF Handled, LinksIn, MatchesAny
<1>9. DirsOf(fs)' = DirsOf(fs)
  BY <1>1
<1>10. ASSUME NEW d \in DirsOf(fs), Reached(excludes, d)
       PROVE  Handled(excludes, d)' \/ \E a \in todo' : Under(a, d)
  BY <1>6, <1>8, <1>10
<1> QED
  BY <1>1, <1>4, <1>7, <1>9, <1>10 DEF WalkCovers

\* A root is left alone by every step but a change of permissions.
LEMMA SameTree ==
  ASSUME UNCHANGED <<fs, root>>
  PROVE  /\ DirsOf(fs)' = DirsOf(fs)
         /\ IsFS => IsFS'
         /\ Enterable(root) => Enterable(root)'
BY DEF IsFS, Enterable

\* The preflight done, no directory it read holds a link that would end the scan and is
\* not excluded.
LEMMA WalkDone ==
  ASSUME IsFS, Named, Quiet, Counted, WalkCovers, StartIndex
  PROVE  Named' /\ NothingHarmful' /\ StaysInside'
<1>1. /\ pc = "preflight" /\ todo = {} /\ pc' = "index" /\ roots' = {root}
      /\ excludes' = excludes \cup {Pattern("file", SubSeq(l, Len(root) + 1, Len(l))) : l \in links}
      /\ UNCHANGED <<fs, root, o, todo, links, changes>>
  BY DEF StartIndex
<1>2. /\ root \in Seq(STRING) /\ \A d \in DirsOf(fs) : d \in Seq(STRING)
      /\ \A l \in DOMAIN fs.to : l \in Seq(STRING) /\ l # <<>>
  BY DEF IsFS, DirsOf
<1>3. Named'
  <2>1. \A l \in links : IsPath(SubSeq(l, Len(root) + 1, Len(l)))
    <3> TAKE l \in links
    <3>1. l \in Seq(STRING)
      BY <1>2 DEF Named
    <3>2. SubSeq(l, Len(root) + 1, Len(l)) \in Seq(STRING)
      BY <3>1, <1>2
    <3> QED
      BY <3>2 DEF IsPath
  <2>2. ASSUME NEW x \in excludes'
        PROVE  IsPath(x.path)
    <3>1. CASE x \in excludes
      BY <3>1 DEF Named
    <3>2. CASE x \notin excludes
      <4>1. PICK l \in links : x = Pattern("file", SubSeq(l, Len(root) + 1, Len(l)))
        BY <3>2, <1>1
      <4>2. x.path = SubSeq(l, Len(root) + 1, Len(l))
        BY <4>1 DEF Pattern
      <4> QED
        BY <4>2, <2>1
    <3> QED
      BY <3>1, <3>2
  <2> QED
    BY <1>1, <2>2 DEF Named
<1>4. ASSUME changes = 0, NEW d \in DirsOf(fs), Reached(excludes, d)', NEW l \in LinksIn(d)
      PROVE  Excluded(excludes', root, l) \/ SymlinkTargetResolvable(fs, l)
  <2>1. Reached(excludes, d)
    BY <1>1, <1>4 DEF Reached, DirsOf, Unreadable, MatchesAny, AbsoluteMatchers
  <2>2. Handled(excludes, d)
    BY <1>1, <1>4, <2>1 DEF WalkCovers
  <2>3. CASE MatchesAny(AbsoluteMatchers(excludes), l)
    BY <2>3, <1>1 DEF MatchesAny, AbsoluteMatchers, Excluded
  <2>4. CASE l \in links
    <3>1. /\ d \in Seq(STRING) /\ l \in Seq(STRING) /\ l # <<>> /\ Parent(l) = d
      BY <1>2, <1>4 DEF LinksIn
    <3>2. Under(root, l) /\ l # root
      BY <3>1, <1>2, <2>1, EntryIsBelow DEF Reached
    <3>3. RootRelative(root, l) = {SubSeq(l, Len(root) + 1, Len(l))}
      BY <3>2 DEF RootRelative
    <3>4. Pattern("file", SubSeq(l, Len(root) + 1, Len(l))) \in excludes'
      BY <1>1, <2>4
    <3>5. Matches(Pattern("file", SubSeq(l, Len(root) + 1, Len(l))), SubSeq(l, Len(root) + 1, Len(l)))
      BY DEF Matches, Pattern
    <3> QED
      BY <3>3, <3>4, <3>5 DEF Excluded
  <2> QED
    BY <2>2, <2>3, <2>4, <1>4 DEF Handled
<1>5. NothingHarmful'
  <2>1. \A d : Harmless(d)' <=>
          \A l \in LinksIn(d) : Excluded(excludes', root, l) \/ SymlinkTargetResolvable(fs, l)
    BY <1>1 DEF Harmless, LinksIn
  <2> QED
    BY <1>1, <1>4, <2>1 DEF NothingHarmful, DirsOf
<1>6. StaysInside'
  BY <1>1 DEF StaysInside, Counted, Enterable
<1> QED
  BY <1>3, <1>5, <1>6

\* While the indexer stays inside the tree, it reads what the preflight has read and queues
\* nothing it cannot enter.
LEMMA DirectoryIsHarmless ==
  ASSUME IsFS, Named, NothingHarmful, StaysInside, IndexDirectory
  PROVE  StaysInside'
<1>1. /\ pc = "index" /\ todo # {}
      /\ UNCHANGED <<fs, root, o, pc, excludes, links, seen, incomplete, changes>>
  BY DEF IndexDirectory
<1> SUFFICES ASSUME changes = 0, ~BareDirectory, ~LeftTheTree
             PROVE  /\ \A d \in todo' : d \in DirsOf(fs) /\ Under(root, d) /\ ~Excluded(excludes, root, d)
                    /\ \A r \in roots' : Enterable(r)
  BY <1>1 DEF StaysInside, BareDirectory, LeftTheTree, Enterable, Entry, DirsOf
<1>2. PICK dir \in todo :
        LET meets == {p \in Children(fs, dir) \cup LinksIn(dir) :
                        ~Unreadable(dir) /\ ~Excluded(excludes, root, p)}
        IN  /\ todo' = (todo \ {dir}) \cup (meets \cap DirsOf(fs))
            /\ roots' = roots \cup ({fs.to[l] : l \in {k \in meets \cap DOMAIN fs.to :
                                       Stat(fs, fs.to[k]) # "absent"}} \ seen)
  BY <1>1 DEF IndexDirectory
<1> DEFINE met == {p \in Children(fs, dir) \cup LinksIn(dir) :
                     ~Unreadable(dir) /\ ~Excluded(excludes, root, p)}
<1>3. /\ todo' = (todo \ {dir}) \cup (met \cap DirsOf(fs))
      /\ roots' = roots \cup ({fs.to[l] : l \in {k \in met \cap DOMAIN fs.to :
                                 Stat(fs, fs.to[k]) # "absent"}} \ seen)
  BY <1>2
<1>4. /\ root \in Seq(STRING) /\ \A d \in DirsOf(fs) : d \in Seq(STRING)
      /\ \A l \in DOMAIN fs.to : l \in Seq(STRING) /\ l # <<>>
  BY DEF IsFS, DirsOf
<1>5. /\ \A d \in todo : d \in DirsOf(fs) /\ Under(root, d) /\ ~Excluded(excludes, root, d)
      /\ \A r \in roots : Enterable(r)
  BY <1>1 DEF StaysInside
<1>6. ASSUME NEW d \in todo'
      PROVE  d \in DirsOf(fs) /\ Under(root, d) /\ ~Excluded(excludes, root, d)
  <2>1. CASE d \in todo
    BY <2>1, <1>5
  <2>2. CASE d \in met \cap DirsOf(fs)
    <3>1. ~Excluded(excludes, root, d) /\ d # <<>> /\ Parent(d) = dir
      BY <2>2, <1>3, <1>4 DEF Children, LinksIn
    <3>2. Under(root, d)
      BY <2>2, <3>1, <1>4, <1>5, EntryIsBelow
    <3> QED
      BY <2>2, <3>1, <3>2
  <2> QED
    BY <2>1, <2>2, <1>3, <1>6
<1>7. ASSUME NEW l \in met \cap DOMAIN fs.to, Stat(fs, fs.to[l]) # "absent"
      PROVE  Enterable(fs.to[l])
  <2>1. ~Unreadable(dir) /\ ~Excluded(excludes, root, l)
    BY <1>3, <1>7
  <2>2. l \in LinksIn(dir)
    BY <1>3, <1>7 DEF Children, LinksIn
  <2>3. Reached(excludes, dir)
    BY <2>1, <1>5, IndexedIsReached
  <2>4. SymlinkTargetResolvable(fs, l)
    BY <1>1, <1>5, <2>1, <2>2, <2>3 DEF NothingHarmful, Harmless
  <2> QED
    BY <2>4, <1>7 DEF SymlinkTargetResolvable, Enterable
<1> QED
  BY <1>3, <1>5, <1>6, <1>7

\* A root is entered below the scan's own, or the indexer has left the tree.
LEMMA RootIsHarmless ==
  ASSUME IsFS, Counted, StaysInside, Quiet, AbortNeedsAChange, IndexRoot
  PROVE  StaysInside' /\ AbortNeedsAChange' /\ Quiet'
<1>1. /\ pc = "index" /\ todo = {} /\ roots # {}
      /\ UNCHANGED <<fs, root, o, excludes, probe, links, changes>>
  BY DEF IndexRoot
<1>2. PICK r \in roots :
        /\ roots' = roots \ {r} /\ seen' = seen \cup {r}
        /\ ~Enterable(r) => pc' = "done" /\ incomplete' = TRUE
        /\ Enterable(r) => /\ todo' = {d \in {Entry(r)} \cap DirsOf(fs) : ~Excluded(excludes, root, d)}
                           /\ UNCHANGED <<pc, incomplete>>
  BY <1>1 DEF IndexRoot
<1>3. /\ BareDirectory' <=> BareDirectory
      /\ LeftTheTree' <=> \E x \in seen' : Enterable(x) /\ ~Under(root, Entry(x))
      /\ LeftTheTree => LeftTheTree'
      /\ \A x : Enterable(x)' <=> Enterable(x)
      /\ DirsOf(fs)' = DirsOf(fs)
  BY <1>1, <1>2 DEF BareDirectory, LeftTheTree, Enterable, Entry, DirsOf
<1>4. CASE Enterable(r)
  <2>1. ~LeftTheTree' => \A d \in todo' : d \in DirsOf(fs) /\ Under(root, d) /\ ~Excluded(excludes, root, d)
    BY <1>2, <1>3, <1>4
  <2>2. StaysInside'
    BY <1>1, <1>2, <1>3, <1>4, <2>1 DEF StaysInside
  <2> QED
    BY <2>2, <1>1, <1>2, <1>4 DEF Quiet, AbortNeedsAChange
<1>5. CASE ~Enterable(r)
  <2>1. changes = 0 => BareDirectory \/ LeftTheTree
    BY <1>1, <1>5 DEF StaysInside
  <2> QED
    BY <2>1, <1>1, <1>2, <1>3, <1>5 DEF StaysInside, AbortNeedsAChange, Quiet, Counted
<1> QED
  BY <1>4, <1>5

LEMMA AbortInvInit == Init => AbortInv
<1> SUFFICES ASSUME Init PROVE AbortInv
  OBVIOUS
<1>1. PICK t \in Trees : fs = t.fs /\ root = t.root
  BY DEF Init
<1>2. IsFS /\ Enterable(root)
  BY <1>1, FileTreeConstants DEF IsFS, Enterable, DirsOf
<1>3. Named
  BY OptionConstants DEF Init, Named
<1> QED
  BY <1>2, <1>3 DEF Init, AbortInv, Quiet, Counted, WalkCovers, NothingHarmful, StaysInside, AbortNeedsAChange

LEMMA AbortInvStep == AbortInv /\ [Next]_vars => AbortInv'
<1> SUFFICES ASSUME AbortInv, [Next]_vars PROVE AbortInv'
  OBVIOUS
<1> USE DEF AbortInv
<1>1. CASE ComputeExcludes
  <2>1. /\ pc = "excludes" /\ pc' \in {"elf", "usage"} /\ excludes' = BuildExcludes(fs, root, o).patterns
        /\ UNCHANGED <<fs, root, o, links, incomplete, changes>>
    BY <1>1 DEF ComputeExcludes
  <2>2. \A x \in excludes' : IsPath(x.path)
    BY <2>1, OptionsName DEF Named
  <2>3. IsFS' /\ Counted'
    BY <2>1, SameTree DEF Counted
  <2> QED
    BY <2>1, <2>2, <2>3
       DEF Named, Quiet, WalkCovers, NothingHarmful, StaysInside, AbortNeedsAChange
<1>2. CASE ProbeExecutables
  <2>1. /\ pc = "elf" /\ pc' = "preflight" /\ todo' = {root}
        /\ UNCHANGED <<fs, root, o, excludes, links, incomplete, changes>>
    BY <1>2 DEF ProbeExecutables
  <2>2. IsFS' /\ Counted'
    BY <2>1, SameTree DEF Counted
  <2>3. root \in Seq(STRING) /\ Under(root, root)
    BY UnderSelf DEF IsFS
  <2>4. WalkCovers'
    BY <2>1, <2>3 DEF WalkCovers, Reached
  <2> QED
    BY <2>1, <2>2, <2>4 DEF Named, Quiet, NothingHarmful, StaysInside, AbortNeedsAChange
<1>3. CASE QuarantineSymlinks
  <2>1. WalkCovers' /\ Named'
    BY <1>3, WalkGoesOn
  <2>2. pc = "preflight" /\ UNCHANGED <<fs, root, pc, incomplete, changes>>
    BY <1>3 DEF QuarantineSymlinks
  <2>3. IsFS' /\ Counted'
    BY <2>2, SameTree DEF Counted
  <2> QED
    BY <2>1, <2>2, <2>3 DEF Quiet, NothingHarmful, StaysInside, AbortNeedsAChange
<1>4. CASE StartIndex
  <2>1. Named' /\ NothingHarmful' /\ StaysInside'
    BY <1>4, WalkDone
  <2>2. pc = "preflight" /\ pc' = "index" /\ UNCHANGED <<fs, root, incomplete, changes>>
    BY <1>4 DEF StartIndex
  <2>3. IsFS' /\ Counted'
    BY <2>2, SameTree DEF Counted
  <2> QED
    BY <2>1, <2>2, <2>3 DEF Quiet, WalkCovers, AbortNeedsAChange
<1>5. CASE IndexRoot
  <2>1. StaysInside' /\ AbortNeedsAChange' /\ Quiet'
    BY <1>5, RootIsHarmless
  <2>2. /\ pc = "index" /\ pc' \in {"index", "done"}
        /\ UNCHANGED <<fs, root, o, excludes, links, changes>>
    BY <1>5 DEF IndexRoot
  <2>3. IsFS' /\ Counted'
    BY <2>2, SameTree DEF Counted
  <2>4. NothingHarmful'
    BY <2>2 DEF NothingHarmful, Reached, Harmless, Unreadable, LinksIn, MatchesAny
  <2> QED
    BY <2>1, <2>2, <2>3, <2>4 DEF Named, WalkCovers
<1>6. CASE IndexDirectory
  <2>1. StaysInside'
    BY <1>6, DirectoryIsHarmless
  <2>2. pc = "index" /\ UNCHANGED <<fs, root, o, pc, excludes, links, seen, incomplete, changes>>
    BY <1>6 DEF IndexDirectory
  <2>3. IsFS' /\ Counted'
    BY <2>2, SameTree DEF Counted
  <2>4. NothingHarmful'
    BY <2>2 DEF NothingHarmful, Reached, Harmless, Unreadable, LinksIn, MatchesAny
  <2> QED
    BY <2>1, <2>2, <2>3, <2>4 DEF Named, Quiet, WalkCovers, AbortNeedsAChange
<1>7. CASE Finish
  <2>1. pc = "index" /\ pc' = "done" /\ UNCHANGED <<fs, root, o, excludes, links, incomplete, changes>>
    BY <1>7 DEF Finish
  <2>2. IsFS' /\ Counted'
    BY <2>1, SameTree DEF Counted
  <2> QED
    BY <2>1, <2>2 DEF Named, Quiet, WalkCovers, NothingHarmful, StaysInside, AbortNeedsAChange
<1>8. CASE \E dir \in Revocable : Revoke(dir)
  <2>1. PICK dir \in Revocable : Revoke(dir)
    BY <1>8
  <2>2. IsFS' /\ fs'.to = fs.to
    BY <2>1, RevokeKeeps
  <2>3. changes' = changes + 1 /\ UNCHANGED <<o, pc, excludes, links, incomplete>>
    BY <2>1 DEF Revoke
  <2>4. changes' \in Nat /\ changes' > 0
    BY <2>3 DEF Counted
  <2> QED
    BY <2>2, <2>3, <2>4
       DEF Named, Quiet, Counted, WalkCovers, NothingHarmful, StaysInside, AbortNeedsAChange
<1>9. CASE UNCHANGED vars
  <2>1. UNCHANGED <<fs, root, o, pc, excludes, todo, links, roots, seen, incomplete, changes>>
    BY <1>9 DEF vars
  <2>2. IsFS' /\ Counted' /\ Named' /\ Quiet'
    BY <2>1, SameTree DEF Counted, Named, Quiet
  <2>3. WalkCovers'
    BY <2>1 DEF WalkCovers, Reached, Handled, Unreadable, LinksIn, MatchesAny
  <2>4. NothingHarmful'
    BY <2>1 DEF NothingHarmful, Reached, Harmless, Unreadable, LinksIn, MatchesAny
  <2>5. StaysInside' /\ AbortNeedsAChange'
    BY <2>1 DEF StaysInside, AbortNeedsAChange, BareDirectory, LeftTheTree, Enterable, Entry
  <2> QED
    BY <2>2, <2>3, <2>4, <2>5
<1> QED
  BY <1>1, <1>2, <1>3, <1>4, <1>5, <1>6, <1>7, <1>8, <1>9 DEF Next, Stopped

-----------------------------------------------------------------------------
(* The theorems.                                                           *)

\* Nothing a pattern of the scan matches gets into the index, by whatever name or
\* link the indexer came to it, and whoever took permissions away meanwhile (the
\* patterns are those of internal/scan/options.go and the quarantined links of
\* internal/scan/preflight.go).
THEOREM ExcludedIsNeverIndexed ==
  Spec => [](\A p \in indexed : ~Excluded(excludes, root, p))
<1>1. IndexInv => \A p \in indexed : ~Excluded(excludes, root, p)
  BY DEF IndexInv, IndexedIsNotExcluded
<1> QED
  BY <1>1, IndexInvInit, IndexInvStep, PTL DEF Spec

\* With the exclusion of mounts on, no file of a mount below the root that is not
\* local is indexed, whichever name or link led there (internal/scan/options.go).
THEOREM RemoteNeverIndexedAlways == Spec => []RemoteNeverIndexed
<1>1. ASSUME IndexInv
      PROVE  RemoteNeverIndexed
  <2> SUFFICES ASSUME o.autoMounts, NEW p \in indexed, NEW m \in MountOf(p),
                      Under(root, m.point), m.point # root,
                      m.parses, m.type \in NonLocalFilesystems,
                      ~(IsSnapMount(m.point) /\ ~o.noSnap)
               PROVE  FALSE
    BY DEF RemoteNeverIndexed
  <2>1. /\ p \in Seq(STRING) /\ root \in Seq(STRING)
        /\ m \in fs.mounts /\ m.point \in Seq(STRING) /\ Under(m.point, p)
        /\ ~Excluded(excludes, root, p)
    BY <1>1 DEF IndexInv, IsFS, IndexedIsNotExcluded, MountOf
  <2>2. pc \notin {"excludes", "usage"}
    BY <1>1 DEF IndexInv, IndexedIsNotExcluded
  <2>3. MountExcludes(root, fs.mounts, o.noSnap) \subseteq excludes
    BY <1>1, <2>2 DEF IndexInv, MountsExcluded
  <2>4. m.point # <<>>
    <3> SUFFICES ASSUME m.point = <<>>
                 PROVE  FALSE
      OBVIOUS
    <3>1. Len(root) <= Len(m.point)
      BY DEF Under, IsPrefix
    <3> QED
      BY <2>1, <3>1, EmptySeq
  <2>5. m.point \in ParseMountinfo(fs.mounts)
    BY <2>1, <2>4 DEF ParseMountinfo
  <2>6. \A rel \in RootRelative(root, m.point) : DirPattern(rel) \in excludes
    BY <2>3, <2>5 DEF MountExcludes
  <2> QED
    BY <2>1, <2>6, TreeExcludes
<1> QED
  BY <1>1, IndexInvInit, IndexInvStep, PTL DEF Spec
\* A link ends the indexing only of a tree whose permissions changed meanwhile, of one
\* where the operator excluded a directory by its bare name, or after another link led the
\* indexer out of the tree: the preflight finds every other (internal/scan/preflight.go).
THEOREM AbortNeedsAChangeAlways == Spec => []AbortNeedsAChange
<1>1. AbortInv => AbortNeedsAChange
  BY DEF AbortInv
<1> QED
  BY <1>1, AbortInvInit, AbortInvStep, PTL DEF Spec
=============================================================================
