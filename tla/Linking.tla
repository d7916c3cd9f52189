------------------------------ MODULE Linking ------------------------------
(***************************************************************************)
(* Which libraries an ELF executable loads, read without running anything  *)
(* (internal/elflink/elflink.go, internal/elflink/walk.go): its needs and  *)
(* theirs, at most maxDepth away, each resolved as the dynamic linker      *)
(* would, inside a chosen root.                                            *)
(*                                                                         *)
(* Paths are sequences of names.  Those of fs are the system's; those of a *)
(* link, of a search directory and of what is found are the root's.        *)
(* fs.elf gives every ELF file [needed, runpath, rpath]; an entry of a     *)
(* search path is [origin, dir], origin when it begins with $ORIGIN.       *)
(***************************************************************************)
EXTENDS Excludes

StandardDirs == << <<"lib">>, <<"usr", "lib">> >>
BinaryDirs   == << <<"usr", "bin">>, <<"usr", "lib">>, <<"opt">> >>
LdConf       == <<"etc", "ld.so.conf">>
SlashNames   == {"/etc/shadow"}
DefaultDepth == 3
Nowhere      == <<>>

----------------------------------------------------------------------------
(* Resolving a name *)

\* A file by its name below the root; the name of one outside begins with "..".
At(root, name) == IF name[1] = ".." THEN Tail(name) ELSE root \o name
NameOf(root, p) == IF Under(root, p) THEN SubSeq(p, Len(root) + 1, Len(p)) ELSE <<"..">> \o p

\* The directory of every path but its last name is the kernel's to resolve.
Lstat(fs, p) ==
  IF Stat(fs, Parent(p)) = "ok" THEN Append(Resolve(fs, Parent(p)).path, p[Len(p)]) ELSE Nowhere

\* The target of a link, where an absolute one starts at the root that is probed.
ReadLink(fs, root, at) ==
  IF at \in fs.relative THEN SubSeq(fs.to[at], Len(root) + 1, Len(fs.to[at])) ELSE fs.to[at]

\* The regular file a path leads to in MaxHops links.
Realpath(fs, root, p) ==
  LET at(q)  == IF q = Nowhere THEN Nowhere ELSE Lstat(fs, root \o q)
      hop(q) == The({IF l \in DOMAIN fs.to THEN ReadLink(fs, root, l) ELSE q : l \in {at(q)}})
      end    == FoldLeft(LAMBDA q, i : hop(q), p, [i \in 1..(MaxHops - 1) |-> i])
      file(l) == l \in DOMAIN fs.kind /\ fs.kind[l] = "file"
  IN  The({IF \E l \in {at(q)} : file(l) THEN q ELSE Nowhere : q \in {end}})

\* /etc/ld.so.conf: directories in the order of its lines, an included file in place
\* of the line, at most two includes deep.
Include(fs, root, lines) ==
  FlattenSeq([i \in DOMAIN lines |->
    IF ~lines[i].include THEN <<lines[i]>>
    ELSE IF root \o lines[i].path \in DOMAIN fs.conf THEN fs.conf[root \o lines[i].path]
    ELSE <<>>])
LdConfDirs(fs, root) ==
  LET lines == FoldLeft(LAMBDA read, depth : Include(fs, root, read),
                        <<[include |-> TRUE, path |-> LdConf]>>, <<0, 1, 2>>)
      named == SelectSeq(lines, LAMBDA line : ~line.include)
  IN  [i \in DOMAIN named |-> named[i].path]

\* The object's own directories, $ORIGIN being where it lies: RUNPATH, or RPATH without one.
SearchDirs(fs, root, object) ==
  LET elf == fs.elf[At(root, object)]
      entries == IF elf.runpath # <<>> THEN elf.runpath ELSE elf.rpath
  IN  [i \in DOMAIN entries |->
        (IF entries[i].origin THEN Parent(object) ELSE <<>>) \o entries[i].dir]

ResolveSoname(fs, root, soname, dirs) ==
  FoldLeft(LAMBDA found, dir : IF found # Nowhere THEN found
                               ELSE Realpath(fs, root, Append(dir, soname)),
           Nowhere, dirs \o LdConfDirs(fs, root) \o StandardDirs)

----------------------------------------------------------------------------
(* The queue of needs *)

Item(soname, dirs, depth) == [soname |-> soname, dirs |-> dirs, depth |-> depth]
Needs(fs, root, object, depth) ==
  LET needed == fs.elf[At(root, object)].needed
  IN  [i \in DOMAIN needed |-> Item(needed[i], SearchDirs(fs, root, object), depth)]

\* Mutant: the needs of a library are queued in front of the others.
StepDepthFirst(fs, root, s) ==
  LET it == Head(s.queue)
      path == IF it.soname \in SlashNames THEN Nowhere
              ELSE ResolveSoname(fs, root, it.soname, it.dirs)
  IN  IF it.soname \in {l.soname : l \in s.out} THEN [s EXCEPT !.queue = Tail(@)]
      ELSE [queue |-> (IF path # Nowhere /\ root \o path \in DOMAIN fs.elf /\ it.depth < DefaultDepth
                       THEN Needs(fs, root, path, it.depth + 1) ELSE <<>>) \o Tail(s.queue),
            out |-> s.out \cup {[soname |-> it.soname, path |-> path, direct |-> it.depth = 1]}]

\* One name off the queue: listed once, resolved with the directories of whoever asked
\* first; what it needs itself joins the queue unless it lies too deep.
Step(fs, root, s) ==
  LET it == Head(s.queue)
      path == IF it.soname \in SlashNames THEN Nowhere
              ELSE ResolveSoname(fs, root, it.soname, it.dirs)
  IN  IF it.soname \in {l.soname : l \in s.out} THEN [s EXCEPT !.queue = Tail(@)]
      ELSE [queue |-> Tail(s.queue)
                      \o (IF path # Nowhere /\ root \o path \in DOMAIN fs.elf /\ it.depth < DefaultDepth
                          THEN Needs(fs, root, path, it.depth + 1) ELSE <<>>),
            out |-> s.out \cup {[soname |-> it.soname, path |-> path, direct |-> it.depth = 1]}]

\* Until the queue is empty: a name is listed once, and brings the needs of one file.
Drain(fs, root, s0) ==
  LET needed == {fs.elf[p].needed : p \in DOMAIN fs.elf}
      names  == UNION {Range(n) : n \in needed}
      steps  == (Cardinality(names) + 1) * Max({Len(n) : n \in needed})
      next(t) == IF t.queue = <<>> THEN t ELSE Step(fs, root, t)
  IN  FoldLeft(LAMBDA s, i : The({next(t) : t \in {s}}), s0, [i \in 1..steps |-> i]).out

\* A file that is not ELF is an error, a static one has no links: neither is listed.
Probe(fs, root, exe) ==
  IF At(root, exe) \notin DOMAIN fs.elf THEN {}
  ELSE Drain(fs, root, [queue |-> Needs(fs, root, exe, 1), out |-> {}])

Paths(links) == {l.path : l \in links} \ {Nowhere}

----------------------------------------------------------------------------
(* The walk of --elf-scope all *)

\* A top-level directory is entered where its links lead, and once; the operator's
\* subtrees are left out, and every ELF file below is named from the root.
FindELF(fs, root, excludes) ==
  LET tops == {Resolve(fs, root \o BinaryDirs[i]).path :
                 i \in {j \in DOMAIN BinaryDirs : Stat(fs, root \o BinaryDirs[j]) = "ok"}}
      named(p) == IF Under(root, p) THEN SubSeq(p, Len(root) + 1, Len(p)) ELSE p
      skip(p) == \E e \in SubtreeExcludes(excludes) : Under(e, named(p))
      shut(p) == \E j \in 0..(Len(p) - 1) : SubSeq(p, 1, j) \in fs.deny
  IN  {p \in DOMAIN fs.elf : ~skip(p) /\ ~shut(p) /\ \E top \in tops : Under(top, p)}

ProbeAll(fs, root, paths) ==
  LET names == {NameOf(root, p) : p \in paths}
  IN  [n \in {m \in names : Probe(fs, root, m) # {}} |-> Probe(fs, root, n)]

----------------------------------------------------------------------------
(* The pass of a run: listeners of the host, then everything when asked *)

\* cmd/swinv/elfscope.go.  The walk is given the operator's patterns, not the list the
\* scan excludes.
ProbeELF(fs, root, o, exes) ==
  LET host == [e \in {x \in exes : Probe(fs, <<>>, x) # {}} |-> Probe(fs, <<>>, e)]
      all  == IF o.elfScope = "all" THEN ProbeAll(fs, root, FindELF(fs, root, o.user)) ELSE <<>>
  IN  IF o.elfScope = "off" THEN [byExe |-> <<>>, libPaths |-> {}, walked |-> {}]
      ELSE [byExe |-> host @@ all, walked |-> DOMAIN all,
            libPaths |-> UNION ({Paths(host[e]) : e \in DOMAIN host}
                                \cup {Paths(all[e]) : e \in DOMAIN all})]
=============================================================================
