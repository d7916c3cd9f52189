----------------------------- MODULE MCFileTree -----------------------------
\* Small trees for FileTree: the host itself, or the same tree below /img.
EXTENDS FileTree

Dirs == {<<"usr">>, <<"usr", "bin">>, <<"usr", "lib">>, <<"opt">>, <<"opt", "app">>,
         <<"opt", "app", "x">>, <<"home">>, <<"data">>, <<"proc">>,
         <<"snap">>, <<"snap", "core">>, <<"etc">>}
Files == {<<"usr", "bin", "d">>, <<"usr", "lib", "a">>, <<"usr", "lib", "z1">>, <<"opt", "app", "a">>,
          <<"home", "py">>, <<"data", "f">>, <<"proc", "f">>, <<"snap", "core", "f">>,
          <<"etc", "ld.so.conf">>, <<"etc", "os-release">>}
Elf(needed, runpath) == [needed |-> needed, runpath |-> runpath, rpath |-> <<>>]

\* d needs z and a; a, found beside d or in the standard directories, needs z and c; z is a
\* link, in an image one that begins at /.
ElfFiles(runpath) ==
  <<"usr", "bin", "d">> :> Elf(<<"a", "z", "/etc/shadow">>, runpath)
  @@ <<"usr", "lib", "a">> :> Elf(<<"z", "c">>, <<>>)
  @@ <<"opt", "app", "a">> :> Elf(<<"z", "d">>, <<>>)
  @@ <<"usr", "lib", "z1">> :> Elf(<<"a">>, <<>>)

Below(at, f) == [p \in {at \o q : q \in DOMAIN f} |-> f[SubSeq(p, Len(at) + 1, Len(p))]]
Line(point, type, parses) == [point |-> point, type |-> type, parses |-> parses]

Tree(at, deny, target, parses, runpath) ==
  LET kinds == [p \in Dirs \cup Files |-> IF p \in Dirs THEN "dir" ELSE "file"]
      image == at # <<>>
      rel   == <<"lib">> :> <<"usr", "lib">> @@ <<"srv">> :> <<"opt", "app", "x">>
      abs   == <<"usr", "lib", "z">> :> <<"usr", "lib", "z1">>
      l     == <<"opt", "app", "x", "l">> :> target
      to    == Below(at, [p \in DOMAIN rel \cup DOMAIN l |-> at \o (rel @@ l)[p]])
               @@ Below(at, abs)
  IN  [fs |-> [kind |-> Below(at, kinds) @@ (<<>> :> "dir") @@ (at :> "dir")
                        @@ (IF image THEN (<<"usr">> :> "dir") @@ (<<"usr", "lib">> :> "dir")
                                          @@ (<<"usr", "lib", "z1">> :> "file") ELSE <<>>),
               to |-> to, relative |-> {at \o p : p \in DOMAIN rel \cup DOMAIN l},
               deny |-> {at \o d : d \in deny},
               mounts |-> {Line(<<>>, "ext4", TRUE),
                           Line(at \o <<"data">>, "nfs", parses),
                           Line(at \o <<"snap", "core">>, "squashfs", TRUE)},
               elf |-> Below(at, ElfFiles(runpath)),
               conf |-> (at \o <<"etc", "ld.so.conf">>) :> <<[include |-> FALSE, path |-> <<"opt", "app">>]>>],
       root |-> at]

MCTargets == {<<"home", "py">>, <<"data", "f">>, <<"gone">>, <<"opt">>, <<"lib", "a">>}
MCTrees ==
  {Tree(at, deny, target, parses, runpath) :
     at \in {<<>>, <<"img">>}, deny \in {{}, {<<"home">>}}, target \in MCTargets,
     parses \in BOOLEAN,
     runpath \in {<<>>, <<[origin |-> FALSE, dir |-> <<"usr", "lib">>]>>}}

Option(user, auto, includeHome, noSnap, scope) ==
  [user |-> user, autoMounts |-> auto, includeHome |-> includeHome, noSnap |-> noSnap,
   noFlatpak |-> FALSE, elfScope |-> scope]
MCOptions ==
  {Option({}, TRUE, FALSE, FALSE, "all"),
   Option({Pattern("one", <<"x">>)}, TRUE, FALSE, FALSE, "all"),
   Option({Pattern("tree", <<"opt", "app">>)}, TRUE, TRUE, TRUE, "listening"),
   Option({}, FALSE, TRUE, FALSE, "off"),
   Option({Pattern("file", <<"opt", "app">>)}, FALSE, TRUE, FALSE, "off"),
   Option({Pattern("bad", <<"opt">>)}, TRUE, FALSE, FALSE, "all")}
MCExes == {<<"usr", "bin", "d">>}
MCRevocable == {<<"home">>, <<"img", "home">>, <<"opt">>}
=============================================================================
