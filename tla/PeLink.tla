------------------------------- MODULE PeLink -------------------------------
(***************************************************************************)
(* Which DLLs a Windows binary loads, from its import table and theirs     *)
(* (internal/pelink): directory of the importer, of the application, of    *)
(* the system.  The parses are cached, and after the deadline only the     *)
(* cache answers.  pe gives what every PE file imports; files are the      *)
(* paths on disk.                                                          *)
(***************************************************************************)
EXTENDS Integers, SequencesExt

PeDepth  == 3
APISets  == {"api-ms"}
SystemDir == <<"C", "windows">>

PeDir(p) == SubSeq(p, 1, Len(p) - 1)

\* The first of the three directories that has the file.
PeResolve(files, name, objDir, appDir) ==
  LET dirs == <<objDir, appDir, SystemDir>>
      hits == {i \in DOMAIN dirs : Append(dirs[i], name) \in files}
  IN  IF hits = {} THEN <<>> ELSE Append(dirs[CHOOSE i \in hits : \A j \in hits : i <= j], name)

\* What a file imports, as far as its parse may be used.
Imports(pe, usable, p) == IF p \in DOMAIN pe \cap usable THEN pe[p] ELSE <<>>

PeItems(names, dir, hop) == [i \in DOMAIN names |-> [name |-> names[i], from |-> dir, hop |-> hop]]

\* One name off the queue: listed once, looked for from the importer that asked first.
PeStep(pe, files, usable, appDir, s) ==
  LET it   == Head(s.queue)
      path == IF it.name \in APISets THEN <<>> ELSE PeResolve(files, it.name, it.from, appDir)
      deep == path # <<>> /\ it.hop < PeDepth
  IN  IF it.name \in {l.name : l \in s.out} THEN [s EXCEPT !.queue = Tail(@)]
      ELSE [queue |-> Tail(s.queue)
                      \o (IF deep THEN PeItems(Imports(pe, usable, path), PeDir(path), it.hop + 1)
                          ELSE <<>>),
            out |-> s.out \cup {[name |-> it.name, path |-> path, direct |-> it.hop = 1,
                                 api |-> it.name \in APISets]},
            parsed |-> s.parsed \cup (IF deep THEN {path} ELSE {})]

\* Until the queue is empty: a name is listed once, and brings the imports of one file.
\* The state is kept in a set, and binding s evaluates each step once.
PeDrain(pe, files, usable, appDir, s0) ==
  LET names == UNION {Range(pe[p]) : p \in DOMAIN pe}
      steps == (Cardinality(names) + 1) * Max({0} \cup {Len(pe[p]) : p \in DOMAIN pe})
      next(s) == IF s.queue = <<>> THEN s ELSE PeStep(pe, files, usable, appDir, s)
      after[i \in 0..steps] == IF i = 0 THEN {s0} ELSE {next(s) : s \in after[i - 1]}
  IN  CHOOSE s \in after[steps] : TRUE

\* The links of one binary, and what was parsed for them: all there is to parse, or after
\* the deadline nothing, and the cache answers.
PeProbe(pe, files, cache, late, exe) ==
  LET usable == IF late THEN cache ELSE DOMAIN pe
      end == PeDrain(pe, files, usable, PeDir(exe),
                     [queue |-> PeItems(Imports(pe, usable, exe), PeDir(exe), 1), out |-> {},
                      parsed |-> {exe}])
  IN  [out |-> end.out, parsed |-> IF late THEN {} ELSE end.parsed]
=============================================================================
