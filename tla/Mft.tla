-------------------------------- MODULE Mft --------------------------------
(***************************************************************************)
(* The files of an NTFS volume, read from its Master File Table instead of *)
(* its directories (internal/usn): records in the order of their indexes,  *)
(* from which the paths are put together at the end.                       *)
(*                                                                         *)
(* A record is [ref, parent, name, dir], a reference [index, seq]: seq     *)
(* counts how often the index was used.  A path is a sequence of names,    *)
(* the volume first.                                                       *)
(***************************************************************************)
EXTENDS Integers, SequencesExt

RootFileIndex == [index |-> 5, seq |-> 0]
MaxPathDepth  == 4      \* 512 in the code

\* The identity of a file: its reference without the sequence number.
MftIndex(ref) == [ref EXCEPT !.seq = 0]

----------------------------------------------------------------------------
(* One volume *)

\* DeviceIoControl: the next n records in use from the cursor on.
RecordsFrom(mft, cursor, n) ==
  LET left == {r \in mft : r.ref.index >= cursor}
  IN  {r \in left : Cardinality({s \in left : s.ref.index < r.ref.index}) < n}
NextCursor(records) == 1 + Max({r.ref.index : r \in records})

\* The directories kept for the paths, by their index.
WithDirs(dirs, records) ==
  LET new == {r \in records : r.dir}
      key == {MftIndex(r.ref) : r \in new}
      at(i) == CHOOSE r \in new : MftIndex(r.ref) = i
  IN  [i \in DOMAIN dirs \cup key |->
        IF i \in key THEN [name |-> at(i).name, parent |-> at(i).parent] ELSE dirs[i]]

\* One directory up.  Lost is a parent that is missing or is its own.
Up(dirs, s) ==
  IF s.at = RootFileIndex \/ s.lost THEN s
  ELSE IF s.at \notin DOMAIN dirs \/ MftIndex(dirs[s.at].parent) = s.at
  THEN [at |-> s.at, path |-> s.path, lost |-> TRUE]
  ELSE [at |-> MftIndex(dirs[s.at].parent), path |-> <<dirs[s.at].name>> \o s.path, lost |-> FALSE]

\* The directories from the root down to one, in a set: empty for a missing parent, a
\* cycle or too many of them.
Chain(dirs, from) ==
  LET above[depth \in 0..MaxPathDepth] ==
        IF depth = 0 THEN {[at |-> from, path |-> <<>>, lost |-> FALSE]}
        ELSE {Up(dirs, s) : s \in above[depth - 1]}
  IN  {s.path : s \in {t \in above[MaxPathDepth] : t.at = RootFileIndex /\ ~t.lost}}

ResolvePath(volume, dirs, parent, name) ==
  LET chains == Chain(dirs, MftIndex(parent))
  IN  IF chains = {} THEN <<>> ELSE <<volume>> \o (CHOOSE c \in chains : TRUE) \o <<name>>

\* The records that were kept, with their paths; <<>> where there is none.
BuildResult(volume, dirs, candidates) ==
  {[name |-> c.name, path |-> ResolvePath(volume, dirs, c.parent, c.name)] : c \in candidates}

\* The volumes the operator named, each once and in this order; C: without any.
ParseVolumes(spec) ==
  LET out[n \in 0..Len(spec)] ==
        IF n = 0 THEN <<>>
        ELSE IF spec[n] \in Range(out[n - 1]) THEN out[n - 1] ELSE Append(out[n - 1], spec[n])
  IN  IF spec = <<>> THEN <<"C">> ELSE out[Len(spec)]
=============================================================================
