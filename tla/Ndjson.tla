------------------------------- MODULE Ndjson -------------------------------
(***************************************************************************)
(* The NDJSON stream of a report (internal/output/ndjson.go and            *)
(* ndjson_records.go) and the report an operator's page is built from when *)
(* it is read back (cmd/swinv/reportfrom.go).  A line is a record whose    *)
(* field kind is its record_type.                                          *)
(***************************************************************************)
EXTENDS Integers, Sequences, FiniteSets, SequencesExt, Ordering

RecordTypes == {"component", "exposure", "container", "link", "config"}
NoDigest == {}

----------------------------------------------------------------------------
(* Which root a record belongs to *)

ContainerRoot(id) == <<"container:", id>>
IsContainerRoot(root) == root # <<>> /\ root[1] = "container:"

\* The nested roots in which the scan found something; the deepest that contains the
\* first path that is known.
RecordRoots(components) ==
  {c.root : c \in ToSet(components)} \ {r \in {c.root : c \in ToSet(components)} :
                                              r = <<>> \/ IsContainerRoot(r)}
RootForPath(roots, paths) ==
  LET known == SelectSeq(paths, LAMBDA p : p # <<>>)
      over == IF known = <<>> THEN {} ELSE {r \in roots : IsPrefix(r, known[1])}
  IN  IF over = {} THEN <<>> ELSE CHOOSE r \in over : \A q \in over : Len(q) <= Len(r)

----------------------------------------------------------------------------
(* The lines *)

\* A host executable behind a listener is written once, with the listener.
LinkLines(r) ==
  LET roots == RecordRoots(r.components)
      lines(exe, purl, cid, listening, links) ==
        [i \in DOMAIN links |->
           [kind |-> "link", exe |-> exe, exePurl |-> purl, soname |-> links[i].soname,
            path |-> links[i].path, purl |-> links[i].purl, listening |-> listening,
            cid |-> cid,
            root |-> IF cid # "" THEN ContainerRoot(cid)
                     ELSE RootForPath(roots, <<links[i].path, exe>>)]]
      head(s) == IF s.components = <<>> THEN <<>> ELSE s.components[1]
      seen == {s.exe : s \in {t \in ToSet(r.services) : t.links # <<>>}}
      ofHost == [i \in DOMAIN r.services |-> LET s == r.services[i]
                   IN  lines(s.exe, head(s), "", TRUE, s.links)]
      ofContainer(c) == [i \in DOMAIN c.services |-> LET s == c.services[i]
                           IN  lines(s.exe, head(s), c.id, TRUE, s.links)]
      ofBinaries == [i \in DOMAIN r.links |-> LET b == r.links[i]
                       IN  IF b.exe \in seen THEN <<>>
                           ELSE lines(b.exe, b.purl, "", FALSE, b.links)]
  IN  FlattenSeq(ofHost)
      \o FlattenSeq([i \in DOMAIN r.containers |-> FlattenSeq(ofContainer(r.containers[i]))])
      \o FlattenSeq(ofBinaries)

\* A published port names the container behind it; a port with nothing attributed
\* still has a line.
ExposureLines(r) ==
  LET roots == RecordRoots(r.components)
      base(e) == LET cid == IF e.backend.cid # "" THEN e.backend.cid ELSE e.container
                     exe == IF e.backend.cid # "" THEN e.backend.exe ELSE e.exe
                 IN  [kind |-> "exposure", key |-> e.key, exe |-> exe, cid |-> cid,
                      purl |-> <<>>,
                      root |-> IF cid # "" THEN ContainerRoot(cid) ELSE RootForPath(roots, <<exe>>)]
      lines(e) == IF e.components = <<>> THEN <<base(e)>>
                  ELSE [i \in DOMAIN e.components |-> [base(e) EXCEPT !.purl = e.components[i]]]
  IN  FlattenSeq([i \in DOMAIN r.exposure |-> lines(r.exposure[i])])

ContainerLines(r) == [i \in DOMAIN r.containers |->
  [kind |-> "container", id |-> r.containers[i].id, name |-> r.containers[i].name]]

ConfigLines(r) == [i \in DOMAIN r.config |->
  [kind |-> "config", path |-> r.config[i].path, evidence |-> r.config[i].evidence,
   root |-> RootForPath(RecordRoots(r.components), <<r.config[i].path>>)]]

ComponentLines(r) == [i \in DOMAIN r.components |->
  [kind |-> "component", name |-> r.components[i].name, version |-> r.components[i].version,
   typ |-> r.components[i].typ, purl |-> r.components[i].purl, root |-> r.components[i].root,
   source |-> r.components[i].source, change |-> r.components[i].change]]

----------------------------------------------------------------------------
(* The counts, computed before a line is built *)

Total(sizes) ==
  LET sum[n \in 0..Len(sizes)] == IF n = 0 THEN 0 ELSE sum[n - 1] + sizes[n]
  IN  sum[Len(sizes)]

LinksOf(listeners) == Total([i \in DOMAIN listeners |-> Len(listeners[i].links)])
LinksInside(containers) == Total([i \in DOMAIN containers |-> LinksOf(containers[i].services)])

\* Mutant: a binary behind a listener is counted again.
CountLinkLinesTwice(r) == LinksOf(r.services) + LinksInside(r.containers) + LinksOf(r.links)

CountLinkLines(r) ==
  LET seen == {s.exe : s \in {t \in ToSet(r.services) : t.links # <<>>}}
  IN  LinksOf(r.services) + LinksInside(r.containers)
      + Total([i \in DOMAIN r.links |->
                 IF r.links[i].exe \in seen THEN 0 ELSE Len(r.links[i].links)])

CountExposureLines(r) ==
  Total([i \in DOMAIN r.exposure |->
           IF r.exposure[i].components = <<>> THEN 1 ELSE Len(r.exposure[i].components)])

Includes(r, type) == type \in r.include

NdjsonCounts(r) ==
  [t \in RecordTypes |->
     CASE t = "component" -> IF r.digest # NoDigest /\ r.unchanged THEN 0 ELSE Len(r.components)
       [] t = "exposure" -> IF Includes(r, t) THEN CountExposureLines(r) ELSE 0
       [] t = "container" -> IF Includes(r, t) THEN Len(r.containers) ELSE 0
       [] t = "link" -> IF Includes(r, t) /\ ~r.unchanged THEN CountLinkLines(r) ELSE 0
       [] OTHER -> IF Includes(r, t) THEN Len(r.config) ELSE 0]

----------------------------------------------------------------------------
(* The stream *)

ManifestRecord(r) ==
  [kind |-> "heartbeat", counts |-> NdjsonCounts(r), nComponents |-> Len(r.components),
   sources |-> r.sources, unchanged |-> r.unchanged]

ExtraRecords(r) ==
  (IF Includes(r, "exposure") THEN ExposureLines(r) ELSE <<>>)
  \o (IF Includes(r, "container") THEN ContainerLines(r) ELSE <<>>)
  \o (IF Includes(r, "link") /\ ~r.unchanged THEN LinkLines(r) ELSE <<>>)
  \o (IF Includes(r, "config") THEN ConfigLines(r) ELSE <<>>)

Written(lines) == [t \in RecordTypes |-> Cardinality({i \in DOMAIN lines : lines[i].kind = t})]

\* With a digest the manifest comes first, and an unchanged inventory leaves out the
\* components; a stream whose lines are not what was counted is refused.
WriteNDJSON(r) ==
  LET suppressed == r.digest # NoDigest /\ r.unchanged
      records == ExtraRecords(r) \o (IF suppressed THEN <<>> ELSE ComponentLines(r))
  IN  [ok |-> Written(records) = NdjsonCounts(r),
       lines |-> (IF r.digest # NoDigest THEN <<ManifestRecord(r)>> ELSE <<>>) \o records]

----------------------------------------------------------------------------
(* Reading a stream back *)

Of(kind, lines) == At(lines, {i \in DOMAIN lines : lines[i].kind = kind})
\* Of the lines that share a key, the first.
FirstOf(s, keys) == At(s, {i \in DOMAIN s : \A j \in 1..(i - 1) : keys[j] # keys[i]})

\* Link lines are collected under their executable, whichever root it is in.
NdjsonLinks(lines) ==
  LET all == Of("link", lines)
      heads == FirstOf(all, [i \in DOMAIN all |-> all[i].exe])
  IN  [i \in DOMAIN heads |->
         [exe |-> heads[i].exe, purl |-> heads[i].exePurl,
          links |-> LET mine == At(all, {k \in DOMAIN all : all[k].exe = heads[i].exe})
                    IN  [j \in DOMAIN mine |-> [soname |-> mine[j].soname,
                                                path |-> mine[j].path, purl |-> mine[j].purl]]]]

\* Mutant: every line is a listener of its own.
NdjsonExposureLines(lines) ==
  LET mine == Of("exposure", lines)
  IN  [i \in DOMAIN mine |-> [key |-> mine[i].key, exe |-> mine[i].exe,
         components |-> IF mine[i].purl = <<>> THEN <<>> ELSE <<mine[i].purl>>]]

\* Exposure lines of one address, port and protocol are one listener again.
NdjsonExposure(lines) ==
  LET all == Of("exposure", lines)
      heads == FirstOf(all, [i \in DOMAIN all |-> all[i].key])
  IN  [i \in DOMAIN heads |->
         [key |-> heads[i].key, exe |-> heads[i].exe,
          components |-> LET mine == At(all, {k \in DOMAIN all : all[k].key = heads[i].key
                                                       /\ all[k].purl # <<>>})
                         IN  [j \in DOMAIN mine |-> mine[j].purl]]]

NdjsonComponents(lines) ==
  LET mine == Of("component", lines)
  IN  [i \in DOMAIN mine |-> [name |-> mine[i].name, version |-> mine[i].version,
         typ |-> mine[i].typ, purl |-> mine[i].purl, root |-> mine[i].root,
         source |-> mine[i].source]]

\* A stream with no line at all is refused; nothing checks the counts of line one.
ReconstructFromNDJSON(lines) ==
  IF lines = <<>> THEN {}
  ELSE {[components |-> NdjsonComponents(lines), links |-> NdjsonLinks(lines),
         exposure |-> NdjsonExposure(lines), containers |-> Of("container", lines),
         config |-> Of("config", lines),
         sources |-> IF Of("heartbeat", lines) = <<>> THEN <<>>
                     ELSE Of("heartbeat", lines)[1].sources]}
=============================================================================
