----------------------------- MODULE Workloads -----------------------------
(***************************************************************************)
(* What the report says of the containers of a machine: those whose        *)
(* sockets were seen, described through /proc/<pid>/root, and those the    *)
(* container engine knows of (internal/service: container_linux.go,        *)
(* components.go, runtime.go, runtimemeta_linux.go).                       *)
(***************************************************************************)
EXTENDS ContainerPackages, SequencesExt, Ordering

CONSTANTS NoImage, DockerMeta, BundleMeta, UnreadableExe

NoMeta == [name |-> "", runtime |-> "", image |-> NoImage]

\* Docker's own state first, then an OCI bundle's annotations; both may be absent.
ReadRuntimeMetadata(id) ==
  IF id \in DOMAIN DockerMeta THEN DockerMeta[id]
  ELSE IF id \in DOMAIN BundleMeta THEN BundleMeta[id] ELSE NoMeta

----------------------------------------------------------------------------
(* Through /proc *)

\* The owner of the listening executable in the container's own databases.
ContainerService(s, owner) ==
  [pid |-> s.process.pid, exe |-> s.process.exe, endpoints |-> s.endpoints,
   components |-> IF s.process.exe = UnreadableExe THEN {} ELSE owner \ {NoPurl},
   confidence |-> IF s.process.exe = UnreadableExe THEN "low"
                  ELSE IF owner \ {NoPurl} = {} THEN "medium" ELSE "high",
   processes |-> 1]

SameServer(a, b) == /\ a.exe # UnreadableExe /\ a.exe = b.exe
                    /\ a.endpoints = b.endpoints

\* A prefork server's workers are told as one service, the first of them, under the
\* lowest pid.
Workers(services, k) ==
  {j \in DOMAIN services : j = k \/ SameServer(services[j], services[k])}

Lead(services, k) ==
  LET same == Workers(services, k)
  IN  [services[k] EXCEPT !.pid = Least({services[j].pid : j \in same}),
                          !.processes = IF Cardinality(same) < 2 THEN 0 ELSE Cardinality(same)]

CollapseWorkers(services) ==
  At([k \in DOMAIN services |-> Lead(services, k)],
     {k \in DOMAIN services : k = Least(Workers(services, k))})

ListeningExes(c) ==
  SetToSeq({c.services[k].process.exe : k \in DOMAIN c.services} \ {UnreadableExe})

LibrariesOf(links, exe) == IF exe \in DOMAIN links THEN links[exe] ELSE {}

\* The libraries each executable links, with the package that owns each.
ContainerLinks(libs, answer) == {[path |-> l, purl |-> answer[l]] : l \in libs}

\* One container of the snapshot, read through the root of its first process.
\* owners says which package each asked path was answered with.
EnrichOne(c, fs, owners) ==
  LET meta == ReadRuntimeMetadata(c.id)
      one(s) == ContainerService(s, IF s.process.exe \in DOMAIN owners
                                    THEN owners[s.process.exe] ELSE {})
  IN  [id |-> c.id, name |-> meta.name, runtime |-> meta.runtime, image |-> meta.image,
       release |-> ReadRelease(fs), state |-> "", declared |-> {},
       services |-> CollapseWorkers([k \in DOMAIN c.services |-> one(c.services[k])]),
       links |-> UNION {ContainerLinks(LibrariesOf(fs.links, e), owners) :
                        e \in Elements(ListeningExes(c))}]

\* Everything that is asked of the container's databases in one probe.
AskedPaths(c, fs) ==
  LET exes == ListeningExes(c)
  IN  exes \o SetToSeq(UNION {LibrariesOf(fs.links, e) : e \in Elements(exes)} \ Elements(exes))

----------------------------------------------------------------------------
(* Through the engine *)

Named(c) == \E k \in DOMAIN c.services : c.services[k].components # {}

DeclaredEndpoints(e) == {[port |-> p.port, proto |-> p.proto] : p \in e.exposed \cup e.ports}

\* The listing, overlaid by what inspecting it adds; ports stay the listing's.
Inspected(listing, detail) ==
  [detail EXCEPT !.ports = listing.ports,
                 !.name = IF detail.name = "" THEN listing.name ELSE detail.name]

\* A container already described keeps everything it has; the rest is filled in.
FillIn(c, e) == [c EXCEPT !.state = e.state, !.declared = DeclaredEndpoints(e),
                          !.name = IF c.name = "" THEN e.name ELSE c.name,
                          !.image = IF c.image = NoImage THEN e.image ELSE c.image]

\* Described from the engine alone: endpoints declared, never observed.
DescribeFromRuntime(e, rel) ==
  [id |-> e.id, name |-> e.name, runtime |-> "docker", image |-> e.image,
   release |-> rel, state |-> e.state, declared |-> DeclaredEndpoints(e),
   services |-> <<[pid |-> 0, exe |-> UnreadableExe, endpoints |-> <<>>, components |-> {},
                   confidence |-> "medium", processes |-> 0]>>,
   links |-> {}]

\* No endpoint declared or published: not part of the machine's network edge.
OffTheNetwork(e) == DeclaredEndpoints(e) = {}

Component(c, purl, scope) ==
  LET p == CHOOSE q \in ParsePurl(purl) : TRUE
  IN  [purl |-> purl, type |-> p.type, name |-> p.name, version |-> p.version,
       root |-> c.id, scope |-> scope, locations |-> {}]

\* A package of the database whose purl could be built, lifted into the inventory.
PackageComponents(c, purls) ==
  {Component(c, purl, "container-package-database") : purl \in purls \ {NoPurl}}

\* The package behind each listening executable, lifted the same way.
ContainerComponents(containers) ==
  UNION {{Component(c, purl, "listening-executables-only") :
            purl \in {q \in UNION {c.services[k].components : k \in DOMAIN c.services} :
                        ParsePurl(q) # {}}} : c \in containers}

WithoutPackages(containers, components) ==
  {c \in containers : ~Named(c) /\ \A comp \in components : comp.root # c.id}
=============================================================================
