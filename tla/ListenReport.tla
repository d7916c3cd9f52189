---------------------------- MODULE ListenReport ----------------------------
(***************************************************************************)
(* The services, containers and exposure sections of one report            *)
(* (cmd/swinv/services.go): the sockets are collected first (Sockets), and *)
(* once the inventory is there they are attributed (Attribution), the      *)
(* containers are described (Workloads) and the endpoints of the host get  *)
(* their rows (Exposure).  The machine keeps moving throughout: a          *)
(* container's filesystem is read through a process that may be gone.      *)
(***************************************************************************)
EXTENDS Sockets, Workloads, Exposure

CONSTANTS PathOf, Fold, OSPaths,
          Configs,      \* [live, containers]: what the flags ask for
          FileOwners,   \* host executable -> the packages that own it
          Installed,    \* the components the scan of the host found
          Filesystems,  \* filesystem -> its databases and links
          NoFS,         \* what is read through the root of a process that is gone
          Engine,       \* the containers the engine lists, by id
          Node          \* the host's marker files: kubelet, noProxy

ASSUME NoFSAssumption == NoFS.dpkg = <<>> /\ NoFS.apk = <<>> /\ NoFS.rpm = <<>>

A == INSTANCE Attribution WITH UnreadExe <- NoExe

VARIABLES cfg, stage, attributed, described, engineTodo, lifted, rows, blind, components
reportVars == <<cfg, stage, attributed, described, engineTodo, lifted, rows, blind,
                components>>
vars == <<socketVars, reportVars>>

Init == /\ SocketsInit
        /\ cfg \in Configs
        /\ stage = "listen" /\ attributed = <<>> /\ described = {} /\ engineTodo = {}
        /\ lifted = {} /\ rows = {} /\ blind = {} /\ components = Installed

----------------------------------------------------------------------------
(* listenSnapshot *)

\* Sockets describe the running machine: another tree than "/" has none.
Refused == /\ stage = "listen" /\ ~cfg.live /\ pc = "anchor"
           /\ stage' = "end"
           /\ UNCHANGED <<socketVars, cfg, attributed, described, engineTodo, lifted,
                          rows, blind, components>>

Listen == stage = "listen" /\ cfg.live /\ Collect /\ UNCHANGED reportVars

\* A collection that fails leaves the inventory untouched and the sections absent.
NoSnapshot == /\ stage = "listen" /\ pc = "failed"
              /\ stage' = "end"
              /\ UNCHANGED <<socketVars, cfg, attributed, described, engineTodo, lifted,
                             rows, blind, components>>

----------------------------------------------------------------------------
(* attributeServices *)

\* The scan asks the databases about these executables and no other.
OwnersOf(exes) == [e \in DOMAIN FileOwners |-> IF e \in exes THEN FileOwners[e] ELSE {}]

AttributeServices ==
  /\ stage = "listen" /\ pc = "done"
  /\ attributed' = A!Attribute(result.services, OwnersOf(ExePaths(result.services)),
                               Installed, result.unattributed)
  /\ stage' = IF cfg.containers THEN "enrich" ELSE "expose"
  /\ UNCHANGED <<socketVars, cfg, described, engineTodo, lifted, rows, blind, components>>

RootOf(pid) == IF Alive(pid) THEN Filesystems[proc[pid].fs] ELSE NoFS

\* One answer for each asked path, where the databases give more than one.
Answers(may) ==
  {f \in [DOMAIN may -> {{}} \cup UNION {{{q} : q \in may[x]} : x \in DOMAIN may}] :
     \A x \in DOMAIN may : IF may[x] = {} THEN f[x] = {}
                           ELSE f[x] # {} /\ f[x] \subseteq may[x]}

Enrich(c) ==
  /\ stage = "enrich" /\ c.id \notin {d.id : d \in described}
  /\ LET fs == RootOf(c.rootPid)
     IN  \E answers \in Answers(Probe(fs, AskedPaths(c, fs))) :
           described' = described \cup {EnrichOne(c, fs, answers)}
  /\ UNCHANGED <<socketVars, cfg, stage, attributed, engineTodo, lifted, rows, blind,
                 components>>

\* No engine answers, or the listing fails: what /proc said stands.
EngineSilent ==
  /\ stage = "enrich" /\ Cardinality(described) = Cardinality(result.containers)
  /\ stage' = "expose"
  /\ UNCHANGED <<socketVars, cfg, attributed, described, engineTodo, lifted, rows, blind,
                 components>>

EngineLists ==
  /\ stage = "enrich" /\ Cardinality(described) = Cardinality(result.containers)
  /\ stage' = "engine" /\ engineTodo' = DOMAIN Engine
  /\ UNCHANGED <<socketVars, cfg, attributed, described, lifted, rows, blind, components>>

\* Inspecting and reading packages can each fail on their own; the listing alone
\* has no digest and no declared ports.
Listing(id) == [Engine[id] EXCEPT !.exposed = {}, !.ports = ListedPorts(@)]
Inspect(id) == Inspected(Listing(id),
                 [Engine[id] EXCEPT !.exposed = ExposedPorts(@, Engine[id].bindings)])

\* A database is a file of the container, perhaps behind a few symlinks.
EngineTree(id) == LET fs == Filesystems[Engine[id].fs]
                  IN  IF ReadFile(fs.tree, "db") = {} THEN NoFS ELSE fs

\* A container already described is filled in; its packages are read only when no
\* service of it was tied to software.
RuntimeKnown(id) ==
  /\ stage = "engine" /\ id \in engineTodo
  /\ \E c \in described, e \in {Listing(id), Inspect(id)},
        purls \in {{}, All(EngineTree(id))} :
       /\ c.id = id
       /\ described' = (described \ {c}) \cup {FillIn(c, e)}
       /\ lifted' = IF Named(c) THEN lifted
                    ELSE lifted \cup PackageComponents(FillIn(c, e), purls)
  /\ engineTodo' = engineTodo \ {id}
  /\ UNCHANGED <<socketVars, cfg, stage, attributed, rows, blind, components>>

\* Any other with an endpoint is described from the engine alone.
RuntimeOnly(id) ==
  /\ stage = "engine" /\ id \in engineTodo /\ id \notin {c.id : c \in described}
  /\ \E e \in {Listing(id), Inspect(id)},
        fs \in {NoFS, EngineTree(id)} :
       IF OffTheNetwork(e) THEN UNCHANGED <<described, lifted>>
       ELSE LET c == DescribeFromRuntime(e, ReadRelease(fs))
            IN  /\ described' = described \cup {c}
                /\ lifted' = lifted \cup PackageComponents(c, All(fs))
  /\ engineTodo' = engineTodo \ {id}
  /\ UNCHANGED <<socketVars, cfg, stage, attributed, rows, blind, components>>

EngineDone == /\ stage = "engine" /\ engineTodo = {}
              /\ stage' = "expose"
              /\ UNCHANGED <<socketVars, cfg, attributed, described, engineTodo, lifted,
                             rows, blind, components>>

\* What this scan could not observe; the first two are properties of the approach.
DetectBlindSpots(live) ==
  {"netfilter", "firewall"}
  \cup (IF elevated THEN {} ELSE {"unprivileged"})
  \cup (IF live.kubelet THEN {"kubernetes"} ELSE {})
  \cup (IF live.noProxy THEN {"docker-no-proxy"} ELSE {})

\* Exposure last, then the containers' packages join the inventory.
ExposeAndLift ==
  /\ stage = "expose"
  /\ rows' = Expose(result, <<>>, attributed, described)
  /\ components' = components \cup ContainerComponents(described) \cup lifted
  /\ blind' = DetectBlindSpots(Node) \cup
              (IF WithoutPackages(described, components') # {} THEN {"container-packages"}
               ELSE {})
  /\ stage' = "end"
  /\ UNCHANGED <<socketVars, cfg, attributed, described, engineTodo, lifted>>

Stopped == stage = "end" /\ UNCHANGED vars

Next == \/ stage # "end" /\ Machine /\ UNCHANGED reportVars
        \/ Refused \/ Listen \/ NoSnapshot \/ AttributeServices
        \/ \E c \in result.containers : Enrich(c)
        \/ EngineSilent \/ EngineLists
        \/ \E id \in engineTodo : RuntimeKnown(id) \/ RuntimeOnly(id)
        \/ EngineDone \/ ExposeAndLift
        \/ Stopped

Spec == Init /\ [][Next]_vars

----------------------------------------------------------------------------
(* Properties *)

Done == stage = "end" /\ pc = "done" /\ cfg.live
\* The namespace of init, or the scan's own where init's cannot be read.
HostNet == proc[IF 1 \in Owned THEN 1 ELSE Self].net
Served(i) == Accepting(i) /\ Sock[i].addr # "undecodable"
RowKeys == {r.key : r \in rows}

\* A process with sockets of two namespaces: the one case the grouping by process
\* cannot file under either namespace alone.
Straddling(i) == \E o \in SetRange(owners) :
  /\ \E u \in SetRange(owners) : u.inode = i /\ u.process.pid = o.process.pid
  /\ Sock[o.inode].ns # Sock[i].ns

HasRow(i) == (Sock[i].ns = HostNet /\ Served(i) /\ ~Straddling(i))
               => KeyOf(Sock[i]) \in RowKeys

\* To a privileged scan, a port of the host that is open from the first read to the
\* last has a row in the report, whether or not anybody could say whose it is, and
\* however many processes came and went meanwhile (expose.go:55).
OpenPortsHaveRows == (Done /\ elevated) => \A i \in steady : HasRow(i)

\* What listens inside a container's own namespace is never a row of the host
\* (collect_linux.go:117, "A container's listeners must not join the host list"), unless
\* its process holds sockets of both.
ContainersStayOffHost ==
  Done => \A r \in rows : \E i \in Inodes : /\ Served(i) /\ KeyOf(Sock[i]) = r.key
                                            /\ Sock[i].ns = HostNet \/ Straddling(i)

\* Held by forwarders alone, an endpoint is never given the forwarder's own package:
\* its software is that of a service inside the container behind it.
ForwardersNameTheBackend ==
  Done => \A r \in rows :
    LET holders == {o.process.exe : o \in {u \in SetRange(owners) :
                       Sock[u.inode].ns = HostNet /\ KeyOf(Sock[u.inode]) = r.key}}
    IN  (holders # {} /\ \A e \in holders : IsForwarder(e))
          => r.components \subseteq UNION {UNION {c.services[k].components :
                 k \in DOMAIN c.services} : c \in {d \in described : d.id = r.backend.container}}

\* A namespace is of one container at most: what a process in it says its container is,
\* all that hold its sockets have that container's files.  A pod of several containers
\* is no such machine; host is the namespace that is nobody's.
OneRoot(procs, host) ==
  \A p, q \in {r \in Pids : procs[r] \notin {Unborn, Gone}} :
    LET c == CgroupID(procs[q].cgroup)
    IN  c # NoContainer =>
          \A i \in SetRange(procs[p].fds) :
            Sock[i].ns = procs[q].net /\ Sock[i].ns # host => procs[p].fs = Engine[c].fs

OneRootEach ==
  \A b \in Boots : OneRoot(b, b[1].net) /\ (1 \notin Mine => OneRoot(b, b[Self].net))

\* The software named behind a container's listener is recorded in that container's
\* own filesystem, though it is read through a process that may be gone by then.
ContainerSoftwareIsItsOwn ==
  \A c \in described : \A k \in DOMAIN c.services :
    c.services[k].components \subseteq
      LET fs == Filesystems[Engine[c.id].fs]
          release == ReadRelease(fs)
          exe == c.services[k].exe
      IN  ProbeDpkg(fs, release, exe) \cup ProbeApk(fs, release, exe)
          \cup ProbeRPM(fs, release, exe)
=============================================================================
