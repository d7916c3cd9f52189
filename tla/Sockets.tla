------------------------------ MODULE Sockets ------------------------------
(***************************************************************************)
(* The Linux collection of listening sockets (internal/service):           *)
(* namespaces are listed, each namespace's socket tables are read through  *)
(* one of its processes, and one walk over /proc/<pid>/fd joins sockets to *)
(* the processes that hold them.  Nothing is read in one instant: the      *)
(* machine forks and exits between any two reads.                          *)
(*                                                                         *)
(* Sockets are inodes with a fixed record Sock[i] (protocol, address,      *)
(* port, namespace, whether the row is in an accepting state).  A process  *)
(* is what /proc/<pid> shows of it; fs is the filesystem behind its root.  *)
(* The order of /proc entries is numeric here and lexical in the code: the *)
(* services are sorted by pid afterwards.                                  *)
(***************************************************************************)
EXTENDS Integers, FiniteSets, Sequences, SequencesExt, Ordering

CONSTANTS Pids,        \* process ids, numbers from 1 on
          Self,        \* the scan's own process
          Mine,        \* the processes an unprivileged scan may read
          Inodes,      \* socket inodes
          Sock,        \* what the socket tables say of each inode
          Hidden,      \* sockets held outside this pid namespace
          Boots,       \* the machines to start from: [Pids -> process]
          HostFS,      \* the host's filesystem
          NoContainer, \* no container id
          NoExe,       \* an executable that could not be read
          NoArgv,      \* a command line that could not be read
          FibTrie,     \* network namespace -> the lines of its fib_trie
          Loopback,    \* addresses that every namespace has
          Reuse,       \* may a pid be used again while the scan runs
          MaxChanges   \* bound on forks and exits during one collection

Unborn == [gone |-> "unborn"]
Gone   == [gone |-> "gone"]

ASSUME SocketsAssumption ==
  /\ Pids \subseteq Nat \ {0} /\ IsFiniteSet(Pids) /\ {1, Self} \subseteq Pids
  /\ Mine \subseteq Pids /\ Self \in Mine
  /\ Inodes \subseteq Nat /\ IsFiniteSet(Inodes) /\ Hidden \subseteq Inodes
  /\ MaxChanges \in Nat /\ Reuse \in BOOLEAN
ASSUME SockAssumption ==
  \A i \in Inodes : Sock[i].port \in Nat /\ Sock[i].proto \in {"tcp", "tcp6", "udp", "udp6"}
ASSUME BootsAssumption ==
  \A b \in Boots :
    /\ b = [p \in Pids |-> b[p]] /\ {b[1], b[Self]} \cap {Unborn, Gone} = {}
    /\ \A p \in Pids : b[p] \notin {Unborn, Gone} => b[p].net \in Nat /\ b[p].fds \in Seq(Inodes)

VARIABLES proc, changes, steady, elevated,             \* the machine and the user
          pc, todo, hostNS, spaces, wanted, inHand, owners, result
world == <<proc, changes, steady, elevated>>
scanVars == <<pc, todo, hostNS, spaces, wanted, inHand, owners, result>>
socketVars == <<proc, changes, steady, elevated, pc, todo, hostNS, spaces, wanted, inHand,
                owners, result>>

Alive(p) == proc[p] \notin {Unborn, Gone}
Live == {p \in Pids : Alive(p)}
\* The processes whose links and descriptors may be read.
Owned == IF elevated THEN Pids ELSE Mine
SetRange(s) == {s[i] : i \in DOMAIN s}

----------------------------------------------------------------------------
(* Socket tables *)

\* A TCP row serves in LISTEN; a UDP row serves when it has no remote peer.
Accepting(i) == IF Sock[i].proto \in {"tcp", "tcp6"} THEN Sock[i].state = "listen"
                ELSE Sock[i].remote = "none"

HeldBy(procs) == Hidden \cup UNION {SetRange(procs[p].fds) :
                     p \in {q \in Pids : procs[q] \notin {Unborn, Gone}}}

\* The four tables of a namespace.  A row whose address does not decode is
\* skipped by the parser.
ParseNetTable(n) == {i \in HeldBy(proc) : /\ Sock[i].ns = n
                                          /\ Accepting(i)
                                          /\ Sock[i].addr # "undecodable"}

\* Read through a process: whatever namespace that pid is in by now.
ReadAllTables(p) == IF Alive(p) THEN ParseNetTable(proc[p].net) ELSE {}

\* A trie is printed line by line, an address before the types of its routes; the
\* local table repeats what the main table routes.
FibLine(s, line) ==
  CASE line.kind = "table"             -> [s EXCEPT !.inLocal = line.name = "Local"]
    [] line.kind = "leaf" /\ s.inLocal -> [s EXCEPT !.last = {line.name}]
    [] line.kind = "branch" /\ s.inLocal -> [s EXCEPT !.last = {}]
    [] line.kind = "route" /\ s.inLocal /\ line.name = "LOCAL" ->
         [s EXCEPT !.out = @ \cup (s.last \ Loopback), !.last = {}]
    [] OTHER -> s
ParseFibTrieLocal(lines) ==
  FoldLeft(FibLine, [inLocal |-> FALSE, last |-> {}, out |-> {}], lines).out

LocalAddresses(p) == IF Alive(p) THEN ParseFibTrieLocal(FibTrie[proc[p].net]) ELSE {}

----------------------------------------------------------------------------
(* Processes *)

\* A segment of a cgroup path that names a container: by the shape of the id, which
\* may be short only after the prefix of a runtime.
ContainerID(segment) ==
  IF segment.hex /\ (IF segment.prefixed THEN segment.len >= 12 ELSE segment.len \in {32, 64})
  THEN segment.id ELSE NoContainer

\* The first id of the first line that names a container or a unit; the unit itself
\* is left out.
CgroupID(lines) ==
  LET ids(k) == SelectSeq(lines[k], LAMBDA g : ContainerID(g) # NoContainer)
      named == {k \in DOMAIN lines : ids(k) # <<>> \/ \E g \in SetRange(lines[k]) : g.unit}
  IN  IF named = {} \/ ids(Least(named)) = <<>> THEN NoContainer
      ELSE ContainerID(ids(Least(named))[1])

UnitFromCgroup(p) == IF Alive(p) THEN CgroupID(proc[p].cgroup) ELSE NoContainer

\* Another mount namespace than init's, and not the same file behind the path.
\* A link that cannot be read means not isolated.
IsolatedFrom(p) == /\ {p, 1} \subseteq Owned
                   /\ proc[p].mnt # proc[1].mnt
                   /\ proc[p].fs # HostFS

\* Every field is taken if it can be read and skipped if not.
ReadProcess(p) ==
  IF Alive(p)
  THEN [pid |-> p, exe |-> IF p \in Owned THEN proc[p].exe ELSE NoExe,
        argv |-> proc[p].argv, container |-> UnitFromCgroup(p),
        isolated |-> IsolatedFrom(p)]
  ELSE [pid |-> p, exe |-> NoExe, argv |-> NoArgv, container |-> NoContainer,
        isolated |-> FALSE]

IsInit(process) == process.pid = 1 /\ process.exe \in {"systemd", "init"}

----------------------------------------------------------------------------
(* The join *)

Endpoint(i) == [inode |-> i, proto |-> Sock[i].proto, addr |-> Sock[i].addr,
                port |-> Sock[i].port, ns |-> wanted[i]]

EndpointsBefore(a, b) ==
  LET rank == [tcp |-> 1, tcp6 |-> 2, udp |-> 3, udp6 |-> 4]
  IN  \/ a.port < b.port
      \/ a.port = b.port /\ rank[a.proto] < rank[b.proto]

\* Equal ones stay as they were found.
Sorted(own, K) ==
  InOrder(K, {at \in K \X K :
    LET a == Sock[own[at[1]].inode]
        b == Sock[own[at[2]].inode]
    IN  EndpointsBefore(a, b) \/ (~EndpointsBefore(b, a) /\ at[1] < at[2])})

\* One service per process.  Its namespace, and so whether it is the host's, is
\* that of the first endpoint found in it.
ServiceOf(own, p) ==
  LET mine == {k \in DOMAIN own : own[k].process.pid = p}
      first == own[Least(mine)]
      ns == wanted[first.inode]
      order == Sorted(own, mine)
  IN  [process |-> IF first.process.container = NoContainer
                   THEN [first.process EXCEPT !.container = spaces[ns].cid]
                   ELSE first.process,
       netns |-> ns, host |-> ns = hostNS, activated |-> IsInit(first.process),
       endpoints |-> [k \in DOMAIN order |-> Endpoint(own[order[k]].inode)]]

GroupByProcess(own) ==
  LET pids == Positions({o.process.pid : o \in SetRange(own)})
  IN  [k \in DOMAIN pids |-> ServiceOf(own, pids[k])]

\* The services in the namespaces of a container.
Inside(services, c) ==
  At(services, {k \in DOMAIN services : ~services[k].host /\ spaces[services[k].netns].cid = c})
Inhabited(services) == {spaces[s.netns].cid : s \in {t \in SetRange(services) : ~t.host}} \ {NoContainer}

\* Mutant: the filesystem of a container is that of the first process of all.
SplitUnderFirst(services) ==
  {[id |-> c, rootPid |-> services[1].process.pid,
    addresses |-> LocalAddresses(services[1].process.pid),
    services |-> Inside(services, c)] : c \in Inhabited(services)}

\* Services of the host's namespace apart from those of containers; a namespace
\* that no container owns (PrivateNetwork=yes) is dropped.
SplitContainers(services) ==
  {[id |-> c, rootPid |-> Inside(services, c)[1].process.pid,
    addresses |-> LocalAddresses(Inside(services, c)[1].process.pid),
    services |-> Inside(services, c)] : c \in Inhabited(services)}

\* Mutant: every service is the host's.
SplitNothing(services) == services

SplitHost(services) == At(services, {k \in DOMAIN services : services[k].host})

Unowned == {i \in DOMAIN wanted : \A o \in SetRange(owners) : o.inode # i}

\* The executables whose owner the package databases are asked for.
ExePaths(services) == {s.process.exe : s \in {t \in SetRange(services) :
                         t.process.exe # NoExe /\ ~t.process.isolated /\ ~t.activated}}

NoResult == [services |-> <<>>, containers |-> {}, unowned |-> {},
             unattributed |-> 0, hostNS |-> 0]

----------------------------------------------------------------------------
(* The machine moves *)

Change(procs) == /\ changes < MaxChanges
                 /\ changes' = changes + 1
                 /\ proc' = procs
                 /\ steady' = steady \cap HeldBy(procs)
                 /\ UNCHANGED elevated

Exit(p) == /\ Alive(p) /\ p \notin {1, Self}
           /\ Change([proc EXCEPT ![p] = Gone])
           /\ UNCHANGED scanVars

\* A child inherits its parent's descriptors: a prefork server's workers.
Fork(p, c) == /\ Alive(p) /\ p \notin {1, Self}
              /\ proc[c] = Unborn \/ (Reuse /\ proc[c] = Gone)
              /\ Change([proc EXCEPT ![c] = proc[p]])
              /\ UNCHANGED scanVars

----------------------------------------------------------------------------
(* The scan reads *)

\* init's namespace is "the host"; the scan's own stands in when it is unreadable.
Anchor == /\ pc = "anchor"
          /\ hostNS' = proc[IF 1 \in Owned THEN 1 ELSE Self].net
          /\ todo' = Live
          /\ pc' = "list"
          /\ UNCHANGED <<world, spaces, wanted, inHand, owners, result>>

\* A process that is gone, or whose link cannot be read, is in no namespace.
ListOne ==
  /\ pc = "list" /\ todo # {}
  /\ LET p == Least(todo)
         n == proc[p].net
     IN  /\ todo' = todo \ {p}
         /\ spaces' =
              IF ~Alive(p) \/ p \notin Owned THEN spaces
              ELSE IF n \in DOMAIN spaces
                   THEN [spaces EXCEPT ![n].pids = @ \cup {p}]
              ELSE [m \in {n} \cup DOMAIN spaces |->
                      IF m = n THEN [pids |-> {p}, cid |-> NoContainer, named |-> n = hostNS]
                      ELSE spaces[m]]
  /\ UNCHANGED <<world, pc, hostNS, wanted, inHand, owners, result>>

\* The id comes from the first process with one; the host's namespace has none.
NameSpace(n) ==
  /\ pc = "list" /\ todo = {} /\ ~spaces[n].named
  /\ LET with == {p \in spaces[n].pids : UnitFromCgroup(p) # NoContainer}
     IN  spaces' = [spaces EXCEPT ![n].named = TRUE,
                      ![n].cid = IF with = {} THEN NoContainer
                                 ELSE UnitFromCgroup(Least(with))]
  /\ UNCHANGED <<world, pc, todo, hostNS, wanted, inHand, owners, result>>

Listed == /\ pc = "list" /\ todo = {} /\ \A n \in DOMAIN spaces : spaces[n].named
          /\ pc' = "tables" /\ todo' = DOMAIN spaces
          /\ UNCHANGED <<world, hostNS, spaces, wanted, inHand, owners, result>>

\* The host first, then by id; a later namespace overwrites the tag of an inode.
ReadTables ==
  /\ pc = "tables" /\ todo # {}
  /\ LET n == IF hostNS \in todo THEN hostNS ELSE Least(todo)
     IN  /\ todo' = todo \ {n}
         /\ LET read == ReadAllTables(Least(spaces[n].pids))
            IN  wanted' = [i \in read \cup DOMAIN wanted |-> IF i \in read THEN n ELSE wanted[i]]
  /\ UNCHANGED <<world, pc, hostNS, spaces, inHand, owners, result>>

TablesRead ==
  /\ pc = "tables" /\ todo = {}
  /\ IF wanted = <<>>
     THEN pc' = "done" /\ result' = NoResult /\ todo' = {}
     ELSE pc' = "walk" /\ todo' = Live /\ UNCHANGED result
  /\ UNCHANGED <<world, hostNS, spaces, wanted, inHand, owners>>

\* One process's descriptors; nothing wanted in them, or nothing readable, and
\* the walk goes on.
SocketInodes ==
  /\ pc = "walk" /\ todo # {}
  /\ LET p == Least(todo)
         held == IF Alive(p) /\ p \in Owned
                 THEN At(proc[p].fds, {k \in DOMAIN proc[p].fds : proc[p].fds[k] \in DOMAIN wanted})
                 ELSE <<>>
     IN  IF held = <<>>
         THEN todo' = todo \ {p} /\ UNCHANGED <<pc, inHand>>
         ELSE inHand' = held /\ pc' = "read" /\ UNCHANGED todo
  /\ UNCHANGED <<world, hostNS, spaces, wanted, owners, result>>

\* The process itself is read after its descriptors.
ReadOwner ==
  /\ pc = "read"
  /\ LET p == Least(todo)
     IN  /\ owners' = owners \o [k \in DOMAIN inHand |->
                                   [inode |-> inHand[k], process |-> ReadProcess(p)]]
         /\ todo' = todo \ {p}
  /\ pc' = "walk" /\ inHand' = <<>>
  /\ UNCHANGED <<world, hostNS, spaces, wanted, result>>

\* The deadline passes during the walk: no result at all.
Cancelled == /\ pc = "walk" /\ todo # {}
             /\ pc' = "failed"
             /\ UNCHANGED <<world, todo, hostNS, spaces, wanted, inHand, owners, result>>

Collected ==
  /\ pc = "walk" /\ todo = {}
  /\ LET services == GroupByProcess(owners)
     IN  result' = [services |-> SplitHost(services),
                    containers |-> SplitContainers(services),
                    unowned |-> {Endpoint(i) : i \in {j \in Unowned : wanted[j] = hostNS}},
                    unattributed |-> Cardinality(Unowned), hostNS |-> hostNS]
  /\ pc' = "done"
  /\ UNCHANGED <<world, todo, hostNS, spaces, wanted, inHand, owners>>

SocketsInit ==
  /\ proc \in Boots /\ changes = 0 /\ steady = HeldBy(proc)
  /\ elevated \in BOOLEAN
  /\ pc = "anchor" /\ todo = {} /\ hostNS = 0 /\ spaces = <<>> /\ wanted = <<>>
  /\ inHand = <<>> /\ owners = <<>> /\ result = NoResult

Machine == \E p \in Pids : Exit(p) \/ (\E c \in Pids : Fork(p, c))

Collect == \/ Anchor \/ ListOne \/ (\E n \in DOMAIN spaces : NameSpace(n)) \/ Listed
           \/ ReadTables \/ TablesRead \/ SocketInodes \/ ReadOwner \/ Cancelled
           \/ Collected
=============================================================================
