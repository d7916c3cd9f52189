------------------------------ MODULE Exposure ------------------------------
(***************************************************************************)
(* One row for each endpoint of the host that is open (internal/service/   *)
(* expose.go): whose software answers on it, or which container it is      *)
(* forwarded into.                                                         *)
(*                                                                         *)
(* A command line is the flags a forwarder is given: [hostPort, addr,      *)
(* port], 0 and "" for those that are missing or do not parse.             *)
(***************************************************************************)
EXTENDS Integers, Sequences, FiniteSets, Ordering

CONSTANTS AddressKind  \* address -> wildcard, loopback, linklocal or specific

Forwarders == {"docker-proxy", "rootlessport", "rootlesskit-docker-proxy",
               "slirp4netns", "pasta", "pasta.avx2"}
IsForwarder(exe) == exe \in Forwarders

ParseDockerProxy(argv) == IF argv.hostPort = 0 \/ argv.port = 0 \/ argv.addr = ""
                          THEN {} ELSE {[addr |-> argv.addr, port |-> argv.port]}

BindScopeOf(addr) == AddressKind[addr]
FamilyOf(proto) == IF proto \in {"tcp6", "udp6"} THEN "ipv6" ELSE "ipv4"
TransportOf(proto) == IF proto \in {"tcp", "tcp6"} THEN "tcp" ELSE "udp"

KeyOf(e) == <<e.addr, e.port, TransportOf(e.proto)>>
NoBackend == [addr |-> "", port |-> 0, container |-> "none", exe |-> "none"]

BlankRow(e) ==
  [key |-> KeyOf(e), family |-> FamilyOf(e.proto), scope |-> BindScopeOf(e.addr),
   coversV4 |-> BindScopeOf(e.addr) = "wildcard" /\ FamilyOf(e.proto) = "ipv6",
   pid |-> 0, exe |-> "none", confidence |-> "low", components |-> {}, os |-> FALSE,
   backend |-> NoBackend, processes |-> 1]

----------------------------------------------------------------------------
(* Forwarded endpoints *)

ServesPort(svc, port) == \E k \in DOMAIN svc.endpoints : svc.endpoints[k].port = port

\* A mapping for this endpoint as the runtime states it: the first one recorded
\* for its port at its address or at any.
PublishesFor(publishes, e) ==
  SelectSeq(publishes, LAMBDA p :
    /\ p.port = e.port /\ p.proto = TransportOf(e.proto)
    /\ AddressKind[p.addr] = "wildcard" \/ p.addr = e.addr)

\* The address names a container exactly; the port alone is accepted only when
\* one container serves it.
MatchBackend(found, forward) ==
  LET byAddress == {c \in found : forward.addr \in c.addresses}
      byPort == {c \in found : \E k \in DOMAIN c.services :
                                  ServesPort(c.services[k], forward.port)}
  IN  IF byAddress # {} THEN byAddress
      ELSE IF Cardinality(byPort) = 1 THEN byPort ELSE {}

\* The services of a described container that answer on the forwarded port.
ServedBy(containers, id, port) ==
  UNION {{c.services[k] : k \in {j \in DOMAIN c.services : ServesPort(c.services[j], port)}} :
         c \in {d \in containers : d.id = id}}

\* The container behind the row; of several services on the port, the last one.
WithBackend(row, containers, id, forward) ==
  LET serving == ServedBy(containers, id, forward.port)
      last == CHOOSE s \in serving : \A t \in serving : t.pid <= s.pid
      backend == [addr |-> forward.addr, port |-> forward.port, container |-> id,
                  exe |-> IF serving = {} THEN "none" ELSE last.exe]
  IN  IF serving = {} THEN [row EXCEPT !.backend = backend]
      ELSE [row EXCEPT !.backend = backend, !.components = last.components,
                       !.confidence = last.confidence]

\* Mutant: whoever holds the endpoint is whose software answers.
ExposeHolder(s, e, attributed, publishes, found, containers) ==
  [BlankRow(e) EXCEPT !.pid = s.process.pid, !.exe = s.process.exe,
     !.components = attributed.components, !.os = attributed.os,
     !.confidence = attributed.confidence]

\* Nothing is inherited by a forwarder: its own package is not what answers.
ExposeOne(s, e, attributed, publishes, found, containers) ==
  LET row == [BlankRow(e) EXCEPT !.pid = s.process.pid, !.exe = s.process.exe]
      published == PublishesFor(publishes, e)
      forward == CHOOSE f \in ParseDockerProxy(s.process.argv) : TRUE
      target == MatchBackend(found, forward)
  IN  IF ~IsForwarder(s.process.exe)
      THEN [row EXCEPT !.components = attributed.components, !.os = attributed.os,
                       !.confidence = attributed.confidence]
      ELSE IF published # <<>>
      THEN WithBackend(row, containers, published[1].container,
                       [addr |-> "", port |-> published[1].containerPort])
      ELSE IF ParseDockerProxy(s.process.argv) = {} THEN row
      ELSE IF target = {}
      THEN [row EXCEPT !.backend = [NoBackend EXCEPT !.addr = forward.addr,
                                                     !.port = forward.port]]
      ELSE WithBackend(row, containers, (CHOOSE c \in target : TRUE).id, forward)

----------------------------------------------------------------------------
(* One row for each endpoint *)

Rank(confidence) == [high |-> 3, medium |-> 2, low |-> 1][confidence]

Better(a, b) == \/ Rank(a.confidence) > Rank(b.confidence)
                \/ /\ Rank(a.confidence) = Rank(b.confidence)
                   /\ Cardinality(a.components) > Cardinality(b.components)

\* The more informative row wins; software is united, and an endpoint is the
\* operating system's only if everything holding it is.
MergeRow(rows, row) ==
  LET same == {r \in rows : r.key = row.key}
      old == CHOOSE r \in same : TRUE
  IN  IF same = {} THEN rows \cup {row}
      ELSE (rows \ same) \cup
           {[(IF Better(row, old) THEN row ELSE old) EXCEPT
               !.processes = old.processes + 1,
               !.components = old.components \cup row.components,
               !.os = old.os /\ row.os]}

\* The endpoints the services hold, service by service.
Held(services) ==
  LET S == UNION {{k} \X (DOMAIN services[k].endpoints) : k \in DOMAIN services}
  IN  InOrder(S, {at \in S \X S :
                    \/ at[1][1] < at[2][1]
                    \/ at[1][1] = at[2][1] /\ at[1][2] < at[2][2]})

\* The sockets nobody was found for, by port.
Unclaimed(unowned) ==
  InOrder(unowned, {at \in unowned \X unowned :
                      \/ at[1].port < at[2].port
                      \/ at[1].port = at[2].port /\ at[1].inode < at[2].inode})

\* Mutant: only what a service holds gets a row.
OwnedRows(result, publishes, attributed, containers) ==
  LET held == Held(result.services)
  IN  [n \in DOMAIN held |->
         LET s == result.services[held[n][1]]
         IN  ExposeOne(s, s.endpoints[held[n][2]], attributed[held[n][1]], publishes,
                       result.containers, containers)]

\* Every row before merging: the services' in order, then the unowned sockets'.
RawRows(result, publishes, attributed, containers) ==
  LET held == Held(result.services)
      row(s, e) == ExposeOne(s, e, CHOOSE a \in {attributed[k] : k \in DOMAIN attributed} :
                                      a.pid = s.process.pid,
                             publishes, result.containers, containers)
      of(at) == row(result.services[at[1]], result.services[at[1]].endpoints[at[2]])
      open == Unclaimed(result.unowned)
  IN  [n \in DOMAIN held |-> of(held[n])] \o [n \in DOMAIN open |-> BlankRow(open[n])]

\* One row after the other joins those that are there.
Expose(result, publishes, attributed, containers) ==
  LET raw == RawRows(result, publishes, attributed, containers)
      merged[n \in 0..Len(raw)] == IF n = 0 THEN {} ELSE MergeRow(merged[n - 1], raw[n])
  IN  {IF r.processes < 2 THEN [r EXCEPT !.processes = 0] ELSE r : r \in merged[Len(raw)]}

=============================================================================
