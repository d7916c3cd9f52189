----------------------------- MODULE CycloneDX ------------------------------
(***************************************************************************)
(* The CycloneDX document of a report (internal/output/cyclonedx.go): the  *)
(* references its components and services get, and the edges from a        *)
(* service to the components behind it.  The n-th use of a base reference  *)
(* is the pair <<base, n>>, written base#n from the second on.             *)
(***************************************************************************)
EXTENDS Inventory

UniqueRefs(bases) ==
  [i \in DOMAIN bases |-> <<bases[i], Cardinality({j \in 1..i : bases[j] = bases[i]})>>]

\* The first component of a name answers for it.
ByIdentity(r) ==
  [id \in {Identify(c) : c \in ToSet(r.components)} |->
     Least({i \in DOMAIN r.components : Identify(r.components[i]) = id})]

Looped(endpoint) == endpoint = "loopback"
HostZone(s) == IF \A e \in s.endpoints : Looped(e) THEN "host-loopback" ELSE "host-network"

\* The services of the host, then those of every container.
AllServices(r) ==
  [i \in DOMAIN r.services |-> [service |-> r.services[i], zone |-> HostZone(r.services[i]),
                                root |-> <<>>]]
  \o FlattenSeq([i \in DOMAIN r.containers |->
       [j \in DOMAIN r.containers[i].services |->
          [service |-> r.containers[i].services[j], zone |-> "container-network",
           root |-> <<"container:", r.containers[i].id>>]]])

\* An edge goes to the software of the service and to the packages of the libraries
\* it loads, when the document has them.
CdxServices(r) ==
  LET all == AllServices(r)
      named == ByIdentity(r)
      refs == UniqueRefs([i \in DOMAIN all |-> <<all[i].service.exe>>])
      libraries(s) == {s.links[i].purl : i \in DOMAIN s.links} \ {<<>>}
  IN  [i \in DOMAIN all |->
         [ref |-> refs[i], zone |-> all[i].zone, root |-> all[i].root,
          service |-> all[i].service,
          dependsOn |-> {named[id] : id \in (ToSet(all[i].service.components)
                                             \cup libraries(all[i].service)) \cap DOMAIN named}]]
=============================================================================
