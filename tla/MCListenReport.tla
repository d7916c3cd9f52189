-------------------------- MODULE MCListenReport --------------------------
(* A host with a socket-activated sshd, a docker-proxy, a prefork server in a
   container, a daemon of one systemd unit with its own mount namespace, and a
   socket held outside the pid namespace. *)
EXTENDS ListenReport

MCPids == {1, 2, 3, 4, 5, 6}
MCInodes == {11, 12, 13, 14, 15}
S(proto, state, remote, addr, port, ns) ==
  [proto |-> proto, state |-> state, remote |-> remote, addr |-> addr, port |-> port,
   ns |-> ns]
MCSock == 11 :> S("tcp", "listen", "none", "any4", 22, 1)
       @@ 12 :> S("tcp6", "listen", "none", "any6", 80, 1)
       @@ 13 :> S("tcp", "listen", "none", "any4", 8080, 2)
       @@ 14 :> S("udp", "close", "none", "lo4", 53, 1)
       @@ 15 :> S("tcp", "established", "peer", "any4", 22, 1)

P(exe, argv, net, mnt, fs, cgroup, fds) ==
  [exe |-> exe, argv |-> argv, net |-> net, mnt |-> mnt, fs |-> fs, cgroup |-> cgroup,
   fds |-> fds]
Segment(prefixed, len, id, unit) ==
  [prefixed |-> prefixed, hex |-> id # "", len |-> len, id |-> id, unit |-> unit]
\* A unit of systemd whose name could pass for a short id, and a scope of docker.
Unit  == << <<Segment(FALSE, 8, "cafe1234", FALSE), Segment(FALSE, 12, "", TRUE)>> >>
Scope == << <<Segment(FALSE, 4, "", FALSE)>>, <<Segment(TRUE, 64, "c1", FALSE)>> >>
MCNoArgv == [hostPort |-> 0, addr |-> "", port |-> 0]
Proxied == [hostPort |-> 80, addr |-> "ctr", port |-> 8080]
Init1 == P("systemd", MCNoArgv, 1, 1, "host", Unit, <<11>>)
Proxy == P("docker-proxy", Proxied, 1, 1, "host", Unit, <<12, 12>>)
Nginx == P("nginx", MCNoArgv, 2, 2, "img", Scope, <<13>>)
Sshd  == P("sshd", MCNoArgv, 1, 3, "host", Unit, <<11, 15>>)
Scan  == P("swinv", MCNoArgv, 1, 1, "host", Unit, <<>>)
MCBoots == {(1 :> Init1) @@ (2 :> Proxy) @@ (3 :> Nginx) @@ (4 :> Sshd) @@ (5 :> Scan)
            @@ (6 :> Unborn)}
L(kind, name) == [kind |-> kind, name |-> name]
Fib(addr, other) == <<L("table", "Main"), L("leaf", other), L("route", "LOCAL"),
                      L("table", "Local"), L("branch", ""), L("leaf", "lo4"), L("route", "LOCAL"),
                      L("leaf", addr), L("route", "LOCAL"), L("leaf", other), L("route", "BROADCAST")>>
MCFibTrie == 1 :> Fib("eth0", "ctr") @@ 2 :> Fib("ctr", "eth0")

MCKinds == "any4" :> "wildcard" @@ "any6" :> "wildcard" @@ "lo4" :> "loopback"
           @@ "eth0" :> "specific" @@ "ctr" :> "specific" @@ "none" :> "specific"
MCPathOf == "systemd" :> <<"usr", "lib", "systemd", "systemd">>
         @@ "docker-proxy" :> <<"usr", "bin", "docker-proxy">>
         @@ "sshd" :> <<"opt", "ssh", "sshd">> @@ "nginx" :> <<"usr", "sbin", "nginx">>
         @@ "swinv" :> <<"usr", "bin", "swinv">> @@ "unread" :> <<>>
AllPaths == {MCPathOf[e] : e \in DOMAIN MCPathOf}
            \cup {<<"opt">>, <<"opt", "ssh">>, <<"usr", "sbin">>}
MCFold == [p \in AllPaths |-> p]
MCFileOwners == [e \in DOMAIN MCPathOf |->
  IF e = "docker-proxy" THEN {<<"docker-ce">>} ELSE IF e = "nginx" THEN {<<"nginx-host">>} ELSE {}]
Comp(id, locations) == [id |-> <<id>>, purl |-> <<id>>, root |-> "/", locations |-> locations]
MCInstalled == {Comp("docker-ce", {}), Comp("nginx-host", {<<"usr", "sbin", "nginx">>}),
                Comp("ssh-suite", {<<"opt", "ssh", "">>}), Comp("opt-suite", {<<"opt">>})}

Pkg(name, version, files) == [name |-> name, version |-> version, arch |-> "amd64",
                              status |-> "installed", files |-> files]
Entry(kind, target) == [kind |-> kind, target |-> target]
NoRel == [id |-> "", version |-> ""]
MCNoFS == [release |-> <<>>, dpkg |-> <<>>, apk |-> <<>>, rpm |-> <<>>, links |-> <<>>, tree |-> <<>>]
Img == [release |-> <<NoRel, [id |-> "debian", version |-> "12"]>>,
        dpkg |-> <<Pkg("nginx", "1.2", {"nginx", "libz"}), Pkg("nginx-full", "1.3", {"nginx"}),
                   Pkg("", "9", {})>>,
        apk |-> <<>>, rpm |-> <<>>, links |-> "nginx" :> {"libz"},
        tree |-> "db" :> Entry("file", "")]
Rpm == [MCNoFS EXCEPT !.rpm = <<Pkg("redis", "7", {"redis"})>>,
  !.tree = "db" :> Entry("link", "l1") @@ "l1" :> Entry("link", "l2") @@ "l2" :> Entry("file", "")]
Apk == [MCNoFS EXCEPT !.apk = <<Pkg("busybox", "1", {"sh"})>>,
                       !.tree = "db" :> Entry("link", "db")]
HostFs == [MCNoFS EXCEPT !.dpkg = <<Pkg("nginx", "9", {"nginx"})>>]
MCFilesystems == "host" :> HostFs @@ "img" :> Img @@ "rpm" :> Rpm @@ "apk" :> Apk
MCCanon == [p \in DOMAIN MCPathOf \cup {"libz", "redis", "sh"} |-> p]

Port(port, hostPort) == [port |-> port, proto |-> "tcp", hostPort |-> hostPort]
Ctr(id, fs, ports, exposed) ==
  [id |-> id, name |-> id, state |-> "running", image |-> fs, ports |-> ports,
   exposed |-> exposed, bindings |-> {}, fs |-> fs]
MCEngine == "c1" :> Ctr("c1", "img", {Port(8080, 80)}, {})
         @@ "c2" :> Ctr("c2", "rpm", {Port(6379, 0)}, {Port(6379, 0)})
         @@ "c3" :> Ctr("c3", "apk", {}, {})
MCMeta == "c1" :> [name |-> "web", runtime |-> "docker", image |-> "img"]
MCConfigs == [live : BOOLEAN, containers : BOOLEAN]
MCMine == {4, 5, 6}
MCNode == [kubelet |-> FALSE, noProxy |-> TRUE]
MCEmpty == <<>>
\* The machine is one the theorems about containers speak of.
ASSUME OneRootEach
=============================================================================
