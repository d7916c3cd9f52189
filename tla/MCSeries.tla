------------------------------ MODULE MCSeries ------------------------------
(* A host with one distribution package, that may be upgraded, and one Python
   package whose files the distribution package owns; the same two unpacked in a
   directory; and the distribution package again in a container. *)
EXTENDS Series, TLC

I1(typ, name, version, root) == [typ |-> typ, name |-> name, version |-> version, root |-> root]
Chroot == <<"srv", "a">>
MCPossible == {I1(1, 1, 1, <<>>), I1(1, 1, 2, <<>>), I1(1, 1, 1, Chroot),
               I1(2, 2, 1, <<>>), I1(2, 2, 1, Chroot)}

\* Nothing at all, or the host has its package; the directory has a database when it
\* has anything.
MCImages == {m \in SUBSET {i \in MCPossible : i.version = 1} :
               /\ m # {} => I1(1, 1, 1, <<>>) \in m
               /\ \A i \in m : i.root = Chroot => I1(1, 1, 1, Chroot) \in m}

App   == <<"usr", "sbin", "app">>
Alias == <<"usr", "bin", "alias">>
Lib   == <<"usr", "lib", "libx">>
MCFilesOf == 1 :> {<<"sbin", "app">>, <<"lib", "libx">>, <<"usr", "lib", "py2">>}
MCEvidenceOf == 2 :> <<"usr", "lib", "py2">>
MCMergedDirs == {"bin", "sbin", "lib"}
MCLinkTo == Alias :> App
MCRegular == {App, Lib}
MCReleases == Chroot :> "debian"

Mode(heartbeat, deltaOnly, since, skip, aside) ==
  [heartbeat |-> heartbeat, deltaOnly |-> deltaOnly, since |-> since, skipNested |-> skip,
   aside |-> aside, include |-> {"exposure", "container", "link", "config"}]
MCModes == {Mode(TRUE, FALSE, FALSE, FALSE, FALSE), Mode(FALSE, FALSE, TRUE, FALSE, FALSE),
            Mode(FALSE, TRUE, TRUE, FALSE, TRUE), Mode(TRUE, FALSE, FALSE, TRUE, FALSE)}
Load(purl) == [soname |-> "libx", path |-> Lib, purl |-> purl]
Serve(exe, components, links, endpoints) ==
  [exe |-> exe, components |-> components, links |-> links, endpoints |-> endpoints]
InContainer == <<1, 1, 1, "host">>
Musl == <<1, 3, 1, "">>
Second == [soname |-> "libc", path |-> <<"usr", "lib", "libc">>, purl |-> Musl]
Open(key, exe, container, cid, backendExe) ==
  [key |-> key, exe |-> exe, container |-> container,
   backend |-> [cid |-> cid, exe |-> backendExe], components |-> <<>>]
Busy == [services |-> <<Serve(App, <<>>, <<Load(<<>>)>>, {"loopback"}),
                        Serve(App, <<>>, <<>>, {"any"})>>,
         containers |-> <<[id |-> "c1", name |-> "web",
                           services |-> <<Serve(App, <<InContainer, Musl>>, <<Load(InContainer), Second>>,
                                     {"any"})>>]>>,
         links |-> <<[exe |-> Alias, purl |-> <<>>, links |-> <<Load(<<>>)>>],
                     [exe |-> App, purl |-> <<>>, links |-> <<Load(<<>>)>>]>>,
         exposure |-> <<Open("any:80", App, "", "", <<>>),
                        Open("any:81", <<"usr", "bin", "proxy">>, "", "c1", App),
                        Open("any:82", App, "c1", "", <<>>)>>,
         config |-> <<[path |-> <<"srv", "a", "etc", "cron">>, evidence |-> "cron"]>>]
MCSurfaces == {Busy}

Rank(i) == i.version + 2 * i.name + 4 * Len(i.root)
MCOrders == {[i \in MCPossible |-> Rank(i)], [i \in MCPossible |-> 0 - Rank(i)]}
=============================================================================
