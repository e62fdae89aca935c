-------------------------- MODULE MCFabricContract --------------------------
(* A dual-plane site like fixtures/mini-dual-plane.yaml, smaller: two spines *)
(* and two leaves in plane a, one each in plane b, and two endpoints; with   *)
(* FRR throughout, and with other platforms.                                 *)
EXTENDS BatfishAssurance, Sequences, TLC

Router(role, plane, asn) == [role |-> role, plane |-> plane, asn |-> asn]

MCDevices ==
  [sa1 |-> Router("spine", "a", 1), sa2 |-> Router("spine", "a", 2),
   la1 |-> Router("leaf", "a", 3), la2 |-> Router("leaf", "a", 4),
   sb |-> Router("spine", "b", 5), lb |-> Router("leaf", "b", 6),
   gpu |-> Router("compute", "shared", NoAsn),
   disk |-> Router("storage", "shared", NoAsn)]

\* Link k of the site: the devices, their ports, and the plane.
MCLinks ==
  <<<<"sa1", 1, "la1", 1, "a">>, <<"sa1", 2, "la2", 1, "a">>,
    <<"la1", 2, "sa2", 1, "a">>, <<"sa2", 2, "la2", 2, "a">>,
    <<"sb", 1, "lb", 1, "b">>,
    <<"la1", 3, "gpu", 1, "a">>, <<"disk", 1, "la2", 3, "a">>,
    <<"lb", 2, "gpu", 2, "b">>, <<"lb", 3, "disk", 2, "b">>>>

End(k, h) == <<MCLinks[k][2 * h + 1], MCLinks[k][2 * h + 2]>>
MCPort(k, h) ==
  [role |-> IF k <= 5 THEN "uplink" ELSE "host", plane |-> MCLinks[k][5],
   addresses |-> {[pool |-> MCLinks[k][5], network |-> k, host |-> h]}]

MCSite ==
  [devices |-> MCDevices,
   ports |-> [i \in {End(k, h) : k \in 1 .. 9, h \in {0, 1}} |->
                LET e == CHOOSE e \in (1 .. 9) \X {0, 1} : End(e[1], e[2]) = i
                IN  MCPort(e[1], e[2])],
   cables |-> {<<End(k, 0), End(k, 1)>> : k \in 1 .. 9}]

\* The site with other devices in the place of some, by other names.
Renamed(site, as) ==
  LET Name(n) == IF n \in DOMAIN as THEN as[n] ELSE n
      Old(n) == CHOOSE m \in DOMAIN site.devices : Name(m) = n
  IN  [devices |-> [n \in {Name(m) : m \in DOMAIN site.devices} |-> site.devices[Old(n)]],
       ports |-> [i \in {<<Name(j[1]), j[2]>> : j \in DOMAIN site.ports} |->
                    site.ports[<<Old(i[1]), i[2]>>]],
       cables |-> {<<<<Name(c[1][1]), c[1][2]>>, <<Name(c[2][1]), c[2][2]>>>> : c \in site.cables}]

\* A leaf is of SR Linux, which has a name for all ports but one.  The others
\* cannot be compiled, and edits are not about their devices: a type on FRR, a
\* loopback that SR Linux has no name for, and a leaf with an endpoint's platform.
MCMixed == Renamed(MCSite, [la1 |-> "srl", sb |-> "sb2", lb |-> "lb2"])
MCUnfit(leaf) == Renamed(MCMixed, [srl |-> leaf, gpu |-> "gpu2"])
MCSeeds == {MCSite, MCMixed, MCUnfit("typed"), MCUnfit("odd"), MCUnfit("misfit")}

MCNames == UNION {DOMAIN s.devices : s \in MCSeeds}
MCRendererOf ==
  [n \in MCNames |->
     CASE n \in {"srl", "odd"} -> "srlinux"
       [] n \in {"gpu", "gpu2", "disk", "misfit"} -> "linux_endpoint"
       [] OTHER -> "frr"]
MCTyped == {"srl", "typed"}
MCEthSlots == 1 .. 4
MCOddLoopbacks == {"odd"}
MCSpineCount == [a |-> 2, b |-> 1]
MCRequired == {"a", "b"}
MCNetworks == 1 .. 11
MCSlots == 1 .. 5
MCAsns == 1 .. 6
MCEdited == {"sb", "la1", "lb", "gpu", "srl"}
MCReaddress == {{}, {[pool |-> "a", network |-> 6, host |-> 0]},
                {[pool |-> "a", network |-> 1, host |-> 0],
                 [pool |-> "a", network |-> 1, host |-> 1]},
                {[pool |-> "b", network |-> 10, host |-> 0]}}
=============================================================================
