-------------------------- MODULE MCSourceSnapshot --------------------------
(* Fixtures in the file order of fixtures/smoke.yaml and of                 *)
(* fixtures/mini-dual-plane.yaml: spines, leaves, endpoints, then links.    *)
EXTENDS SourceSnapshot

At31(pool, network, host) == [pool |-> pool, network |-> network, host |-> host, record |-> 0]

Port(slot, role, plane, network, host) ==
  [slot |-> slot, role |-> role, plane |-> plane, addresses |-> <<At31(plane, network, host)>>]

Router(name, role, plane, asn, own) ==
  [name |-> name, role |-> role, plane |-> plane, platform |-> "frr", asn |-> asn, ports |-> own]

Gpu(name, own) ==
  [name |-> name, role |-> "compute", plane |-> "shared", platform |-> "linux", asn |-> NoAsn,
   ports |-> own]

Link(m, i, n, j) == [a |-> <<m, i>>, b |-> <<n, j>>]

MCSmoke ==
  [devices |->
     <<Router("spine", "spine", "a", 1, <<Port(1, "uplink", "a", 1, 0)>>),
       Router("leaf", "leaf", "a", 2, <<Port(1, "uplink", "a", 1, 1), Port(3, "host", "a", 2, 0)>>),
       Gpu("gpu", <<Port(1, "host", "a", 2, 1)>>)>>,
   links |-> <<Link("spine", 1, "leaf", 1), Link("leaf", 3, "gpu", 1)>>]

MCDual ==
  [devices |->
     <<Router("sa", "spine", "a", 1, <<Port(1, "uplink", "a", 1, 0)>>),
       Router("la", "leaf", "a", 2, <<Port(1, "uplink", "a", 1, 1), Port(3, "host", "a", 2, 0)>>),
       Router("sb", "spine", "b", 3, <<Port(1, "uplink", "b", 1, 0)>>),
       Router("lb", "leaf", "b", 4, <<Port(1, "uplink", "b", 1, 1), Port(3, "host", "b", 2, 0)>>),
       Gpu("gpu", <<Port(1, "host", "a", 2, 1), Port(2, "host", "b", 2, 1)>>)>>,
   links |-> <<Link("sa", 1, "la", 1), Link("sb", 1, "lb", 1),
               Link("la", 3, "gpu", 1), Link("lb", 3, "gpu", 2)>>]

\* All of fixtures/mini-dual-plane.yaml but its loopbacks. It is too large for a
\* run.
Spine(p, n) ==
  Router(<<"spine", p, n>>, "spine", p, <<"spine", p, n>>,
         [k \in 1 .. 2 |-> Port(k, "uplink", p, 2 * (n - 1) + k, 0)])

Leaf(p, n) ==
  Router(<<"leaf", p, n>>, "leaf", p, <<"leaf", p, n>>,
         [k \in 1 .. 2 |-> Port(k, "uplink", p, 2 * (k - 1) + n, 1)]
           \o [k \in 1 .. 2 |-> Port(2 + k, "host", p, 2 + 2 * n + k, 0)])

Endpoint(g) == Gpu(<<"gpu", g>>, <<Port(1, "host", "a", 4 + g, 1), Port(2, "host", "b", 4 + g, 1)>>)

FabricLink(p, s, n) == Link(<<"spine", p, s>>, n, <<"leaf", p, n>>, s)
HostLink(p, g) == Link(<<"leaf", p, (g + 1) \div 2>>, 4 - (g % 2), <<"gpu", g>>, IF p = "a" THEN 1 ELSE 2)

MCMini ==
  [devices |->
     <<Spine("a", 1), Spine("a", 2), Leaf("a", 1), Leaf("a", 2),
       Spine("b", 1), Spine("b", 2), Leaf("b", 1), Leaf("b", 2)>>
       \o [g \in 1 .. 4 |-> Endpoint(g)],
   links |->
     FlattenSeq([k \in 1 .. 2 |-> LET p == <<"a", "b">>[k] IN
                   <<FabricLink(p, 1, 1), FabricLink(p, 1, 2), FabricLink(p, 2, 1), FabricLink(p, 2, 2)>>])
       \o FlattenSeq([k \in 1 .. 2 |-> [g \in 1 .. 4 |-> HostLink(<<"a", "b">>[k], g)]])]

MCCalls == EnsureCalls(Fixture)
MCOrder == [s \in Seeders |-> MCCalls]
MCObjects == ToSet(MCCalls)
MCNames == {d.name : d \in FixtureDevices}
MCSlots == 1 .. 3
MCAsns == 1 .. 4
MCNetworks == 1 .. 2
OnePlane == {"a"}
TwoPlanes == {"a", "b"}
OneSpine == [p \in RequiredPlanes |-> 1]
TwoSpines == [p \in TwoPlanes |-> 2]

Mini == INSTANCE SourceSnapshot WITH Fixture <- MCMini, RequiredPlanes <- TwoPlanes,
                                     SpineCount <- TwoSpines
Smoke == INSTANCE SourceSnapshot WITH Fixture <- MCSmoke, RequiredPlanes <- OnePlane,
                                      SpineCount <- [p \in OnePlane |-> 1]

\* What AcceptedHolds asks of a fixture is so of the one that the run seeds and of
\* mini-dual-plane.yaml, and not of smoke.yaml.
ASSUME FixturesTell == Checkable /\ Mini!Checkable /\ ~Smoke!Checkable
=============================================================================
