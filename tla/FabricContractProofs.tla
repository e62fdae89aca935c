------------------------ MODULE FabricContractProofs ------------------------
(***************************************************************************)
(* For every site, profile and edit: what passes the policy compiles,      *)
(* nothing in it escapes the expected state, the healthy network meets it, *)
(* verification misses no fault, and assurance, given a right prediction,  *)
(* says what verification will say.                                        *)
(***************************************************************************)
EXTENDS BatfishAssurance, FiniteSetTheorems, WellFoundedInduction, TLAPS

-----------------------------------------------------------------------------
(* What the rules say of a host link and of an endpoint.                   *)

\* By CLS003, a host link has a leaf at one end and an endpoint at the other.
LEMMA HostLinkEnds ==
  ASSUME CLS003, NEW l \in LinksOf("host")
  PROVE  \/ RoleAt(l.a) = "leaf" /\ RoleAt(l.b) \in EndpointRoles
         \/ RoleAt(l.b) = "leaf" /\ RoleAt(l.a) \in EndpointRoles
<1>1. "leaf" \in EndRoles(l) /\ EndRoles(l) \cap EndpointRoles # {}
  BY DEF CLS003
<1>2. "leaf" \notin EndpointRoles
  BY DEF EndpointRoles
<1> QED
  BY <1>1, <1>2 DEF EndRoles

\* The end that is on the endpoint is the end EndpointEnd chooses.
LEMMA EndpointEndIs ==
  ASSUME CLS003, NEW l \in LinksOf("host"), NEW i \in Ends(l), RoleAt(i) \in EndpointRoles
  PROVE  EndpointEnd(l) = i
<1>1. \A j \in Ends(l) : RoleAt(j) \in EndpointRoles => j = i
  <2>1. "leaf" \notin EndpointRoles
    BY DEF EndpointRoles
  <2> QED
    BY <2>1, HostLinkEnds DEF Ends
<1>2. EndpointEnd(l) \in Ends(l) /\ RoleAt(EndpointEnd(l)) \in EndpointRoles
  BY DEF EndpointEnd, EndOf
<1> QED
  BY <1>1, <1>2

\* By PLN004 and CLS004, an endpoint has a host link in every required plane.
LEMMA HostLinkExists ==
  ASSUME PLN004, CLS004, PLN003, NEW n \in Endpoints, NEW p \in RequiredPlanes
  PROVE  \E l \in LinksOf("host") : \E i \in Ends(l) : i[1] = n /\ l.plane = p
<1>1. PICK i \in HostPorts(n) : ports[i].plane = p
  BY DEF PLN004
<1>2. i \in Interfaces /\ i[1] = n /\ ports[i].role = "host"
  BY DEF HostPorts
<1> DEFINE L == {l \in LinksOf("host") : i \in Ends(l)}
<1>3. Cardinality(L) = 1
  BY <1>2 DEF CLS004
<1>4. L # {}
  BY <1>3, FS_EmptySet
<1>5. PICK l \in LinksOf("host") : i \in Ends(l)
  BY <1>4
<1>6. ports[i].plane = l.plane
  BY <1>5 DEF PLN003
<1> QED
  BY <1>1, <1>2, <1>5, <1>6

\* The same, as an entry of the expected state's endpoint prefixes.
LEMMA AttachmentExists ==
  ASSUME Passes, NEW n \in Endpoints, NEW p \in RequiredPlanes
  PROVE  \E x \in Attachments : x.port[1] = n /\ x.plane = p
<1> USE DEF Passes
<1>1. PICK l \in LinksOf("host") : \E i \in Ends(l) : i[1] = n /\ l.plane = p
  BY HostLinkExists
<1>2. PICK i \in Ends(l) : i[1] = n /\ l.plane = p
  BY <1>1
<1>3. RoleAt(i) \in EndpointRoles
  BY <1>2 DEF Endpoints, OfRole, RoleAt
<1>4. EndpointEnd(l) = i
  BY <1>3, EndpointEndIs
<1> DEFINE x == [port |-> EndpointEnd(l), plane |-> l.plane,
                 address |-> AddressAt(EndpointEnd(l)), leaf |-> LeafEnd(l)[1]]
<1>5. x \in Attachments
  BY DEF Attachments
<1>6. x.port[1] = n /\ x.plane = p
  BY <1>2, <1>4
<1> QED
  BY <1>5, <1>6

-----------------------------------------------------------------------------
(* Validation covers the errors of generation.                             *)

\* Of a valid fabric the expected state can be generated, whatever the site.
LEMMA PolicyCoversGeneration == Passes => ~Ungenerated
<1> SUFFICES ASSUME Passes PROVE ~Ungenerated
  OBVIOUS
<1> USE DEF Passes
<1>1. \A n \in Routers : devices[n].asn # NoAsn
  BY DEF GEN003
<1>2. ASSUME NEW l \in LinksOf("fabric")
      PROVE  EndRoles(l) = {"spine", "leaf"} /\ \A i \in Ends(l) : Addressed(i)
  BY DEF CLS002, ADR002, ValidP2P, Ends
<1>3. ASSUME NEW l \in LinksOf("host")
      PROVE  /\ \E r \in EndpointRoles : EndRoles(l) = {"leaf", r}
             /\ \A i \in Ends(l) : Addressed(i)
             /\ AddressAt(l.a).pool = AddressAt(l.b).pool
             /\ AddressAt(l.a).network = AddressAt(l.b).network
  <2>1. \E r \in EndpointRoles : EndRoles(l) = {"leaf", r}
    BY HostLinkEnds DEF EndRoles
  <2>2. ValidP2P(l)
    BY DEF ADR003
  <2> QED
    BY <2>1, <2>2 DEF ValidP2P, Ends
<1>4. ASSUME NEW n \in Endpoints
      PROVE  \E l \in LinksOf("host") : n \in EndNodes(l)
  <2>1. PICK p \in RequiredPlanes : TRUE
    BY PlanesAssumption
  <2>2. PICK l \in LinksOf("host") : \E i \in Ends(l) : i[1] = n
    BY HostLinkExists
  <2> QED
    BY <2>2 DEF Ends, EndNodes
<1> QED
  BY <1>1, <1>2, <1>3, <1>4 DEF Ungenerated

\* A link ends at interfaces, so that what SR Linux has names for, it can render.
LEMMA ConventionCoversRendering == Conventional => ~Unrendered
<1> SUFFICES ASSUME Conventional PROVE ~Unrendered
  OBVIOUS
<1>1. \A i \in Interfaces : ~Unnamed(i)
  BY DEF Conventional, Unnamed
<1>2. \A l \in Links : Ends(l) \subseteq Interfaces
  BY DEF Links, LinkOf, Included, Ends
<1> QED
  BY <1>1, <1>2 DEF Unrendered, Conventional

\* In every state of every edited site, a fabric that passes the policy and
\* keeps to the conventions of names and types is generated and rendered.
THEOREM CompileHolds == Spec => []ValidCompiles
<1>1. ValidCompiles
  BY PolicyCoversGeneration, ConventionCoversRendering DEF ValidCompiles, Refused
<1> QED
  BY <1>1, PTL

-----------------------------------------------------------------------------
(* Nothing in an accepted site escapes the expected state.                 *)

\* The contract of a build that runs is the one of the site it was made from.
Kept == contract # NoContract => Passes /\ contract = ExpectedState

LEMMA KeptInitially == Init => Kept
  BY DEF Init, Kept

\* The verdict of the policy is a function of the site.
LEMMA SameSiteSameVerdict ==
  ASSUME UNCHANGED inventory PROVE Passes' <=> Passes
<1> QED
  BY DEF inventory, Passes, GEN003, GEN006, GEN007, PLN001, PLN002, PLN003, PLN004, PLN005,
         CLS001, CLS002, CLS003, CLS004, CLS005, ADR002, ADR003, ADR006, Nodes, OfRole,
         Routers, Endpoints, Interfaces, Included, RoleAt, Kind, LinkOf, Links, LinksOf, Ends,
         EndNodes, EndRoles, Addressed, AddressAt, HostPorts, LeavesOf, InPlane, Uplinks,
         SpineNeighbours, ValidP2P

\* And so is the expected state.
LEMMA SameSiteSameContract ==
  ASSUME UNCHANGED inventory PROVE ExpectedState' = ExpectedState
<1> QED
  BY DEF inventory, ExpectedState, Adjacencies, RouterPrefixes, Reachability, Isolation,
         RoutesOf, MinNextHops, Connected, Prefix, Attachments, Side, LeafEnd, SpineEnd,
         EndpointEnd, EndOf, Probe, Nodes, OfRole, Routers, Endpoints, Interfaces, Included,
         RoleAt, Kind, LinkOf, Links, LinksOf, Ends, EndNodes, EndRoles, AddressAt

LEMMA KeptByEveryStep == Kept /\ [Next]_vars => Kept'
<1> SUFFICES ASSUME Kept, [Next]_vars PROVE Kept'
  OBVIOUS
<1>1. CASE EditSite
  <2>1. contract' = NoContract
    BY <1>1 DEF EditSite, Edit, Unplug, Disconnect, Plug, Connect, ChangePort, ChangeDevice, Retire
  <2> QED
    BY <2>1 DEF Kept
<1>2. ASSUME UNCHANGED <<inventory, contract>> PROVE Kept'
  BY <1>2, SameSiteSameVerdict, SameSiteSameContract DEF Kept
<1>3. CASE Compile
  <2>1. Passes /\ contract' = ExpectedState /\ UNCHANGED inventory
    BY <1>3 DEF Compile, Rejected
  <2>2. Passes' /\ ExpectedState' = ExpectedState
    BY <2>1, SameSiteSameVerdict, SameSiteSameContract
  <2> QED
    BY <2>1, <2>2 DEF Kept
<1>4. CASE NetworkMoves
  BY <1>4, <1>2 DEF NetworkMoves, LinkDown, RouteLeaks
<1>5. CASE UNCHANGED vars
  BY <1>5, <1>2 DEF vars
<1> QED
  BY <1>1, <1>3, <1>4, <1>5 DEF Next

\* The probes and the routes of an accepted site are complete.
LEMMA KeptIsComplete == Kept => EverythingIsExpected
<1> SUFFICES ASSUME Kept, contract # NoContract,
                    NEW m \in Endpoints, NEW n \in Endpoints, NEW p \in RequiredPlanes
             PROVE  /\ m # n => \E e \in contract.reachability :
                                  /\ e.from.port[1] = m /\ e.to.port[1] = n
                                  /\ e.from.plane = p
                    /\ \A q \in RequiredPlanes \ {p} :
                         \E e \in contract.isolation :
                           /\ e.from.port[1] = m /\ e.from.plane = p
                           /\ e.to.port[1] = n /\ e.to.plane = q
                    /\ \A r \in Routers : devices[r].plane = p =>
                         \E e \in contract.routes : e.router = r /\ e.endpoint = n
  BY DEF EverythingIsExpected
<1>1. Passes /\ contract = ExpectedState
  BY DEF Kept
<1>2. PICK x \in Attachments : x.port[1] = m /\ x.plane = p
  BY <1>1, AttachmentExists
<1>3. PICK y \in Attachments : y.port[1] = n /\ y.plane = p
  BY <1>1, AttachmentExists
<1>4. contract.reachability = Reachability /\ contract.isolation = Isolation
      /\ contract.routes = RouterPrefixes
  BY <1>1 DEF ExpectedState
<1>5. ASSUME m # n
      PROVE  \E e \in contract.reachability :
               e.from.port[1] = m /\ e.to.port[1] = n /\ e.from.plane = p
  <2> DEFINE Tested == {k \in Attachments \X Attachments :
                         /\ k[1].plane \in RequiredPlanes /\ k[2].plane = k[1].plane
                         /\ k[1].port[1] # k[2].port[1]}
  <2>1. <<x, y>> \in Tested
    BY <1>2, <1>3, <1>5
  <2>2. Probe(<<x, y>>[1], <<x, y>>[2]) \in Reachability
    BY <2>1 DEF Reachability
  <2> QED
    BY <1>2, <1>3, <1>4, <2>2 DEF Probe
<1>6. ASSUME NEW q \in RequiredPlanes \ {p}
      PROVE  \E e \in contract.isolation :
               /\ e.from.port[1] = m /\ e.from.plane = p
               /\ e.to.port[1] = n /\ e.to.plane = q
  <2>1. PICK z \in Attachments : z.port[1] = n /\ z.plane = q
    BY <1>1, AttachmentExists
  <2> DEFINE Tested == {k \in Attachments \X Attachments :
                         /\ k[1].plane \in RequiredPlanes /\ k[2].plane \in RequiredPlanes
                         /\ k[1].plane # k[2].plane}
  <2>2. <<x, z>> \in Tested
    BY <1>2, <2>1
  <2>3. Probe(<<x, z>>[1], <<x, z>>[2]) \in Isolation
    BY <2>2 DEF Isolation
  <2> QED
    BY <1>2, <1>4, <2>1, <2>3 DEF Probe
<1>7. ASSUME NEW r \in Routers, devices[r].plane = p
      PROVE  \E e \in contract.routes : e.router = r /\ e.endpoint = n
  <2>1. r \in {k \in Routers : devices[k].plane \in RequiredPlanes}
    BY <1>7
  <2>2. y \in {k \in Attachments : k.plane = devices[r].plane}
    BY <1>3, <1>7
  <2>3. \E e \in RoutesOf(r) : e.router = r /\ e.endpoint = n
    <3> DEFINE e == [router |-> r, plane |-> y.plane, prefix |-> Prefix(y),
                     endpoint |-> y.port[1],
                     protocol |-> IF Connected(r, y) THEN "connected" ELSE "bgp",
                     hops |-> MinNextHops(r, y)]
    <3>1. e \in RoutesOf(r)
      BY <2>2 DEF RoutesOf
    <3> QED
      BY <1>3, <3>1
  <2> QED
    BY <1>4, <2>1, <2>3 DEF RouterPrefixes
<1> QED
  BY <1>5, <1>6, <1>7

\* Every endpoint of an accepted site is probed and routed to, whatever the
\* site, and stays so while the network moves.
THEOREM ExpectedHolds == Spec => []EverythingIsExpected
<1>1. Init => Kept
  BY KeptInitially
<1>2. Kept /\ [Next]_vars => Kept'
  BY KeptByEveryStep
<1>3. Kept => EverythingIsExpected
  BY KeptIsComplete
<1> QED
  BY <1>1, <1>2, <1>3, PTL DEF Spec

-----------------------------------------------------------------------------
(* The state has its type.                                                 *)

\* The expected sessions of a site that passes are between its routers.
LEMMA AdjacenciesTyped ==
  ASSUME WellFormed(devices, ports, cables), Passes
  PROVE  Adjacencies \subseteq AdjacencyType
<1> USE DEF Passes
<1> SUFFICES ASSUME NEW l \in LinksOf("fabric")
             PROVE  [leaf |-> Side(LeafEnd(l)), spine |-> Side(SpineEnd(l))] \in AdjacencyType
  BY DEF Adjacencies
<1>1. EndRoles(l) = {"spine", "leaf"}
  BY DEF CLS002
<1>2. ASSUME NEW role \in {"spine", "leaf"}, NEW i, i = EndOf(l, {role})
      PROVE  Side(i) \in [node : OfRole({role}), address : Addresses, asn : Asns]
  <2>1. i \in Ends(l) /\ RoleAt(i) = role
    BY <1>1, <1>2 DEF EndOf, EndRoles, Ends
  <2>2. i \in Interfaces /\ Addressed(i)
    BY <2>1 DEF LinksOf, Links, LinkOf, Included, Ends, ADR002, ValidP2P
  <2>3. i \in DOMAIN ports /\ i[1] \in Nodes /\ ports[i] \in Ports
    BY <2>2 DEF Interfaces, WellFormed, Nodes
  <2>4. AddressAt(i) \in Addresses
    BY <2>2, <2>3 DEF Addressed, AddressAt, Ports
  <2>5. i[1] \in OfRole({role}) /\ i[1] \in Routers
    BY <2>1, <2>3 DEF OfRole, RoleAt, Routers, NetworkRoles
  <2>6. devices[i[1]].asn \in Asns
    BY <2>3, <2>5 DEF GEN003, WellFormed, Devices, Nodes
  <2>7. QED
    BY <2>4, <2>5, <2>6 DEF Side
<1>3. QED
  BY <1>2 DEF AdjacencyType, LeafEnd, SpineEnd

\* Before a build runs nothing can fail.
Healthy == contract = NoContract => down = {} /\ leaked = {}

LEMMA EditKeepsForm ==
  ASSUME WellFormed(devices, ports, cables), EditSite
  PROVE  WellFormed(devices, ports, cables)'
<1> USE DEF WellFormed, Nodes
<1>1. ASSUME NEW c \in cables, Unplug(c) \/ Disconnect(c)
      PROVE  WellFormed(devices, ports, cables)'
  BY <1>1 DEF Unplug, Disconnect
<1>2. ASSUME NEW i \in DOMAIN ports, NEW j \in DOMAIN ports, Plug(i, j)
      PROVE  WellFormed(devices, ports, cables)'
  BY <1>2 DEF Plug, Uncabled
<1>3. ASSUME NEW m \in Nodes, NEW n \in Nodes, NEW p \in {"a", "b"}, Connect(m, n, p)
      PROVE  WellFormed(devices, ports, cables)'
  <2> DEFINE i == <<m, CHOOSE s \in FreePorts(m) : TRUE>>
             j == <<n, CHOOSE s \in FreePorts(n) : TRUE>>
             k == CHOOSE k \in FreeNetworks(p) : TRUE
             role == IF {m, n} \cap Endpoints # {} THEN "host" ELSE "uplink"
             New(h) == [role |-> role, plane |-> p,
                        addresses |-> {[pool |-> p, network |-> k, host |-> h]}]
  <2>1. /\ i \in (Nodes \X Slots) \ DOMAIN ports /\ j \in (Nodes \X Slots) \ DOMAIN ports
        /\ k \in Networks
    <3>1. ASSUME NEW x \in Nodes, NEW s \in FreePorts(x)
          PROVE  <<x, s>> \in (Nodes \X Slots) \ DOMAIN ports
      BY DEF FreePorts
    <3>2. /\ (CHOOSE s \in FreePorts(m) : TRUE) \in FreePorts(m)
          /\ (CHOOSE s \in FreePorts(n) : TRUE) \in FreePorts(n)
          /\ k \in FreeNetworks(p)
      BY <1>3 DEF Connect
    <3>3. /\ i \in (Nodes \X Slots) \ DOMAIN ports
          /\ j \in (Nodes \X Slots) \ DOMAIN ports
      BY <3>1, <3>2
    <3>4. QED
      BY <3>2, <3>3 DEF FreeNetworks
  <2>2. New(0) \in Ports /\ New(1) \in Ports
    BY <2>1 DEF Ports, Planes, Addresses
  <2>3. /\ ports' = [q \in DOMAIN ports \cup {i, j} |->
                        IF q = i THEN New(0) ELSE IF q = j THEN New(1) ELSE ports[q]]
        /\ cables' = cables \cup {<<i, j>>} /\ devices' = devices
    BY <1>3 DEF Connect
  <2> HIDE DEF i, j, New
  <2>4. QED
    BY <2>1, <2>2, <2>3
<1>4. ASSUME NEW i \in DOMAIN ports, NEW port \in Ports, ChangePort(i, port)
      PROVE  WellFormed(devices, ports, cables)'
  BY <1>4 DEF ChangePort
<1>5. ASSUME NEW n \in Nodes, NEW device \in Devices, ChangeDevice(n, device)
      PROVE  WellFormed(devices, ports, cables)'
  BY <1>5 DEF ChangeDevice
<1>6. ASSUME NEW n \in Nodes, Retire(n)
      PROVE  WellFormed(devices, ports, cables)'
  BY <1>6 DEF Retire
<1>7. \A i \in DOMAIN ports :
        /\ \A p \in Planes : [ports[i] EXCEPT !.plane = p] \in Ports
        /\ \A r \in {"uplink", "host", "mgmt", "none"} : [ports[i] EXCEPT !.role = r] \in Ports
        /\ \A s \in Readdress : [ports[i] EXCEPT !.addresses = s] \in Ports
  BY EditAssumption DEF Ports
<1>8. \A n \in Nodes :
        /\ \A p \in Planes : [devices[n] EXCEPT !.plane = p] \in Devices
        /\ \A k \in {NoAsn} \cup {devices[m].asn : m \in Edited \cap Nodes} :
             [devices[n] EXCEPT !.asn = k] \in Devices
  BY DEF Devices
<1>9. ASSUME NEW i \in DOMAIN ports,
             \/ \E p \in Planes : ChangePort(i, [ports[i] EXCEPT !.plane = p])
             \/ \E r \in {"uplink", "host", "mgmt", "none"} :
                  ChangePort(i, [ports[i] EXCEPT !.role = r])
             \/ \E s \in Readdress : ChangePort(i, [ports[i] EXCEPT !.addresses = s])
      PROVE  WellFormed(devices, ports, cables)'
  <2>1. PICK port \in Ports : ChangePort(i, port)
    BY <1>7, <1>9
  <2>2. QED
    BY <1>4, <2>1
<1>10. ASSUME NEW n \in Edited \cap Nodes,
              \/ Retire(n)
              \/ \E p \in Planes : ChangeDevice(n, [devices[n] EXCEPT !.plane = p])
              \/ \E k \in {NoAsn} \cup {devices[m].asn : m \in Edited \cap Nodes} :
                   ChangeDevice(n, [devices[n] EXCEPT !.asn = k])
       PROVE  WellFormed(devices, ports, cables)'
  <2>1. n \in Nodes
    OBVIOUS
  <2>2. Retire(n) \/ \E device \in Devices : ChangeDevice(n, device)
    BY <1>8, <1>10, <2>1
  <2>3. QED
    BY <1>5, <1>6, <2>1, <2>2
<1>11. ASSUME NEW m \in Edited \cap Nodes, NEW n \in Edited \cap Nodes, NEW p \in {"a", "b"},
              Connect(m, n, p)
       PROVE  WellFormed(devices, ports, cables)'
  <2>1. m \in Nodes /\ n \in Nodes
    OBVIOUS
  <2>2. QED
    BY <1>3, <1>11, <2>1
<1> HIDE DEF WellFormed, Nodes
<1>12. QED
  BY <1>1, <1>2, <1>9, <1>10, <1>11 DEF EditSite

LEMMA TypeInitially == Init => TypeOK /\ Healthy
BY SeedAssumption, EditAssumption DEF Init, TypeOK, Healthy

LEMMA TypeByEveryStep ==
  ASSUME TypeOK, Healthy, Kept, Kept', [Next]_vars
  PROVE  TypeOK' /\ Healthy'
<1>1. CASE EditSite
  <2>1. contract' = NoContract /\ UNCHANGED <<down, leaked>> /\ edits' = edits + 1
    BY <1>1 DEF EditSite, Edit, Unplug, Disconnect, Plug, Connect, ChangePort, ChangeDevice,
       Retire
  <2>2. edits' \in 0 .. MaxEdits
    BY <1>1, <2>1, EditAssumption DEF EditSite, TypeOK
  <2>3. down = {} /\ leaked = {}
    BY <1>1 DEF EditSite, Healthy
  <2>4. QED
    BY <1>1, <2>1, <2>2, <2>3, EditKeepsForm DEF TypeOK, Healthy
<1>2. ASSUME UNCHANGED inventory
      PROVE  Links' = Links /\ Routers' = Routers /\ AdjacencyType' = AdjacencyType
             /\ WellFormed(devices, ports, cables)'
  BY <1>2 DEF inventory, TypeOK, WellFormed, Links, LinkOf, Included, Interfaces, Kind, RoleAt,
     Routers, OfRole, Nodes, AdjacencyType
<1>3. CASE Compile
  <2>1. UNCHANGED <<inventory, edits, down, leaked>> /\ contract = NoContract
    BY <1>3 DEF Compile
  <2>2. Passes /\ contract' = ExpectedState
    BY <1>3 DEF Compile, Rejected
  <2>3. contract'.bgp \subseteq AdjacencyType
    BY <2>2, AdjacenciesTyped DEF TypeOK, ExpectedState
  <2>4. QED
    BY <1>2, <2>1, <2>3 DEF TypeOK, Healthy
<1>4. ASSUME NEW l \in LinksOf("fabric") \cup LinksOf("host"), contract # NoContract, LinkDown(l)
      PROVE  TypeOK' /\ Healthy'
  <2>1. UNCHANGED <<inventory, edits, contract, leaked>> /\ down' = down \cup {l} /\ l \in Links
    BY <1>4 DEF LinkDown, LinksOf
  <2>2. QED
    BY <1>2, <1>4, <2>1 DEF TypeOK, Healthy
<1>5. ASSUME NEW n \in Routers, NEW x \in Attachments, contract # NoContract, RouteLeaks(n, x)
      PROVE  TypeOK' /\ Healthy'
  <2>1. UNCHANGED <<inventory, edits, contract, down>> /\ leaked' = leaked \cup {Leak(n, x)}
        /\ Leak(n, x).router = n
    BY <1>5 DEF RouteLeaks, Leak
  <2>2. QED
    BY <1>2, <1>5, <2>1 DEF TypeOK, Healthy
<1>6. CASE UNCHANGED vars
  BY <1>2, <1>6 DEF vars, TypeOK, Healthy
<1>7. QED
  BY <1>1, <1>3, <1>4, <1>5, <1>6 DEF Next, NetworkMoves

\* Type correctness, for every site NetBox can hold: among other things, only
\* routers with an address and an AS number are expected to have sessions.
THEOREM TypeHolds == Spec => []TypeOK
<1>1. Init => TypeOK /\ Healthy /\ Kept
  BY TypeInitially, KeptInitially
<1>2. TypeOK /\ Healthy /\ Kept /\ [Next]_vars => TypeOK' /\ Healthy' /\ Kept'
  BY TypeByEveryStep, KeptByEveryStep
<1>3. QED
  BY <1>1, <1>2, PTL DEF Spec

-----------------------------------------------------------------------------
(* What assurance passes.                                                  *)

\* A session's two routers: a leaf, a spine, and no other.
LEMMA SessionEnds ==
  ASSUME CLS002, NEW l \in LinksOf("fabric")
  PROVE  /\ EndNodes(l) = {LeafEnd(l)[1], SpineEnd(l)[1]}
         /\ devices[LeafEnd(l)[1]].role = "leaf" /\ devices[SpineEnd(l)[1]].role = "spine"
         /\ \A n \in EndNodes(l) : devices[n].role = "spine" => n = SpineEnd(l)[1]
<1>1. {RoleAt(l.a), RoleAt(l.b)} = {"spine", "leaf"}
  BY DEF CLS002, EndRoles
<1>2. /\ LeafEnd(l) \in Ends(l) /\ RoleAt(LeafEnd(l)) = "leaf"
      /\ SpineEnd(l) \in Ends(l) /\ RoleAt(SpineEnd(l)) = "spine"
  BY <1>1 DEF LeafEnd, SpineEnd, EndOf, Ends
<1>3. Ends(l) = {LeafEnd(l), SpineEnd(l)}
  BY <1>1, <1>2 DEF Ends
<1>4. EndNodes(l) = {LeafEnd(l)[1], SpineEnd(l)[1]}
  <2>1. EndNodes(l) = {i[1] : i \in Ends(l)}
    BY DEF EndNodes, Ends
  <2>2. QED
    BY <1>3, <2>1
<1>5. QED
  BY <1>2, <1>4 DEF RoleAt

\* A router that was not taken in has a session that no answer speaks of.
LEMMA UnreadIsMissed ==
  ASSUME Kept, contract # NoContract, NEW n \in Routers
  PROVE  ~CheckSessions(SessionRows(Routers \ {n}))
<1>1. Passes /\ contract.bgp = Adjacencies
  BY DEF Kept, ExpectedState
<1>2. PICK l \in LinksOf("fabric") : n \in EndNodes(l)
  BY <1>1 DEF Passes, CLS005
<1> DEFINE j == [leaf |-> Side(LeafEnd(l)), spine |-> Side(SpineEnd(l))]
<1>3. j \in contract.bgp
  BY <1>1 DEF Adjacencies
<1>4. n = j.leaf.node \/ n = j.spine.node
  BY <1>1, <1>2, SessionEnds DEF Passes, Side
<1>5. PICK p \in Pairs(j) : p[1] = n
  BY <1>4 DEF Pairs
<1>6. p \in ExpectedPairs
  BY <1>3 DEF ExpectedPairs
<1>7. \A r \in SessionRows(Routers \ {n}) : r.node # n
  BY DEF SessionRows
<1>8. QED
  BY <1>5, <1>6, <1>7 DEF CheckSessions

\* Whatever the site, the profile and the answer about the file: a router
\* configuration that Batfish took nothing from never passes assurance.
THEOREM UnreadHolds == Spec => []UnreadIsFound
<1>1. Kept => UnreadIsFound
  BY UnreadIsMissed DEF UnreadIsFound, Assured
<1>2. QED
  BY <1>1, KeptInitially, KeptByEveryStep, PTL DEF Spec

\* There are finitely many links.
LEMMA LinksFinite ==
  ASSUME WellFormed(devices, ports, cables) PROVE IsFiniteSet(Links)
<1>1. IsFiniteSet(Names \X Slots)
  BY FiniteAssumption, FS_Product
<1>2. IsFiniteSet(DOMAIN ports)
  <2>1. DOMAIN ports \in SUBSET (Names \X Slots)
    BY DEF WellFormed
  <2>2. QED
    BY <1>1, <2>1, FS_Subset
<1>3. IsFiniteSet(Included)
  <2>1. IsFiniteSet((DOMAIN ports) \X (DOMAIN ports))
    BY <1>2, FS_Product
  <2>2. Included \in SUBSET ((DOMAIN ports) \X (DOMAIN ports))
    BY DEF WellFormed, Included
  <2>3. QED
    BY <2>1, <2>2, FS_Subset
<1> DEFINE f == [c \in Included |-> LinkOf(c)]
<1>4. f \in Surjection(Included, Links)
  BY DEF Surjection, Links
<1>5. QED
  BY <1>3, <1>4, FS_Surjection

\* A leaf has one uplink to each spine of its plane: as many uplinks as spines
\* (CLS001), none of which is left out.
LEMMA OneUplinkPerSpine ==
  ASSUME WellFormed(devices, ports, cables), Passes, Aligned,
         NEW p \in RequiredPlanes, NEW leaf \in InPlane("leaf", p),
         NEW k \in Uplinks(leaf, p), NEW l \in Uplinks(leaf, p),
         SpineEnd(k)[1] = SpineEnd(l)[1]
  PROVE  k = l
<1> USE DEF Passes
<1> DEFINE U == Uplinks(leaf, p)
           S == InPlane("spine", p)
           f == [u \in U |-> SpineEnd(u)[1]]
<1>1. Cardinality(U) = Cardinality(S) /\ SpineNeighbours(leaf, p) = S
  BY DEF CLS001
<1>2. IsFiniteSet(U)
  <2>1. U \in SUBSET Links
    BY DEF Uplinks, LinksOf
  <2>2. QED
    BY <2>1, LinksFinite, FS_Subset
<1>3. ASSUME NEW u \in U PROVE SpineEnd(u)[1] \in S
  <2>1. u \in LinksOf("fabric") /\ u.plane = p
    BY DEF Uplinks
  <2>2. SpineEnd(u)[1] \in EndNodes(u) /\ devices[SpineEnd(u)[1]].role = "spine"
    BY <2>1, SessionEnds
  <2>3. EndNodes(u) \subseteq Nodes
    BY <2>1 DEF LinksOf, Links, LinkOf, Included, Interfaces, EndNodes, WellFormed, Nodes
  <2>4. SpineEnd(u)[1] \in Routers
    BY <2>2, <2>3 DEF Routers, OfRole, NetworkRoles
  <2>5. devices[SpineEnd(u)[1]].plane = p
    BY <2>1, <2>2, <2>4 DEF Aligned
  <2>6. QED
    BY <2>2, <2>3, <2>5 DEF InPlane, OfRole
<1>4. ASSUME NEW s \in S PROVE \E u \in U : SpineEnd(u)[1] = s
  <2>1. s \in SpineNeighbours(leaf, p) /\ devices[s].role = "spine"
    BY <1>1 DEF InPlane, OfRole
  <2>2. PICK u \in LinksOf("fabric") : u.plane = p /\ EndNodes(u) = {leaf, s}
    BY <2>1 DEF SpineNeighbours
  <2>3. SpineEnd(u)[1] = s
    BY <2>1, <2>2, SessionEnds
  <2>4. u \in U
    BY <2>2 DEF Uplinks, CLS002
  <2>5. QED
    BY <2>3, <2>4
<1>5. f \in Surjection(U, S)
  BY <1>3, <1>4 DEF Surjection
<1>6. f \in Injection(U, S)
  BY <1>1, <1>2, <1>5, FS_Surjection
<1>7. QED
  BY <1>6 DEF Injection, IsInjective

LEMMA SessionsApart ==
  ASSUME TypeOK, Kept, contract # NoContract, Aligned,
         NEW j \in contract.bgp, NEW k \in contract.bgp, Pairs(j) = Pairs(k)
  PROVE  j = k
<1>1. Passes /\ contract.bgp = Adjacencies
  BY DEF Kept, ExpectedState
<1>2. PICK l \in LinksOf("fabric") : j = [leaf |-> Side(LeafEnd(l)), spine |-> Side(SpineEnd(l))]
  BY <1>1 DEF Adjacencies
<1>3. PICK m \in LinksOf("fabric") : k = [leaf |-> Side(LeafEnd(m)), spine |-> Side(SpineEnd(m))]
  BY <1>1 DEF Adjacencies
<1>4. CLS002
  BY <1>1 DEF Passes
<1> DEFINE leaf == LeafEnd(l)[1]
           p == l.plane
<1>5. LeafEnd(m)[1] = leaf /\ SpineEnd(m)[1] = SpineEnd(l)[1]
  <2>1. <<LeafEnd(l)[1], SpineEnd(l)[1]>> \in Pairs(j)
    BY <1>2 DEF Pairs, Side
  <2>2. Pairs(k) = {<<LeafEnd(m)[1], SpineEnd(m)[1]>>, <<SpineEnd(m)[1], LeafEnd(m)[1]>>}
    BY <1>3 DEF Pairs, Side
  <2>3. devices[leaf].role = "leaf" /\ devices[SpineEnd(m)[1]].role = "spine"
    BY <1>4, SessionEnds
  <2>4. QED
    BY <2>1, <2>2, <2>3
<1>6. ASSUME NEW u \in LinksOf("fabric"), LeafEnd(u)[1] = leaf
      PROVE  /\ leaf \in Nodes /\ devices[leaf].plane = u.plane
             /\ u \in Uplinks(leaf, u.plane)
  <2>1. leaf \in EndNodes(u) /\ devices[leaf].role = "leaf"
    BY <1>4, <1>6, SessionEnds
  <2>2. EndNodes(u) \subseteq Nodes
    BY DEF LinksOf, Links, LinkOf, Included, Interfaces, EndNodes, TypeOK, WellFormed, Nodes
  <2>3. leaf \in Routers
    BY <2>1, <2>2 DEF Routers, OfRole, NetworkRoles
  <2>4. "spine" \in EndRoles(u)
    BY <1>4 DEF CLS002
  <2>5. QED
    BY <2>1, <2>2, <2>3, <2>4 DEF Aligned, Uplinks
<1>7. m.plane = p
  BY <1>5, <1>6
<1>8. p \in RequiredPlanes
  BY <1>1 DEF Passes, PLN003
<1>9. leaf \in InPlane("leaf", p)
  BY <1>4, <1>6, SessionEnds DEF InPlane, OfRole
<1>10. l \in Uplinks(leaf, p) /\ m \in Uplinks(leaf, p)
  BY <1>5, <1>6, <1>7
<1>11. l = m
  BY <1>1, <1>5, <1>8, <1>9, <1>10, OneUplinkPerSpine DEF TypeOK
<1>12. QED
  BY <1>2, <1>3, <1>11

\* In every aligned site that compiles, to know a session by its two nodes, as
\* assurance does, is to know it.
THEOREM SessionsHold == Spec => []SessionsAreTheirNodes
<1>1. Init => TypeOK /\ Healthy /\ Kept
  BY TypeInitially, KeptInitially
<1>2. TypeOK /\ Healthy /\ Kept /\ [Next]_vars => TypeOK' /\ Healthy' /\ Kept'
  BY TypeByEveryStep, KeptByEveryStep
<1>3. TypeOK /\ Kept => SessionsAreTheirNodes
  BY SessionsApart DEF SessionsAreTheirNodes
<1>4. QED
  BY <1>1, <1>2, <1>3, PTL DEF Spec

-----------------------------------------------------------------------------
(* Verification discriminates.                                             *)

\* What has failed is of the site: its links, and routes of its endpoints in
\* routers of the other plane.
Failures ==
  /\ down \subseteq LinksOf("fabric") \cup LinksOf("host")
  /\ \A k \in leaked : \E n \in Routers, x \in Attachments :
       x.plane # devices[n].plane /\ k = Leak(n, x)

LEMMA FailuresByEveryStep ==
  ASSUME Healthy, Failures, [Next]_vars
  PROVE  Failures'
<1>1. ASSUME UNCHANGED inventory
      PROVE  /\ LinksOf("fabric")' = LinksOf("fabric") /\ LinksOf("host")' = LinksOf("host")
             /\ Routers' = Routers /\ Attachments' = Attachments /\ devices' = devices
  BY <1>1 DEF inventory, LinksOf, Links, LinkOf, Included, Interfaces, Kind, RoleAt, Routers,
     OfRole, Nodes, Attachments, EndpointEnd, LeafEnd, EndOf, Ends, AddressAt
<1>2. CASE EditSite
  <2>1. UNCHANGED <<down, leaked>>
    BY <1>2 DEF EditSite, Edit, Unplug, Disconnect, Plug, Connect, ChangePort, ChangeDevice,
       Retire
  <2>2. down = {} /\ leaked = {}
    BY <1>2 DEF EditSite, Healthy
  <2>3. QED
    BY <2>1, <2>2 DEF Failures
<1>3. ASSUME UNCHANGED <<inventory, down, leaked>> PROVE Failures'
  BY <1>1, <1>3 DEF Failures, Leak, Prefix
<1>4. ASSUME NEW l \in LinksOf("fabric") \cup LinksOf("host"), LinkDown(l)
      PROVE  Failures'
  BY <1>1, <1>4 DEF Failures, LinkDown, Leak, Prefix
<1>5. ASSUME NEW n \in Routers, NEW x \in Attachments, RouteLeaks(n, x)
      PROVE  Failures'
  BY <1>1, <1>5 DEF Failures, RouteLeaks, Leak, Prefix
<1>6. QED
  BY <1>2, <1>3, <1>4, <1>5 DEF Next, Compile, NetworkMoves, vars

\* A port takes one cable, so that an address is of one link (GEN006).
LEMMA AddressOfOneLink ==
  ASSUME WellFormed(devices, ports, cables), GEN006, NEW k \in Links, NEW l \in Links,
         NEW i \in Ends(k), NEW j \in Ends(l), Addressed(i), Addressed(j),
         AddressAt(i) = AddressAt(j)
  PROVE  k = l
<1>1. PICK c \in Included : k = LinkOf(c)
  BY DEF Links
<1>2. PICK d \in Included : l = LinkOf(d)
  BY DEF Links
<1>3. i \in {c[1], c[2]} /\ j \in {d[1], d[2]}
  BY <1>1, <1>2 DEF LinkOf, Ends
<1>4. i \in Interfaces /\ j \in Interfaces
  BY <1>3 DEF Included
<1>5. AddressAt(i) \in ports[i].addresses \cap ports[j].addresses
  BY DEF Addressed, AddressAt
<1>6. i = j
  BY <1>4, <1>5 DEF GEN006
<1>7. c = d
  BY <1>3, <1>6 DEF WellFormed, Included
<1>8. QED
  BY <1>1, <1>2, <1>7

\* The session of a link that is down is missed.
LEMMA DownSessionIsFound ==
  ASSUME TypeOK, Kept, contract # NoContract, NEW l \in LinksOf("fabric"), l \in down
  PROVE  ~SessionsPass
<1>1. Passes /\ contract.bgp = Adjacencies
  BY DEF Kept, ExpectedState
<1> DEFINE j == [leaf |-> Side(LeafEnd(l)), spine |-> Side(SpineEnd(l))]
<1> SUFFICES ASSUME SessionsPass PROVE FALSE
  OBVIOUS
<1>2. j \in contract.bgp /\ <<j.leaf, j.spine>> \in Sides(j)
  BY <1>1 DEF Adjacencies, Sides
<1>3. PICK m \in Neighbours(j.leaf.node) : m.address = j.spine.address /\ m.established
  BY <1>2 DEF SessionsPass
<1>4. PICK k \in LinksOf("fabric") :
        /\ j.leaf.node \in EndNodes(k)
        /\ m.address = AddressAt(FarEnd(k, j.leaf.node)) /\ k \notin down
  <2> DEFINE n == j.leaf.node
  <2> HIDE DEF n
  <2>1. PICK k \in {u \in LinksOf("fabric") : n \in EndNodes(u)} :
          m = [address |-> AddressAt(FarEnd(k, n)), asn |-> devices[FarEnd(k, n)[1]].asn,
               established |-> k \notin down]
    BY <1>3 DEF Neighbours, n
  <2>2. m.address = AddressAt(FarEnd(k, n)) /\ k \notin down
    BY <1>3, <2>1
  <2>3. QED
    BY <2>1, <2>2 DEF n
<1>5. FarEnd(k, j.leaf.node) \in Ends(k)
  <2>1. \E i \in Ends(k) : EndNodes(k) # {j.leaf.node} => i[1] # j.leaf.node
    BY DEF Ends, EndNodes
  <2>2. QED
    BY <2>1 DEF FarEnd
<1>6. SpineEnd(l) \in Ends(l)
  <2>1. \E i \in Ends(l) : RoleAt(i) \in {"spine"}
    BY <1>1 DEF Passes, CLS002, EndRoles, Ends
  <2>2. QED
    BY <2>1 DEF SpineEnd, EndOf
<1>7. Addressed(FarEnd(k, j.leaf.node)) /\ Addressed(SpineEnd(l))
  BY <1>1, <1>5, <1>6 DEF Passes, ADR002, ValidP2P, Ends
<1>8. AddressAt(FarEnd(k, j.leaf.node)) = AddressAt(SpineEnd(l))
  BY <1>3, <1>4 DEF Side
<1>9. k = l
  BY <1>1, <1>5, <1>6, <1>7, <1>8, AddressOfOneLink DEF Passes, TypeOK, LinksOf
<1>10. QED
  BY <1>4, <1>9

\* An attachment is of an endpoint, in a required plane, with an address of the
\* plane's pool.
LEMMA AttachmentIs ==
  ASSUME Passes, WellFormed(devices, ports, cables), NEW l \in LinksOf("host")
  PROVE  /\ EndpointEnd(l) \in Ends(l) /\ EndpointEnd(l)[1] \in Endpoints
         /\ l.plane \in RequiredPlanes /\ AddressAt(EndpointEnd(l)).pool = l.plane
<1> USE DEF Passes
<1> DEFINE i == EndpointEnd(l)
<1>1. i \in Ends(l) /\ RoleAt(i) \in EndpointRoles
  BY HostLinkEnds DEF EndpointEnd, EndOf, Ends
<1>2. i \in Interfaces /\ i[1] \in Nodes
  BY <1>1 DEF LinksOf, Links, LinkOf, Included, Interfaces, Ends, WellFormed, Nodes
<1>3. i[1] \in Endpoints
  BY <1>1, <1>2 DEF Endpoints, OfRole, RoleAt
<1>4. l.plane \in RequiredPlanes /\ ports[i].plane = l.plane
  BY <1>1 DEF PLN003
<1>5. ports[i].role = "host"
  BY <1>1 DEF CLS003
<1>6. AddressAt(i) \in ports[i].addresses
  BY <1>1 DEF ADR003, ValidP2P, Addressed, AddressAt, Ends
<1>7. AddressAt(i).pool = l.plane
  BY <1>2, <1>4, <1>5, <1>6 DEF ADR006
<1>8. QED
  BY <1>1, <1>3, <1>4, <1>7

\* Every router of an accepted site is asked, for it has a fabric link (CLS005).
LEMMA RoutersAreAsked ==
  ASSUME Passes, contract.bgp = Adjacencies, NEW n \in Routers
  PROVE  n \in Asked
<1>1. PICK k \in LinksOf("fabric") : n \in EndNodes(k)
  BY DEF Passes, CLS005
<1>2. n = LeafEnd(k)[1] \/ n = SpineEnd(k)[1]
  BY <1>1, SessionEnds DEF Passes
<1> DEFINE j == [leaf |-> Side(LeafEnd(k)), spine |-> Side(SpineEnd(k))]
<1>3. j \in contract.bgp
  BY DEF Adjacencies
<1>4. n \in {j.leaf.node, j.spine.node}
  BY <1>2 DEF Side
<1> HIDE DEF j
<1>5. QED
  BY <1>3, <1>4 DEF Asked

-----------------------------------------------------------------------------
(* The reach of a prefix.  A recursive function is the one its definition  *)
(* approximates, and a property of its values spreads from 0 upwards: both *)
(* follow from the well-foundedness of < on the natural numbers.           *)

\* The routers that know a prefix at first, and those one hop further.
Source(x, dead) == {n \in {x.leaf} : Attached(x, dead)}

Spread(near, sessions) ==
  near \cup UNION {EndNodes(l) : l \in {m \in sessions : EndNodes(m) \cap near # {}}}

Smaller == {mn \in Nat \X Nat : mn[1] < mn[2]}

LEMMA SmallerWellFounded == IsWellFoundedOn(Smaller, Nat)
BY NatLessThanWellFounded, Zenon DEF OpToRel, Smaller

\* A set of natural numbers that has 0, and n + 1 with every n below top, has all
\* numbers up to top.
LEMMA UpTo ==
  ASSUME NEW top \in Nat, NEW S, 0 \in S, \A n \in 0 .. top : n < top /\ n \in S => n + 1 \in S
  PROVE  0 .. top \subseteq S
<1> DEFINE T == (0 .. top) \ S
<1> SUFFICES ASSUME T # {} PROVE FALSE
  OBVIOUS
<1>1. T \subseteq Nat
  OBVIOUS
<1>2. PICK x \in T : \A y \in T : ~(<<y, x>> \in Smaller)
  <2> HIDE DEF T
  <2>1. QED
    BY <1>1, SmallerWellFounded, WFMin
<1>3. x # 0 /\ x \in Nat /\ x <= top /\ x \notin S
  OBVIOUS
<1>4. x - 1 \in 0 .. top /\ x - 1 < top
  BY <1>3
<1>5. x - 1 \notin T
  <2>1. <<x - 1, x>> \in Smaller
    BY <1>3, <1>4 DEF Smaller
  <2> QED
    BY <1>2, <2>1
<1>6. QED
  BY <1>3, <1>4, <1>5

\* Reached satisfies its own definition.
LEMMA ReachedIs ==
  ASSUME NEW x, NEW sessions, NEW dead, Cardinality(Routers) \in Nat
  PROVE  Reached(x, sessions, dead) =
           [k \in 0 .. Cardinality(Routers) |->
              IF k = 0 THEN Source(x, dead)
              ELSE Spread(Reached(x, sessions, dead)[k - 1], sessions)]
<1> DEFINE Approx(m, g) ==
             g = [k \in 0 .. m |-> IF k = 0 THEN Source(x, dead) ELSE Spread(g[k - 1], sessions)]
           S == {m \in Nat : \E g : Approx(m, g)}
           N == Cardinality(Routers)
<1>1. 0 \in S
  <2> DEFINE g == [k \in 0 .. 0 |-> Source(x, dead)]
  <2>1. Approx(0, g)
    OBVIOUS
  <2> HIDE DEF g
  <2>2. QED
    BY <2>1
<1>2. ASSUME NEW m \in Nat, m \in S
      PROVE  m + 1 \in S
  <2>1. PICK g : Approx(m, g)
    BY <1>2
  <2> DEFINE h == [k \in 0 .. (m + 1) |-> IF k = m + 1 THEN Spread(g[m], sessions) ELSE g[k]]
  <2>2. ASSUME NEW k \in 0 .. (m + 1)
        PROVE  h[k] = IF k = 0 THEN Source(x, dead) ELSE Spread(h[k - 1], sessions)
    BY <2>1
  <2>3. Approx(m + 1, h)
    BY <2>2
  <2> HIDE DEF h
  <2>4. QED
    BY <2>3
<1> HIDE DEF S
<1>3. N \in S
  BY <1>1, <1>2, UpTo
<1>4. \E g : Approx(N, g)
  BY <1>3 DEF S
<1>5. Reached(x, sessions, dead) = CHOOSE g : Approx(N, g)
  BY DEF Reached, Source, Spread
<1> HIDE DEF Approx
<1>6. Approx(N, Reached(x, sessions, dead))
  BY <1>4, <1>5
<1>7. QED
  BY <1>6 DEF Approx

-----------------------------------------------------------------------------
(* The shape of an accepted, aligned plane.                                *)

PlaneRouters(p) == InPlane("leaf", p) \cup InPlane("spine", p)

\* A session joins a leaf and a spine of the plane of its link.
LEMMA SessionInPlane ==
  ASSUME WellFormed(devices, ports, cables), Passes, Aligned, NEW l \in LinksOf("fabric")
  PROVE  /\ l.plane \in RequiredPlanes /\ EndNodes(l) = {LeafEnd(l)[1], SpineEnd(l)[1]}
         /\ LeafEnd(l)[1] \in InPlane("leaf", l.plane)
         /\ SpineEnd(l)[1] \in InPlane("spine", l.plane)
<1>1. /\ EndNodes(l) = {LeafEnd(l)[1], SpineEnd(l)[1]}
      /\ devices[LeafEnd(l)[1]].role = "leaf" /\ devices[SpineEnd(l)[1]].role = "spine"
  BY SessionEnds DEF Passes
<1>2. EndNodes(l) \subseteq Nodes
  BY DEF LinksOf, Links, LinkOf, Included, Interfaces, EndNodes, WellFormed, Nodes
<1>3. EndNodes(l) \subseteq Routers
  BY <1>1, <1>2 DEF Routers, OfRole, NetworkRoles
<1>4. \A n \in EndNodes(l) : devices[n].plane = l.plane
  BY <1>3 DEF Aligned
<1>5. l.plane \in RequiredPlanes
  BY DEF Passes, PLN003
<1>6. QED
  BY <1>1, <1>2, <1>4, <1>5 DEF InPlane, OfRole

\* Every leaf of a plane has a session with every spine of it (CLS001).
LEMMA LeafMeetsSpine ==
  ASSUME Passes, NEW p \in RequiredPlanes,
         NEW m \in InPlane("leaf", p), NEW n \in InPlane("spine", p)
  PROVE  \E l \in LinksOf("fabric") : l.plane = p /\ EndNodes(l) = {m, n}
<1>1. SpineNeighbours(m, p) = InPlane("spine", p)
  BY DEF Passes, CLS001
<1>2. QED
  BY <1>1 DEF SpineNeighbours

\* Leaves and spines are different devices.
LEMMA RolesApart ==
  ASSUME NEW p, NEW m \in InPlane("leaf", p), NEW n \in InPlane("spine", p)
  PROVE  m # n
BY DEF InPlane, OfRole

LEMMA RoutersFinite ==
  ASSUME WellFormed(devices, ports, cables)
  PROVE  IsFiniteSet(Routers) /\ Cardinality(Routers) \in Nat
<1>1. Routers \subseteq Names
  BY DEF WellFormed, Routers, OfRole, Nodes
<1>2. QED
  BY <1>1, FiniteAssumption, FS_Subset, FS_CardinalityType

\* A plane has a spine.
LEMMA SpineExists ==
  ASSUME Passes, NEW p \in RequiredPlanes
  PROVE  InPlane("spine", p) # {}
<1>1. Cardinality(InPlane("spine", p)) = SpineCount[p] /\ SpineCount[p] # 0
  BY SpineCountAssumption DEF Passes, CLS001
<1>2. QED
  BY <1>1, FS_EmptySet

\* To be in a plane is a matter of the device, and its tier one of its role.
LEMMA InPlaneIs ==
  ASSUME NEW p, NEW n, (n \in Routers /\ devices[n].plane = p) \/ n \in PlaneRouters(p)
  PROVE  /\ n \in Routers /\ devices[n].plane = p /\ n \in PlaneRouters(p)
         /\ (n \in InPlane("leaf", p) <=> devices[n].role = "leaf")
         /\ (n \in InPlane("spine", p) <=> devices[n].role = "spine")
BY DEF PlaneRouters, InPlane, Routers, OfRole, NetworkRoles

-----------------------------------------------------------------------------
(* How far a prefix has come after every hop.                              *)

\* From a leaf to its spines, and from there to every leaf of the plane.
LEMMA SpreadFromLeaf ==
  ASSUME WellFormed(devices, ports, cables), Passes, Aligned, NEW p \in RequiredPlanes,
         NEW m \in InPlane("leaf", p)
  PROVE  Spread({m}, LinksOf("fabric")) = {m} \cup InPlane("spine", p)
<1>1. ASSUME NEW n, n \in Spread({m}, LinksOf("fabric")), n # m
      PROVE  n \in InPlane("spine", p)
  <2>1. PICK l \in LinksOf("fabric") : m \in EndNodes(l) /\ n \in EndNodes(l)
    BY <1>1 DEF Spread
  <2>2. m = LeafEnd(l)[1] /\ n = SpineEnd(l)[1]
    BY <1>1, <2>1, SessionInPlane DEF InPlane, OfRole
  <2>3. l.plane = p
    BY <2>2, SessionInPlane DEF InPlane
  <2>4. QED
    BY <2>2, <2>3, SessionInPlane
<1>2. ASSUME NEW n \in InPlane("spine", p)
      PROVE  n \in Spread({m}, LinksOf("fabric"))
  <2>1. PICK l \in LinksOf("fabric") : EndNodes(l) = {m, n}
    BY LeafMeetsSpine
  <2>2. l \in {k \in LinksOf("fabric") : EndNodes(k) \cap {m} # {}}
    BY <2>1
  <2>3. QED
    BY <2>1, <2>2 DEF Spread
<1>3. m \in Spread({m}, LinksOf("fabric"))
  BY DEF Spread
<1>4. QED
  BY <1>1, <1>2, <1>3

LEMMA SpreadFromSpines ==
  ASSUME WellFormed(devices, ports, cables), Passes, Aligned, NEW p \in RequiredPlanes,
         NEW near, InPlane("spine", p) \subseteq near, near \subseteq PlaneRouters(p)
  PROVE  Spread(near, LinksOf("fabric")) = PlaneRouters(p)
<1>1. ASSUME NEW n, n \in Spread(near, LinksOf("fabric"))
      PROVE  n \in PlaneRouters(p)
  <2>1. CASE n \in near
    BY <2>1
  <2>2. CASE n \notin near
    <3>1. PICK l \in LinksOf("fabric") : EndNodes(l) \cap near # {} /\ n \in EndNodes(l)
      BY <1>1, <2>2 DEF Spread
    <3>2. PICK m \in near : m \in EndNodes(l)
      BY <3>1
    <3>3. l.plane = p
      BY <3>2, SessionInPlane DEF PlaneRouters, InPlane
    <3>4. QED
      BY <3>1, <3>3, SessionInPlane DEF PlaneRouters
  <2>3. QED
    BY <2>1, <2>2
<1>2. ASSUME NEW n \in InPlane("leaf", p)
      PROVE  n \in Spread(near, LinksOf("fabric"))
  <2>1. PICK s \in InPlane("spine", p) : TRUE
    BY SpineExists
  <2>2. PICK l \in LinksOf("fabric") : EndNodes(l) = {n, s}
    BY LeafMeetsSpine
  <2>3. l \in {k \in LinksOf("fabric") : EndNodes(k) \cap near # {}}
    BY <2>2
  <2>4. QED
    BY <2>2, <2>3 DEF Spread
<1>3. near \subseteq Spread(near, LinksOf("fabric"))
  BY DEF Spread
<1>4. QED
  BY <1>1, <1>2, <1>3 DEF PlaneRouters

\* A leaf and a spine are two routers.
LEMMA TwoRouters ==
  ASSUME WellFormed(devices, ports, cables), Passes, NEW p \in RequiredPlanes,
         NEW m \in InPlane("leaf", p)
  PROVE  Cardinality(Routers) \in Nat /\ Cardinality(Routers) >= 2
<1>1. PICK n \in InPlane("spine", p) : TRUE
  BY SpineExists
<1>2. m # n
  BY RolesApart
<1>3. Cardinality({m, n}) = 2
  <2>1. IsFiniteSet({m}) /\ Cardinality({m}) = 1
    BY FS_Singleton
  <2>2. Cardinality({m} \cup {n}) = Cardinality({m}) + 1
    <3>1. n \notin {m}
      BY <1>2
    <3>2. QED
      BY <2>1, <3>1, FS_AddElement
  <2>3. {m, n} = {m} \cup {n}
    OBVIOUS
  <2>4. QED
    BY <2>1, <2>2, <2>3
<1>4. {m, n} \in SUBSET Routers
  BY DEF InPlane, OfRole, Routers, NetworkRoles
<1>5. IsFiniteSet(Routers) /\ Cardinality(Routers) \in Nat
  BY RoutersFinite
<1>6. Cardinality({m, n}) <= Cardinality(Routers)
  BY <1>4, <1>5, FS_Subset
<1>7. QED
  BY <1>3, <1>5, <1>6

\* After no hop the leaf of an attachment, after one its spines too, and after two
\* or more the whole plane, and never a router outside of it.
LEMMA ReachedInPlane ==
  ASSUME WellFormed(devices, ports, cables), Passes, Aligned, NEW p \in RequiredPlanes,
         NEW x, x.leaf \in InPlane("leaf", p),
         NEW r, r = Reached(x, LinksOf("fabric"), {})
  PROVE  /\ DOMAIN r = 0 .. Cardinality(Routers)
         /\ Cardinality(Routers) \in Nat /\ Cardinality(Routers) >= 2
         /\ r[0] = {x.leaf} /\ r[1] = {x.leaf} \cup InPlane("spine", p)
         /\ \A k \in 2 .. Cardinality(Routers) : r[k] = PlaneRouters(p)
<1> DEFINE N == Cardinality(Routers)
<1>1. N \in Nat /\ N >= 2
  BY TwoRouters
<1>2. r = [k \in 0 .. N |-> IF k = 0 THEN Source(x, {}) ELSE Spread(r[k - 1], LinksOf("fabric"))]
  BY <1>1, ReachedIs
<1> HIDE DEF N
<1>3. DOMAIN r = 0 .. N
  BY <1>2
<1>4. ASSUME NEW k \in 0 .. N
      PROVE  r[k] = IF k = 0 THEN Source(x, {}) ELSE Spread(r[k - 1], LinksOf("fabric"))
  BY <1>2
<1>5. Source(x, {}) = {x.leaf}
  BY DEF Source, Attached
<1>6. r[0] = {x.leaf}
  BY <1>1, <1>4, <1>5
<1>7. r[1] = {x.leaf} \cup InPlane("spine", p)
  <2>1. r[1] = Spread(r[0], LinksOf("fabric"))
    BY <1>1, <1>4
  <2>2. QED
    BY <1>6, <2>1, SpreadFromLeaf
<1>8. r[2] = PlaneRouters(p)
  <2>1. r[2] = Spread(r[1], LinksOf("fabric"))
    BY <1>1, <1>4
  <2>2. InPlane("spine", p) \subseteq r[1] /\ r[1] \subseteq PlaneRouters(p)
    BY <1>7 DEF PlaneRouters
  <2>3. QED
    BY <2>1, <2>2, SpreadFromSpines
<1> DEFINE S == {k \in Nat : k >= 2 => r[k] = PlaneRouters(p)}
<1>9. ASSUME NEW k \in 0 .. N, k < N, k \in S
      PROVE  k + 1 \in S
  <2>1. CASE k < 2
    BY <1>1, <1>8, <2>1
  <2>2. CASE k >= 2
    <3>1. r[k] = PlaneRouters(p)
      BY <1>9, <2>2
    <3>2. r[k + 1] = Spread(r[k], LinksOf("fabric"))
      BY <1>1, <1>4, <1>9
    <3>3. Spread(r[k], LinksOf("fabric")) = PlaneRouters(p)
      BY <3>1, SpreadFromSpines DEF PlaneRouters
    <3>4. QED
      BY <1>1, <3>2, <3>3
  <2>3. QED
    BY <1>1, <2>1, <2>2
<1>10. 0 \in S
  OBVIOUS
<1> HIDE DEF S
<1>11. 0 .. N \subseteq S
  BY <1>1, <1>9, <1>10, UpTo
<1>12. \A k \in 2 .. N : r[k] = PlaneRouters(p)
  BY <1>1, <1>11 DEF S
<1>13. QED
  BY <1>1, <1>3, <1>6, <1>7, <1>12 DEF N

-----------------------------------------------------------------------------
(* The routes of a healthy network.                                        *)

\* The number of hops at which a router is reached first.
Distance(n, r) ==
  CHOOSE k \in DOMAIN r : n \in r[k] /\ \A j \in 0 .. (k - 1) : n \notin r[j]

LEMMA DistanceIs ==
  ASSUME NEW r, NEW n, NEW d \in Nat, d \in DOMAIN r, DOMAIN r \subseteq Nat,
         n \in r[d], \A j \in 0 .. (d - 1) : n \notin r[j]
  PROVE  Distance(n, r) = d
<1>1. \E k \in DOMAIN r : n \in r[k] /\ \A j \in 0 .. (k - 1) : n \notin r[j]
  OBVIOUS
<1>2. /\ Distance(n, r) \in DOMAIN r /\ n \in r[Distance(n, r)]
      /\ \A j \in 0 .. (Distance(n, r) - 1) : n \notin r[j]
  BY <1>1 DEF Distance
<1>3. Distance(n, r) \in Nat /\ ~(Distance(n, r) < d) /\ ~(d < Distance(n, r))
  BY <1>2
<1>4. QED
  BY <1>3

\* The sessions of n over which the prefix comes.
NextHops(n, r) ==
  {l \in LinksOf("fabric") : n \in EndNodes(l) /\ EndNodes(l) \cap r[Distance(n, r) - 1] # {}}

LEMMA RouteIs ==
  ASSUME NEW n, NEW x, NEW r
  PROVE  RouteTo(n, x, LinksOf("fabric"), r) =
           [prefix |-> Prefix(x),
            protocol |-> IF Distance(n, r) = 0 THEN "connected" ELSE "bgp",
            hops |-> IF Distance(n, r) = 0 THEN 0 ELSE Cardinality(NextHops(n, r))]
BY DEF RouteTo, Distance, NextHops

\* Every router of the plane has the route that is expected of it: connected at
\* the leaf, over the leaf at a spine, over every spine at another leaf.
LEMMA RouteIsExpected ==
  ASSUME WellFormed(devices, ports, cables), Passes, Aligned, NEW p \in RequiredPlanes,
         NEW x, x.leaf \in InPlane("leaf", p), NEW n \in PlaneRouters(p),
         NEW r, r = Reached(x, LinksOf("fabric"), {}),
         NEW q, q = RouteTo(n, x, LinksOf("fabric"), r)
  PROVE  /\ q.prefix = Prefix(x)
         /\ q.protocol = IF Connected(n, x) THEN "connected" ELSE "bgp"
         /\ q.hops \in Nat /\ q.hops >= MinNextHops(n, x)
<1>1. /\ DOMAIN r = 0 .. Cardinality(Routers)
      /\ Cardinality(Routers) \in Nat /\ Cardinality(Routers) >= 2
      /\ r[0] = {x.leaf} /\ r[1] = {x.leaf} \cup InPlane("spine", p)
      /\ \A k \in 2 .. Cardinality(Routers) : r[k] = PlaneRouters(p)
  BY ReachedInPlane
<1>2. /\ q.prefix = Prefix(x)
      /\ q.hops = IF Distance(n, r) = 0 THEN 0 ELSE Cardinality(NextHops(n, r))
      /\ q.protocol = IF Distance(n, r) = 0 THEN "connected" ELSE "bgp"
  BY RouteIs
<1>3. /\ devices[n].plane = p /\ devices[x.leaf].role = "leaf" /\ x.leaf \in PlaneRouters(p)
      /\ {0, 1, 2} \subseteq DOMAIN r /\ DOMAIN r \subseteq Nat
  BY <1>1, InPlaneIs DEF PlaneRouters
<1>4. IsFiniteSet(NextHops(n, r)) /\ Cardinality(NextHops(n, r)) \in Nat
  <2>1. NextHops(n, r) \in SUBSET Links
    BY DEF NextHops, LinksOf
  <2>2. QED
    BY <2>1, LinksFinite, FS_Subset, FS_CardinalityType
<1>5. CASE n = x.leaf
  <2>1. Distance(n, r) = 0
    <3>1. n \in r[0] /\ \A j \in 0 .. (0 - 1) : n \notin r[j]
      BY <1>1, <1>5
    <3>2. 0 \in DOMAIN r
      BY <1>3
    <3>3. QED
      BY <1>3, <3>1, <3>2, DistanceIs
  <2>2. Connected(n, x)
    BY <1>3, <1>5 DEF Connected
  <2>3. QED
    BY <1>2, <2>1, <2>2 DEF MinNextHops
<1>6. CASE n \in InPlane("spine", p)
  <2>1. n # x.leaf /\ devices[n].role = "spine"
    BY <1>6, RolesApart, InPlaneIs DEF PlaneRouters
  <2>2. Distance(n, r) = 1
    <3>1. n \in r[1] /\ \A j \in 0 .. (1 - 1) : n \notin r[j]
      BY <1>1, <1>6, <2>1
    <3>2. QED
      BY <1>3, <3>1, DistanceIs
  <2>3. ~Connected(n, x) /\ MinNextHops(n, x) = 1
    BY <2>1 DEF Connected, MinNextHops
  <2>4. \A m \in InPlane("leaf", p) : \E l \in LinksOf("fabric") : EndNodes(l) = {m, n}
    BY <1>6, LeafMeetsSpine
  <2>5. PICK l \in LinksOf("fabric") : EndNodes(l) = {x.leaf, n}
    BY <2>4
  <2>6. l \in NextHops(n, r)
    <3>1. r[Distance(n, r) - 1] = {x.leaf}
      BY <1>1, <2>2
    <3>2. QED
      BY <2>5, <3>1 DEF NextHops
  <2>7. Cardinality(NextHops(n, r)) # 0
    BY <1>4, <2>6, FS_EmptySet
  <2>8. QED
    BY <1>2, <1>4, <2>2, <2>3, <2>7
<1>7. CASE n \in InPlane("leaf", p) /\ n # x.leaf
  <2>1. devices[n].role = "leaf" /\ n \notin InPlane("spine", p)
    BY <1>7, RolesApart, InPlaneIs DEF PlaneRouters
  <2>2. Distance(n, r) = 2
    <3>1. n \in r[2] /\ \A j \in 0 .. (2 - 1) : n \notin r[j]
      BY <1>1, <1>7, <2>1
    <3>2. QED
      BY <1>3, <3>1, DistanceIs
  <2>3. ~Connected(n, x) /\ MinNextHops(n, x) = SpineCount[p]
    BY <1>3, <1>7, <2>1 DEF Connected, MinNextHops
  <2>4. NextHops(n, r) = Uplinks(n, p)
    <3>1. ASSUME NEW l \in LinksOf("fabric"), n \in EndNodes(l)
          PROVE  /\ l.plane = p /\ "spine" \in EndRoles(l)
                 /\ EndNodes(l) \cap r[1] # {}
      <4>1. l.plane = p
        <5>1. n \in PlaneRouters(l.plane)
          BY <3>1, SessionInPlane DEF PlaneRouters
        <5>2. QED
          BY <1>3, <5>1, InPlaneIs
      <4>2. SpineEnd(l)[1] \in r[1] /\ SpineEnd(l)[1] \in EndNodes(l)
        BY <1>1, <4>1, SessionInPlane
      <4>3. "spine" \in EndRoles(l)
        BY DEF Passes, CLS002
      <4>4. QED
        BY <4>1, <4>2, <4>3
    <3>2. r[Distance(n, r) - 1] = r[1]
      BY <2>2
    <3>3. QED
      BY <3>1, <3>2 DEF NextHops, Uplinks
  <2>5. Cardinality(Uplinks(n, p)) = SpineCount[p] /\ SpineCount[p] \in Nat
    BY <1>7, SpineCountAssumption DEF Passes, CLS001
  <2>6. QED
    BY <1>2, <2>2, <2>3, <2>4, <2>5
<1>8. QED
  BY <1>5, <1>6, <1>7 DEF PlaneRouters

\* An attachment is of an endpoint, to a leaf of its plane.
LEMMA AttachmentInPlane ==
  ASSUME WellFormed(devices, ports, cables), Passes, NEW x \in Attachments
  PROVE  /\ x.port[1] \in Endpoints /\ x.plane \in RequiredPlanes /\ Prefix(x).pool = x.plane
         /\ Aligned => x.leaf \in InPlane("leaf", x.plane)
<1>1. PICK l \in LinksOf("host") :
        x = [port |-> EndpointEnd(l), plane |-> l.plane, address |-> AddressAt(EndpointEnd(l)),
             leaf |-> LeafEnd(l)[1]]
  BY DEF Attachments
<1>2. x.port[1] \in Endpoints /\ x.plane \in RequiredPlanes /\ Prefix(x).pool = x.plane
  BY <1>1, AttachmentIs DEF Prefix
<1>3. LeafEnd(l) \in Ends(l) /\ RoleAt(LeafEnd(l)) = "leaf"
  BY HostLinkEnds DEF Passes, LeafEnd, EndOf, Ends
<1>4. x.leaf \in EndNodes(l) /\ x.leaf \in Nodes /\ devices[x.leaf].role = "leaf"
  BY <1>1, <1>3 DEF LinksOf, Links, LinkOf, Included, Interfaces, Ends, EndNodes, WellFormed,
     Nodes, RoleAt
<1>5. x.leaf \in OfRole({"leaf"}) /\ x.leaf \in Routers
  BY <1>4 DEF OfRole, Routers, NetworkRoles
<1>6. Aligned => devices[x.leaf].plane = x.plane
  BY <1>1, <1>4, <1>5 DEF Aligned
<1>7. QED
  BY <1>2, <1>5, <1>6 DEF InPlane

\* What a router has installed, whatever is down.
LEMMA ConvergedIs ==
  ASSUME NEW dead, NEW sessions, sessions = LinksOf("fabric") \ dead, NEW n \in Routers
  PROVE  \A r : r \in Converged(dead)[n] <=>
           \E x \in Attachments :
             /\ n \in Reached(x, sessions, dead)[Cardinality(Routers)]
             /\ r = RouteTo(n, x, sessions, Reached(x, sessions, dead))
<1> DEFINE Of(m, x) == IF m \in Reached(x, sessions, dead)[Cardinality(Routers)]
                         THEN {RouteTo(m, x, sessions, Reached(x, sessions, dead))} ELSE {}
           Routes(m) == UNION {Of(m, x) : x \in Attachments}
<1>1. Converged(dead) = [m \in Routers |-> Routes(m)]
  BY DEF Converged
<1> DEFINE P(x, r) == /\ n \in Reached(x, sessions, dead)[Cardinality(Routers)]
                      /\ r = RouteTo(n, x, sessions, Reached(x, sessions, dead))
<1>2. \A r, x : r \in Of(n, x) <=> P(x, r)
  OBVIOUS
<1> HIDE DEF Of, P
<1>3. \A r : r \in Routes(n) <=> \E x \in Attachments : r \in Of(n, x)
  OBVIOUS
<1> HIDE DEF Routes
<1>4. Converged(dead)[n] = Routes(n)
  BY <1>1
<1>5. \A r : r \in Converged(dead)[n] <=> \E x \in Attachments : P(x, r)
  BY <1>2, <1>3, <1>4
<1>6. QED
  BY <1>5 DEF P

\* A healthy router has the routes expected of it, and no route of another plane.
LEMMA HealthyTable ==
  ASSUME WellFormed(devices, ports, cables), Passes, Aligned, tables = Converged({}),
         leaked = {}, NEW n \in Routers
  PROVE  /\ \A x \in Attachments : x.plane = devices[n].plane =>
              \E r \in RouteTable(n) :
                /\ r.prefix = Prefix(x)
                /\ r.protocol = IF Connected(n, x) THEN "connected" ELSE "bgp"
                /\ r.hops >= MinNextHops(n, x)
         /\ \A r \in RouteTable(n) : r.prefix.pool = devices[n].plane
<1> DEFINE Get(x) == Reached(x, LinksOf("fabric"), {})
<1>1. RouteTable(n) = Converged({})[n]
  BY DEF RouteTable
<1>2. LinksOf("fabric") = LinksOf("fabric") \ {}
  OBVIOUS
<1>3. \A r : r \in RouteTable(n) <=>
        \E x \in Attachments : /\ n \in Get(x)[Cardinality(Routers)]
                               /\ r = RouteTo(n, x, LinksOf("fabric"), Get(x))
  <2>1. \A sessions : sessions = LinksOf("fabric") \ {} =>
          \A r : r \in Converged({})[n] <=>
            \E x \in Attachments : /\ n \in Reached(x, sessions, {})[Cardinality(Routers)]
                                   /\ r = RouteTo(n, x, sessions, Reached(x, sessions, {}))
    BY ConvergedIs
  <2>2. \A r : r \in Converged({})[n] <=>
          \E x \in Attachments : /\ n \in Get(x)[Cardinality(Routers)]
                                 /\ r = RouteTo(n, x, LinksOf("fabric"), Get(x))
    BY <1>2, <2>1
  <2>3. QED
    BY <1>1, <2>2
<1>4. ASSUME NEW x \in Attachments
      PROVE  /\ x.plane \in RequiredPlanes /\ Prefix(x).pool = x.plane
             /\ x.leaf \in InPlane("leaf", x.plane)
             /\ n \in Get(x)[Cardinality(Routers)] <=> x.plane = devices[n].plane
  <2>1. /\ x.plane \in RequiredPlanes /\ Prefix(x).pool = x.plane
        /\ x.leaf \in InPlane("leaf", x.plane)
    BY AttachmentInPlane
  <2>2. Get(x)[Cardinality(Routers)] = PlaneRouters(x.plane)
    BY <2>1, ReachedInPlane
  <2>3. QED
    BY <2>1, <2>2, InPlaneIs
<1> HIDE DEF Get
<1>5. ASSUME NEW x \in Attachments, x.plane = devices[n].plane
      PROVE  \E r \in RouteTable(n) :
               /\ r.prefix = Prefix(x)
               /\ r.protocol = IF Connected(n, x) THEN "connected" ELSE "bgp"
               /\ r.hops >= MinNextHops(n, x)
  <2>1. PICK q : q = RouteTo(n, x, LinksOf("fabric"), Get(x))
    OBVIOUS
  <2>2. q \in RouteTable(n)
    BY <1>3, <1>4, <1>5, <2>1
  <2>3. n \in PlaneRouters(x.plane)
    BY <1>5, InPlaneIs
  <2>4. /\ q.prefix = Prefix(x)
        /\ q.protocol = IF Connected(n, x) THEN "connected" ELSE "bgp"
        /\ q.hops >= MinNextHops(n, x)
    BY <1>4, <2>1, <2>3, RouteIsExpected DEF Get
  <2>5. QED
    BY <2>2, <2>4
<1>6. ASSUME NEW r \in RouteTable(n)
      PROVE  r.prefix.pool = devices[n].plane
  <2>1. PICK x \in Attachments : /\ n \in Get(x)[Cardinality(Routers)]
                                 /\ r = RouteTo(n, x, LinksOf("fabric"), Get(x))
    BY <1>3
  <2>2. r.prefix = Prefix(x)
    BY <2>1, RouteIs
  <2>3. QED
    BY <1>4, <2>1, <2>2
<1>7. QED
  BY <1>5, <1>6

-----------------------------------------------------------------------------
(* The healthy network passes.                                             *)

LEMMA FarEndIs ==
  ASSUME CLS002, NEW l \in LinksOf("fabric"), NEW m, NEW n,
         \/ m = LeafEnd(l)[1] /\ n = SpineEnd(l)[1]
         \/ m = SpineEnd(l)[1] /\ n = LeafEnd(l)[1]
  PROVE  FarEnd(l, m)[1] = n
<1>1. EndNodes(l) = {m, n} /\ m # n
  BY SessionEnds
<1>2. \E i \in Ends(l) : EndNodes(l) # {m} => i[1] # m
  BY <1>1 DEF Ends, EndNodes
<1>3. FarEnd(l, m) \in Ends(l) /\ FarEnd(l, m)[1] # m
  BY <1>1, <1>2 DEF FarEnd
<1>4. FarEnd(l, m)[1] \in EndNodes(l)
  BY <1>3 DEF Ends, EndNodes
<1>5. QED
  BY <1>1, <1>3, <1>4

\* The ends of a session are each other's far end.
LEMMA FarEndOf ==
  ASSUME CLS002, NEW l \in LinksOf("fabric")
  PROVE  /\ FarEnd(l, LeafEnd(l)[1]) = SpineEnd(l)
         /\ FarEnd(l, SpineEnd(l)[1]) = LeafEnd(l)
<1>1. {RoleAt(l.a), RoleAt(l.b)} = {"spine", "leaf"}
  BY DEF CLS002, EndRoles
<1>2. /\ LeafEnd(l) \in Ends(l) /\ RoleAt(LeafEnd(l)) = "leaf"
      /\ SpineEnd(l) \in Ends(l) /\ RoleAt(SpineEnd(l)) = "spine"
  BY <1>1 DEF LeafEnd, SpineEnd, EndOf, Ends
<1>3. Ends(l) = {LeafEnd(l), SpineEnd(l)}
  BY <1>1, <1>2 DEF Ends
<1>4. /\ FarEnd(l, LeafEnd(l)[1]) \in Ends(l) /\ FarEnd(l, LeafEnd(l)[1])[1] = SpineEnd(l)[1]
      /\ FarEnd(l, SpineEnd(l)[1]) \in Ends(l) /\ FarEnd(l, SpineEnd(l)[1])[1] = LeafEnd(l)[1]
  <2>1. \A n : \E i \in Ends(l) : EndNodes(l) # {n} => i[1] # n
    BY DEF Ends, EndNodes
  <2>2. \A n : FarEnd(l, n) \in Ends(l)
    BY <2>1 DEF FarEnd
  <2>3. QED
    BY <2>2, FarEndIs
<1>5. LeafEnd(l)[1] # SpineEnd(l)[1]
  BY <1>2 DEF RoleAt
<1>6. QED
  BY <1>3, <1>4, <1>5

LEMMA HealthySessionsPass ==
  ASSUME Passes, contract.bgp = Adjacencies, down = {}
  PROVE  SessionsPass
<1> DEFINE J(l) == [leaf |-> Side(LeafEnd(l)), spine |-> Side(SpineEnd(l))]
           M(n, l) == [address |-> AddressAt(FarEnd(l, n)), asn |-> devices[FarEnd(l, n)[1]].asn,
                       established |-> l \notin down]
<1>1. CLS002
  BY DEF Passes
<1>2. ASSUME NEW l \in LinksOf("fabric"), NEW s \in Sides(J(l))
      PROVE  /\ devices[s[1].node].asn = s[1].asn
             /\ M(s[1].node, l) \in Neighbours(s[1].node)
             /\ M(s[1].node, l).address = s[2].address
             /\ M(s[1].node, l).asn = s[2].asn /\ M(s[1].node, l).established
  <2>1. \/ s[1] = Side(LeafEnd(l)) /\ s[2] = Side(SpineEnd(l))
        \/ s[1] = Side(SpineEnd(l)) /\ s[2] = Side(LeafEnd(l))
    BY DEF Sides
  <2>2. PICK i, j : /\ s[1] = Side(i) /\ s[2] = Side(j)
                    /\ i[1] \in EndNodes(l) /\ FarEnd(l, i[1]) = j
    BY <1>1, <2>1, FarEndOf, SessionEnds
  <2>3. /\ s[1].node = i[1] /\ s[1].asn = devices[i[1]].asn
        /\ s[2].address = AddressAt(j) /\ s[2].asn = devices[j[1]].asn
    BY <2>2 DEF Side
  <2>4. l \in {k \in LinksOf("fabric") : i[1] \in EndNodes(k)}
    BY <2>2
  <2>5. M(i[1], l) \in Neighbours(i[1])
    BY <2>4 DEF Neighbours
  <2>6. QED
    BY <2>2, <2>3, <2>5
<1>3. ASSUME NEW n, NEW m \in Neighbours(n)
      PROVE  \E j \in contract.bgp : \E s \in Sides(j) :
               s[1].node = n /\ s[2].address = m.address
  <2>1. PICK l \in LinksOf("fabric") : n \in EndNodes(l) /\ m.address = AddressAt(FarEnd(l, n))
    BY DEF Neighbours
  <2>2. \/ n = LeafEnd(l)[1] /\ FarEnd(l, n) = SpineEnd(l)
        \/ n = SpineEnd(l)[1] /\ FarEnd(l, n) = LeafEnd(l)
    BY <1>1, <2>1, FarEndOf, SessionEnds
  <2>3. \E s \in Sides(J(l)) : s[1].node = n /\ s[2].address = m.address
    BY <2>1, <2>2 DEF Sides, Side
  <2>4. J(l) \in contract.bgp
    BY DEF Adjacencies
  <2> HIDE DEF J
  <2>5. QED
    BY <2>3, <2>4
<1>4. \A j \in contract.bgp : \E l \in LinksOf("fabric") : j = J(l)
  BY DEF Adjacencies
<1> HIDE DEF J, M
<1>5. ASSUME NEW j \in contract.bgp, NEW s \in Sides(j)
      PROVE  /\ devices[s[1].node].asn = s[1].asn
             /\ \E m \in Neighbours(s[1].node) :
                  m.address = s[2].address /\ m.asn = s[2].asn /\ m.established
  BY <1>2, <1>4
<1>6. QED
  BY <1>3, <1>5 DEF SessionsPass

LEMMA HealthyRoutesPass ==
  ASSUME TypeOK, Kept, contract # NoContract, Aligned, tables = Converged({}), leaked = {}
  PROVE  RoutesPass
<1>1. /\ Passes /\ contract.routes = RouterPrefixes /\ contract.bgp = Adjacencies
      /\ WellFormed(devices, ports, cables)
  BY DEF Kept, ExpectedState, TypeOK
<1>2. ASSUME NEW e \in contract.routes
      PROVE  /\ e.router \in Routers /\ e.plane = devices[e.router].plane
             /\ \E r \in RouteTable(e.router) :
                  r.prefix = e.prefix /\ r.protocol = e.protocol /\ r.hops >= e.hops
  <2>1. PICK n \in Routers : e \in RoutesOf(n)
    BY <1>1 DEF RouterPrefixes
  <2>2. PICK x \in Attachments :
          /\ x.plane = devices[n].plane
          /\ e = [router |-> n, plane |-> x.plane, prefix |-> Prefix(x), endpoint |-> x.port[1],
                  protocol |-> IF Connected(n, x) THEN "connected" ELSE "bgp",
                  hops |-> MinNextHops(n, x)]
    BY <2>1 DEF RoutesOf
  <2>3. /\ e.router = n /\ e.plane = devices[n].plane /\ e.prefix = Prefix(x)
        /\ e.protocol = IF Connected(n, x) THEN "connected" ELSE "bgp"
        /\ e.hops = MinNextHops(n, x)
    BY <2>2
  <2>4. \E r \in RouteTable(n) : /\ r.prefix = Prefix(x)
                                 /\ r.protocol = IF Connected(n, x) THEN "connected" ELSE "bgp"
                                 /\ r.hops >= MinNextHops(n, x)
    BY <1>1, <2>2, HealthyTable
  <2>5. QED
    BY <2>3, <2>4
<1>3. \A n \in Asked : n \in Routers
  BY DEF Asked, TypeOK, AdjacencyType, Routers, OfRole, NetworkRoles
<1>4. ASSUME NEW n \in Asked, NEW r \in RouteTable(n)
      PROVE  ~Forbidden(n, r)
  <2>1. r.prefix.pool = devices[n].plane
    BY <1>1, <1>3, HealthyTable
  <2>2. QED
    BY <1>2, <2>1 DEF Forbidden
<1>5. QED
  BY <1>1, <1>2, <1>4, RoutersAreAsked DEF RoutesPass

LEMMA HealthyPingsPass ==
  ASSUME TypeOK, Kept, contract # NoContract, Aligned, tables = Converged({}),
         down = {}, leaked = {}
  PROVE  PingsPass
<1>1. /\ Passes /\ contract.reachability = Reachability /\ contract.isolation = Isolation
      /\ WellFormed(devices, ports, cables)
  BY DEF Kept, ExpectedState, TypeOK
<1>2. ASSUME NEW x \in Attachments, NEW y \in Attachments
      PROVE  Known(x.leaf, y) <=> x.plane = y.plane
  <2>1. x.leaf \in Routers /\ devices[x.leaf].plane = x.plane
    BY <1>1, AttachmentInPlane, InPlaneIs DEF PlaneRouters
  <2>2. Prefix(y).pool = y.plane
    BY <1>1, AttachmentInPlane
  <2>3. \A r \in RouteTable(x.leaf) : r.prefix.pool = x.plane
    BY <1>1, <2>1, HealthyTable
  <2>4. y.plane = x.plane => \E r \in RouteTable(x.leaf) : r.prefix = Prefix(y)
    BY <1>1, <2>1, HealthyTable
  <2>5. QED
    BY <2>2, <2>3, <2>4 DEF Known
<1>3. \A p : Attached(p, down)
  BY DEF Attached
<1>4. ASSUME NEW x \in Attachments, NEW y \in Attachments, NEW p, p = Probe(x, y)
      PROVE  Ping(p) = IF x.plane = y.plane THEN 0 ELSE 1
  <2>1. p.from = x /\ p.to = y
    BY <1>4 DEF Probe
  <2>2. QED
    BY <1>2, <1>3, <2>1 DEF Ping
<1>5. ASSUME NEW p \in contract.reachability
      PROVE  Ping(p) = 0
  <2>1. \E x, y \in Attachments : x.plane = y.plane /\ p = Probe(x, y)
    BY <1>1 DEF Reachability
  <2>2. QED
    BY <1>4, <2>1
<1>6. ASSUME NEW p \in contract.isolation
      PROVE  Ping(p) = 1
  <2>1. \E x, y \in Attachments : x.plane # y.plane /\ p = Probe(x, y)
    BY <1>1 DEF Isolation
  <2>2. QED
    BY <1>4, <2>1
<1>7. QED
  BY <1>5, <1>6 DEF PingsPass

\* No two probes of a single-homed site are judged by one answer.
LEMMA KeysApart ==
  ASSUME TypeOK, Kept, contract # NoContract, SingleHomed
  PROVE  ~KeysClash
<1>1. /\ Passes /\ contract.reachability = Reachability /\ contract.isolation = Isolation
      /\ WellFormed(devices, ports, cables)
  BY DEF Kept, ExpectedState, TypeOK
<1>2. \A p \in contract.reachability \cup contract.isolation :
        \E x, y \in Attachments : p = Probe(x, y)
  BY <1>1 DEF Reachability, Isolation
<1>3. ASSUME NEW x \in Attachments, NEW y \in Attachments, x.address = y.address
      PROVE  x = y
  <2>1. PICK l \in LinksOf("host") :
          x = [port |-> EndpointEnd(l), plane |-> l.plane, address |-> AddressAt(EndpointEnd(l)),
               leaf |-> LeafEnd(l)[1]]
    BY DEF Attachments
  <2>2. PICK m \in LinksOf("host") :
          y = [port |-> EndpointEnd(m), plane |-> m.plane, address |-> AddressAt(EndpointEnd(m)),
               leaf |-> LeafEnd(m)[1]]
    BY DEF Attachments
  <2>3. AddressAt(EndpointEnd(l)) = AddressAt(EndpointEnd(m))
    BY <1>3, <2>1, <2>2
  <2>4. /\ EndpointEnd(l) \in Ends(l) /\ Addressed(EndpointEnd(l)) /\ l \in Links
        /\ EndpointEnd(m) \in Ends(m) /\ Addressed(EndpointEnd(m)) /\ m \in Links
    BY <1>1, AttachmentIs DEF Passes, ADR003, ValidP2P, Ends, LinksOf
  <2>5. l = m
    BY <1>1, <2>3, <2>4, AddressOfOneLink DEF Passes
  <2>6. QED
    BY <2>1, <2>2, <2>5
<1>4. ASSUME NEW p \in contract.reachability \cup contract.isolation,
             NEW q \in contract.reachability \cup contract.isolation, Key(p) = Key(q)
      PROVE  p = q
  <2>1. PICK x, y \in Attachments : p = Probe(x, y)
    BY <1>2
  <2>2. PICK v, w \in Attachments : q = Probe(v, w)
    BY <1>2
  <2>3. x.port[1] = v.port[1] /\ x.plane = v.plane /\ y.address = w.address
    BY <1>4, <2>1, <2>2 DEF Key, Probe
  <2>4. x = v /\ y = w
    BY <1>3, <2>3 DEF SingleHomed
  <2>5. QED
    BY <2>1, <2>2, <2>4
<1>5. QED
  BY <1>4 DEF KeysClash

LEMMA HealthyIsVerified ==
  ASSUME TypeOK, Kept, contract # NoContract, Aligned, SingleHomed,
         tables = Converged({}), down = {}, leaked = {}
  PROVE  Verified
<1>1. Passes /\ contract.bgp = Adjacencies
  BY DEF Kept, ExpectedState
<1>2. QED
  BY <1>1, HealthySessionsPass, HealthyRoutesPass, HealthyPingsPass, KeysApart DEF Verified

\* The routers have installed what the links that are up let through.
Installed == contract # NoContract => tables = Converged(down)

LEMMA InstalledByEveryStep ==
  ASSUME Healthy, Installed, [Next]_vars
  PROVE  Installed'
<1>1. CASE EditSite
  <2>1. contract' = NoContract
    BY <1>1 DEF EditSite, Edit, Unplug, Disconnect, Plug, Connect, ChangePort, ChangeDevice, Retire
  <2>2. QED
    BY <2>1 DEF Installed
<1>2. ASSUME UNCHANGED inventory, NEW dead
      PROVE  Converged(dead)' = Converged(dead)
  BY <1>2 DEF inventory, Converged, Reached, RouteTo, Attached, Prefix, LinksOf, Links, LinkOf,
     Included, Interfaces, Kind, RoleAt, Routers, OfRole, Nodes, Attachments, EndpointEnd,
     LeafEnd, EndOf, Ends, EndNodes, AddressAt
<1>3. CASE Compile
  <2>1. UNCHANGED inventory /\ down' = {} /\ tables' = Converged({})
    BY <1>3 DEF Compile, Healthy
  <2>2. QED
    BY <1>2, <2>1 DEF Installed
<1>4. ASSUME NEW l, LinkDown(l), contract # NoContract
      PROVE  Installed'
  <2>1. UNCHANGED inventory /\ tables' = Converged(down')
    BY <1>4 DEF LinkDown
  <2>2. QED
    BY <1>2, <2>1 DEF Installed
<1>5. ASSUME UNCHANGED <<inventory, contract, down, tables>>
      PROVE  Installed'
  BY <1>2, <1>5 DEF Installed
<1>6. QED
  BY <1>1, <1>3, <1>4, <1>5 DEF Next, NetworkMoves, RouteLeaks, vars

-----------------------------------------------------------------------------
(* What a host link that is down, or a leak, does to the routes.           *)

LEMMA UnattachedReachesNone ==
  ASSUME WellFormed(devices, ports, cables), NEW x, NEW sessions, NEW dead, ~Attached(x, dead)
  PROVE  Reached(x, sessions, dead)[Cardinality(Routers)] = {}
<1> DEFINE N == Cardinality(Routers)
           r == Reached(x, sessions, dead)
<1>1. N \in Nat
  BY RoutersFinite
<1>2. r = [k \in 0 .. N |-> IF k = 0 THEN Source(x, dead) ELSE Spread(r[k - 1], sessions)]
  BY <1>1, ReachedIs
<1> HIDE DEF N, r
<1>3. \A k \in 0 .. N : r[k] = IF k = 0 THEN Source(x, dead) ELSE Spread(r[k - 1], sessions)
  BY <1>2
<1> DEFINE S == {k \in Nat : r[k] = {}}
<1>4. 0 \in S
  BY <1>1, <1>3 DEF Source
<1>5. ASSUME NEW k \in 0 .. N, k < N, k \in S
      PROVE  k + 1 \in S
  <2>1. Spread({}, sessions) = {}
    BY DEF Spread
  <2>2. k + 1 \in 0 .. N /\ (k + 1) - 1 = k /\ k + 1 # 0
    BY <1>1, <1>5
  <2>3. r[k + 1] = Spread(r[k], sessions)
    BY <1>3, <2>2
  <2>4. QED
    BY <1>1, <1>5, <2>1, <2>2, <2>3
<1> HIDE DEF S
<1>6. 0 .. N \subseteq S
  BY <1>1, <1>4, <1>5, UpTo
<1>7. QED
  BY <1>1, <1>6 DEF S, N, r

\* A /31 is of one link, so that a prefix is of one attachment.
LEMMA PrefixOfOneAttachment ==
  ASSUME WellFormed(devices, ports, cables), Passes,
         NEW x \in Attachments, NEW y \in Attachments, Prefix(x) = Prefix(y)
  PROVE  x = y
<1>1. PICK l \in LinksOf("host") :
        x = [port |-> EndpointEnd(l), plane |-> l.plane, address |-> AddressAt(EndpointEnd(l)),
             leaf |-> LeafEnd(l)[1]]
  BY DEF Attachments
<1>2. PICK m \in LinksOf("host") :
        y = [port |-> EndpointEnd(m), plane |-> m.plane, address |-> AddressAt(EndpointEnd(m)),
             leaf |-> LeafEnd(m)[1]]
  BY DEF Attachments
<1>3. ASSUME NEW k \in LinksOf("host"), NEW i \in Ends(k)
      PROVE  Addressed(i) /\ AddressAt(i) \in Addresses /\ k \in Links
  <2>1. Addressed(i) /\ k \in Links
    BY DEF Passes, ADR003, ValidP2P, Ends, LinksOf
  <2>2. ports[i] \in Ports
    BY DEF LinksOf, Links, LinkOf, Included, Interfaces, Ends, WellFormed
  <2>3. QED
    BY <2>1, <2>2 DEF Addressed, AddressAt, Ports
<1>4. ASSUME NEW k \in LinksOf("host"), NEW i \in Ends(k)
      PROVE  \E j \in Ends(k) : /\ AddressAt(j).pool = AddressAt(i).pool
                                /\ AddressAt(j).network = AddressAt(i).network
                                /\ AddressAt(j).host = 1 - AddressAt(i).host
  <2>1. AddressAt(k.a) \in Addresses /\ AddressAt(k.b) \in Addresses
    BY <1>3 DEF Ends
  <2>2. /\ AddressAt(k.a).pool = AddressAt(k.b).pool
        /\ AddressAt(k.a).network = AddressAt(k.b).network
        /\ AddressAt(k.a).host # AddressAt(k.b).host
    BY DEF Passes, ADR003, ValidP2P
  <2>3. AddressAt(k.a).host \in {0, 1} /\ AddressAt(k.b).host \in {0, 1}
    BY <2>1 DEF Addresses
  <2>4. AddressAt(k.a).host = 1 - AddressAt(k.b).host /\ AddressAt(k.b).host = 1 - AddressAt(k.a).host
    BY <2>2, <2>3
  <2>5. QED
    BY <2>2, <2>4 DEF Ends
<1>5. EndpointEnd(l) \in Ends(l) /\ EndpointEnd(m) \in Ends(m)
  BY AttachmentIs
<1>6. PICK i \in Ends(l) : AddressAt(i) = AddressAt(EndpointEnd(m))
  <2>1. /\ AddressAt(EndpointEnd(l)).pool = AddressAt(EndpointEnd(m)).pool
        /\ AddressAt(EndpointEnd(l)).network = AddressAt(EndpointEnd(m)).network
    BY <1>1, <1>2 DEF Prefix
  <2>2. PICK j \in Ends(l) : /\ AddressAt(j).pool = AddressAt(EndpointEnd(l)).pool
                             /\ AddressAt(j).network = AddressAt(EndpointEnd(l)).network
                             /\ AddressAt(j).host = 1 - AddressAt(EndpointEnd(l)).host
    BY <1>4, <1>5
  <2>3. /\ AddressAt(EndpointEnd(l)) \in Addresses /\ AddressAt(EndpointEnd(m)) \in Addresses
        /\ AddressAt(j) \in Addresses
    BY <1>3, <1>5
  <2>4. \/ AddressAt(EndpointEnd(l)).host = AddressAt(EndpointEnd(m)).host
        \/ AddressAt(j).host = AddressAt(EndpointEnd(m)).host
    BY <2>2, <2>3 DEF Addresses
  <2>5. \A v, w \in Addresses : v.pool = w.pool /\ v.network = w.network /\ v.host = w.host => v = w
    BY DEF Addresses
  <2>6. QED
    BY <1>5, <2>1, <2>2, <2>3, <2>4, <2>5
<1>7. l = m
  BY <1>3, <1>5, <1>6, AddressOfOneLink DEF Passes
<1>8. QED
  BY <1>1, <1>2, <1>7

\* A spine of the plane misses the route of an endpoint whose link is down.
LEMMA DownHostIsUnrouted ==
  ASSUME TypeOK, Kept, Failures, Installed, contract # NoContract,
         NEW l \in LinksOf("host"), l \in down
  PROVE  \E e \in contract.routes :
           e.protocol = "bgp" /\ \A r \in RouteTable(e.router) : r.prefix # e.prefix
<1>1. /\ Passes /\ contract.routes = RouterPrefixes /\ tables = Converged(down)
      /\ WellFormed(devices, ports, cables)
  BY DEF Kept, ExpectedState, Installed, TypeOK
<1> DEFINE i == EndpointEnd(l)
           x == [port |-> i, plane |-> l.plane, address |-> AddressAt(i), leaf |-> LeafEnd(l)[1]]
<1>2. x \in Attachments /\ x.plane = l.plane
  BY DEF Attachments
<1>3. ~Attached(x, down)
  BY <1>1, AttachmentIs DEF Attached
<1> HIDE DEF x
<1>4. x.plane \in RequiredPlanes /\ Prefix(x).pool = x.plane
  BY <1>1, <1>2, AttachmentInPlane
<1>5. PICK s \in InPlane("spine", x.plane) : TRUE
  BY <1>1, <1>4, SpineExists
<1>6. s \in Routers /\ devices[s].plane = x.plane /\ devices[s].role = "spine"
  BY DEF InPlane, OfRole, Routers, NetworkRoles
<1> DEFINE e == [router |-> s, plane |-> x.plane, prefix |-> Prefix(x), endpoint |-> x.port[1],
                 protocol |-> IF Connected(s, x) THEN "connected" ELSE "bgp",
                 hops |-> MinNextHops(s, x)]
<1>7. e \in contract.routes
  <2>1. e \in RoutesOf(s)
    BY <1>2, <1>6 DEF RoutesOf
  <2>2. QED
    BY <1>1, <1>4, <1>6, <2>1 DEF RouterPrefixes
<1>8. e.router = s /\ e.prefix = Prefix(x) /\ e.protocol = "bgp"
  BY <1>6 DEF Connected
<1>9. ASSUME NEW r \in RouteTable(s), r.prefix = Prefix(x)
      PROVE  FALSE
  <2>1. CASE r \in tables[s]
    <3> DEFINE sessions == LinksOf("fabric") \ down
    <3>1. PICK y \in Attachments :
            /\ s \in Reached(y, sessions, down)[Cardinality(Routers)]
            /\ r = RouteTo(s, y, sessions, Reached(y, sessions, down))
      BY <1>1, <1>6, <2>1, ConvergedIs
    <3>2. r.prefix = Prefix(y)
      BY <3>1 DEF RouteTo
    <3>3. y = x
      BY <1>1, <1>2, <1>9, <3>2, PrefixOfOneAttachment
    <3>4. QED
      BY <1>1, <1>3, <3>1, <3>3, UnattachedReachesNone
  <2>2. CASE r \notin tables[s]
    <3>1. PICK k \in leaked : k.router = s /\ k.prefix = Prefix(x)
      BY <1>9, <2>2 DEF RouteTable
    <3>2. PICK n \in Routers, y \in Attachments : y.plane # devices[n].plane /\ k = Leak(n, y)
      BY DEF Failures
    <3>3. n = s /\ Prefix(y) = Prefix(x)
      BY <3>1, <3>2 DEF Leak
    <3>4. y = x
      BY <1>1, <1>2, <3>3, PrefixOfOneAttachment
    <3>5. QED
      BY <1>6, <3>2, <3>3, <3>4
  <2>3. QED
    BY <2>1, <2>2
<1> HIDE DEF e
<1>10. QED
  BY <1>7, <1>8, <1>9

\* A route of an endpoint in the other plane is recognised by its pool.
LEMMA LeakIsForbidden ==
  ASSUME TypeOK, Kept, contract # NoContract, NEW n \in Routers, NEW x \in Attachments,
         x.plane # devices[n].plane, Leak(n, x) \in leaked
  PROVE  \E r \in RouteTable(n) : r.protocol = "bgp" /\ Forbidden(n, r)
<1>1. /\ Passes /\ contract.routes = RouterPrefixes /\ WellFormed(devices, ports, cables)
  BY DEF Kept, ExpectedState, TypeOK
<1>2. x.port[1] \in Endpoints /\ x.plane \in RequiredPlanes /\ Prefix(x).pool = x.plane
  BY <1>1, AttachmentInPlane
<1>3. devices[n].plane \in RequiredPlanes
  BY <1>1 DEF Passes, PLN001
<1>4. PICK y \in Attachments : y.plane = devices[n].plane
  BY <1>1, <1>2, <1>3, AttachmentExists
<1> DEFINE e == [router |-> n, plane |-> y.plane, prefix |-> Prefix(y), endpoint |-> y.port[1],
                 protocol |-> IF Connected(n, y) THEN "connected" ELSE "bgp",
                 hops |-> MinNextHops(n, y)]
           r == [prefix |-> Prefix(x), protocol |-> "bgp", hops |-> 1]
<1>5. e \in contract.routes
  <2>1. e \in RoutesOf(n)
    BY <1>4 DEF RoutesOf
  <2>2. QED
    BY <1>1, <1>3, <2>1 DEF RouterPrefixes
<1>6. r \in RouteTable(n)
  BY DEF RouteTable, Leak
<1>7. e.router = n /\ e.plane = devices[n].plane
  BY <1>4
<1>8. r.protocol = "bgp" /\ r.prefix.pool = x.plane
  BY <1>2
<1> HIDE DEF e, r
<1>9. QED
  BY <1>2, <1>5, <1>6, <1>7, <1>8 DEF Forbidden

\* Any link that is down and any route leaked make verification fail.
LEMMA FaultIsFound ==
  ASSUME TypeOK, Kept, Failures, Installed, contract # NoContract, down # {} \/ leaked # {}
  PROVE  ~Verified
<1>1. /\ Passes /\ contract.bgp = Adjacencies
  BY DEF Kept, ExpectedState
<1>2. ASSUME NEW l \in LinksOf("host"), l \in down PROVE ~RoutesPass
  BY <1>2, DownHostIsUnrouted DEF RoutesPass
<1>3. ASSUME leaked # {} PROVE ~RoutesPass
  <2>1. PICK n \in Routers, x \in Attachments : x.plane # devices[n].plane /\ Leak(n, x) \in leaked
    BY <1>3 DEF Failures
  <2>2. \E r \in RouteTable(n) : Forbidden(n, r)
    BY <2>1, LeakIsForbidden
  <2>3. n \in Asked
    BY <1>1, RoutersAreAsked
  <2>4. QED
    BY <2>2, <2>3 DEF RoutesPass
<1>4. ASSUME down # {} PROVE ~Verified
  <2>1. PICK l \in down : l \in LinksOf("fabric") \/ l \in LinksOf("host")
    BY <1>4 DEF Failures
  <2>2. QED
    BY <1>2, <2>1, DownSessionIsFound DEF Verified
<1>5. QED
  BY <1>3, <1>4 DEF Verified

\* There are finitely many faults: none is no link down and no route leaked.
LEMMA NoFaults ==
  ASSUME WellFormed(devices, ports, cables), Failures
  PROVE  Faults = 0 <=> down = {} /\ leaked = {}
<1>1. IsFiniteSet(down)
  <2>1. down \in SUBSET Links
    BY DEF Failures, LinksOf
  <2>2. QED
    BY <2>1, LinksFinite, FS_Subset
<1>2. IsFiniteSet(leaked)
  <2>1. IsFiniteSet(Routers) /\ IsFiniteSet(LinksOf("host"))
    <3>1. LinksOf("host") \in SUBSET Links
      BY DEF LinksOf
    <3>2. QED
      BY <3>1, LinksFinite, FS_Subset, RoutersFinite
  <2> DEFINE Of(l) == [port |-> EndpointEnd(l), plane |-> l.plane,
                       address |-> AddressAt(EndpointEnd(l)), leaf |-> LeafEnd(l)[1]]
             P == Routers \X LinksOf("host")
             f == [k \in P |-> Leak(k[1], Of(k[2]))]
             All == {Leak(k[1], Of(k[2])) : k \in P}
  <2>2. IsFiniteSet(P)
    BY <2>1, FS_Product
  <2>3. f \in Surjection(P, All)
    BY DEF Surjection
  <2>4. IsFiniteSet(All)
    BY <2>2, <2>3, FS_Surjection
  <2> HIDE DEF Of, P
  <2>5. leaked \in SUBSET All
    <3> SUFFICES ASSUME NEW k \in leaked PROVE k \in All
      OBVIOUS
    <3>1. PICK n \in Routers, x \in Attachments : k = Leak(n, x)
      BY DEF Failures
    <3>2. PICK l \in LinksOf("host") : x = Of(l)
      BY DEF Attachments, Of
    <3>3. <<n, l>> \in P
      BY DEF P
    <3>4. Leak(<<n, l>>[1], Of(<<n, l>>[2])) \in All
      BY <3>3
    <3>5. QED
      BY <3>1, <3>2, <3>4
  <2>6. QED
    BY <2>4, <2>5, FS_Subset
<1>3. /\ Cardinality(down) \in Nat /\ Cardinality(leaked) \in Nat
      /\ Cardinality(down) = 0 <=> down = {}
      /\ Cardinality(leaked) = 0 <=> leaked = {}
  BY <1>1, <1>2, FS_CardinalityType, FS_EmptySet
<1>4. QED
  BY <1>3 DEF Faults

-----------------------------------------------------------------------------
(* Assurance refuses nothing that would verify.                            *)

\* All configurations are taken in: only what has failed is dead.
LEMMA NothingElseIsDead == Dead(Routers) = down
BY DEF Dead

\* The row of a session that is up.
Row(m, n) == [node |-> m, remote |-> n, configured |-> "UNIQUE_MATCH",
              predicted |-> "ESTABLISHED"]

LEMMA RowsAreSessions ==
  ASSUME CLS002, down \cap LinksOf("fabric") = {}
  PROVE  /\ \A r \in SessionRows(Routers) :
              \E l \in LinksOf("fabric") :
                \/ r = Row(LeafEnd(l)[1], SpineEnd(l)[1])
                \/ r = Row(SpineEnd(l)[1], LeafEnd(l)[1])
         /\ \A l \in LinksOf("fabric") :
              /\ LeafEnd(l)[1] \in Routers =>
                   Row(LeafEnd(l)[1], SpineEnd(l)[1]) \in SessionRows(Routers)
              /\ SpineEnd(l)[1] \in Routers =>
                   Row(SpineEnd(l)[1], LeafEnd(l)[1]) \in SessionRows(Routers)
<1> DEFINE R(n, l) ==
             [node |-> n, remote |-> IF l \in Dead(Routers) THEN NoNode ELSE FarEnd(l, n)[1],
              configured |-> IF l \in Dead(Routers) THEN "UNKNOWN_REMOTE" ELSE "UNIQUE_MATCH",
              predicted |-> IF l \in Dead(Routers) THEN "NOT_COMPATIBLE" ELSE "ESTABLISHED"]
           S(n) == {R(n, l) : l \in {k \in LinksOf("fabric") : n \in EndNodes(k)}}
<1>1. SessionRows(Routers) = UNION {S(n) : n \in Routers}
  BY DEF SessionRows
<1>2. \A l \in LinksOf("fabric") : l \notin Dead(Routers)
  BY NothingElseIsDead
<1>3. \A l \in LinksOf("fabric") : \A n : R(n, l) = Row(n, FarEnd(l, n)[1])
  BY <1>2 DEF Row
<1> HIDE DEF R
<1>4. ASSUME NEW r \in SessionRows(Routers)
      PROVE  \E l \in LinksOf("fabric") :
               \/ r = Row(LeafEnd(l)[1], SpineEnd(l)[1])
               \/ r = Row(SpineEnd(l)[1], LeafEnd(l)[1])
  <2>1. PICK n \in Routers : \E l \in LinksOf("fabric") : n \in EndNodes(l) /\ r = R(n, l)
    BY <1>1
  <2>2. PICK l \in LinksOf("fabric") : n \in EndNodes(l) /\ r = R(n, l)
    BY <2>1
  <2>3. n = LeafEnd(l)[1] \/ n = SpineEnd(l)[1]
    BY <2>2, SessionEnds
  <2>4. QED
    BY <1>3, <2>2, <2>3, FarEndIs
<1>5. ASSUME NEW l \in LinksOf("fabric"), NEW m \in Routers, NEW n,
             \/ m = LeafEnd(l)[1] /\ n = SpineEnd(l)[1]
             \/ m = SpineEnd(l)[1] /\ n = LeafEnd(l)[1]
      PROVE  Row(m, n) \in SessionRows(Routers)
  <2>1. R(m, l) \in S(m)
    BY <1>5, SessionEnds
  <2>2. R(m, l) = Row(m, n)
    BY <1>3, <1>5, FarEndIs
  <2> HIDE DEF S
  <2>3. QED
    BY <1>1, <2>1, <2>2
<1>6. QED
  BY <1>4, <1>5

LEMMA VerifiedSessionsAssured ==
  ASSUME TypeOK, Kept, contract # NoContract, SessionsPass
  PROVE  CheckSessions(SessionRows(Routers))
<1>1. Passes /\ contract.bgp = Adjacencies /\ CLS002
  BY DEF Kept, ExpectedState, Passes
<1>2. down \cap LinksOf("fabric") = {}
  BY DownSessionIsFound
<1> DEFINE J(l) == [leaf |-> Side(LeafEnd(l)), spine |-> Side(SpineEnd(l))]
<1>3. ASSUME NEW l \in LinksOf("fabric")
      PROVE  /\ J(l) \in contract.bgp
             /\ Pairs(J(l)) = {<<LeafEnd(l)[1], SpineEnd(l)[1]>>,
                               <<SpineEnd(l)[1], LeafEnd(l)[1]>>}
             /\ LeafEnd(l)[1] \in Routers /\ SpineEnd(l)[1] \in Routers
  <2>1. J(l) \in contract.bgp
    BY <1>1 DEF Adjacencies
  <2>2. J(l) \in AdjacencyType
    BY <2>1 DEF TypeOK
  <2>3. QED
    BY <2>1, <2>2 DEF Pairs, Side, AdjacencyType, Routers, OfRole, NetworkRoles
<1>4. \A j \in contract.bgp : \E l \in LinksOf("fabric") : j = J(l)
  BY <1>1 DEF Adjacencies
<1> HIDE DEF J
<1>5. ASSUME NEW r \in SessionRows(Routers)
      PROVE  <<r.node, r.remote>> \in ExpectedPairs
  <2>1. PICK l \in LinksOf("fabric") : \/ r = Row(LeafEnd(l)[1], SpineEnd(l)[1])
                                       \/ r = Row(SpineEnd(l)[1], LeafEnd(l)[1])
    BY <1>1, <1>2, RowsAreSessions
  <2>2. <<r.node, r.remote>> \in Pairs(J(l))
    BY <1>3, <2>1 DEF Row
  <2>3. QED
    BY <1>3, <2>2 DEF ExpectedPairs
<1>6. ASSUME NEW p \in ExpectedPairs
      PROVE  \E r \in SessionRows(Routers) :
               /\ <<r.node, r.remote>> = p
               /\ r.configured = "UNIQUE_MATCH" /\ r.predicted = "ESTABLISHED"
  <2>1. PICK l \in LinksOf("fabric") : p \in Pairs(J(l))
    BY <1>4 DEF ExpectedPairs
  <2>2. \/ p = <<LeafEnd(l)[1], SpineEnd(l)[1]>>
        \/ p = <<SpineEnd(l)[1], LeafEnd(l)[1]>>
    BY <1>3, <2>1
  <2>3. PICK r \in SessionRows(Routers) : r = Row(p[1], p[2])
    BY <1>1, <1>2, <1>3, <2>2, RowsAreSessions
  <2>4. QED
    BY <2>2, <2>3 DEF Row
<1>7. QED
  BY <1>5, <1>6 DEF CheckSessions

\* The rows of Batfish's routing tables are the routes learned by BGP.
LEMMA RowsAreLearned ==
  /\ \A n \in Routers : \A r \in RouteTable(n) :
       r.protocol = "bgp" => [node |-> n, route |-> r] \in RouteRows(Routers)
  /\ \A w \in RouteRows(Routers) :
       w.node \in Routers /\ w.route \in RouteTable(w.node) /\ w.route.protocol = "bgp"
<1> DEFINE Leaks(n) == {[prefix |-> k.prefix, protocol |-> "bgp", hops |-> 1] :
                          k \in {j \in leaked : j.router = n}}
           Learned(n) == {q \in tables[n] : q.protocol = "bgp"} \cup Leaks(n)
           Rows(n) == {[node |-> n, route |-> r] : r \in Learned(n)}
<1>1. RouteRows(Routers) = UNION {Rows(n) : n \in Routers}
  BY DEF RouteRows
<1>2. \A n : RouteTable(n) = tables[n] \cup Leaks(n)
  BY DEF RouteTable
<1>3. \A n, r : r \in Leaks(n) => r.protocol = "bgp"
  OBVIOUS
<1> HIDE DEF Leaks
<1>4. \A n, r : r \in Learned(n) <=> r \in RouteTable(n) /\ r.protocol = "bgp"
  BY <1>2, <1>3
<1> HIDE DEF Learned
<1>5. QED
  BY <1>1, <1>4

LEMMA VerifiedRoutesAssured ==
  ASSUME Kept, contract # NoContract, RoutesPass
  PROVE  CheckRoutes(RouteRows(Routers)) /\ CheckIsolation(RouteRows(Routers))
<1>1. Passes /\ contract.routes = RouterPrefixes /\ contract.bgp = Adjacencies
  BY DEF Kept, ExpectedState
<1>2. ASSUME NEW e \in contract.routes, e.protocol = "bgp"
      PROVE  \E w \in RouteRows(Routers) :
               w.node = e.router /\ w.route.prefix = e.prefix /\ w.route.hops >= e.hops
  <2>1. PICK r \in RouteTable(e.router) :
          r.prefix = e.prefix /\ r.protocol = "bgp" /\ r.hops >= e.hops
    BY <1>2 DEF RoutesPass
  <2>2. PICK n \in {m \in Routers : devices[m].plane \in RequiredPlanes} : e \in RoutesOf(n)
    BY <1>1 DEF RouterPrefixes
  <2>3. e.router = n /\ n \in Routers
    BY <2>2 DEF RoutesOf
  <2> DEFINE w == [node |-> e.router, route |-> r]
  <2>4. w \in RouteRows(Routers)
    BY <2>1, <2>3, RowsAreLearned
  <2>5. w.node = e.router /\ w.route = r
    OBVIOUS
  <2> HIDE DEF w
  <2>6. QED
    BY <2>1, <2>4, <2>5
<1>3. ASSUME NEW w \in RouteRows(Routers)
      PROVE  ~Forbidden(w.node, w.route)
  <2>1. w.node \in Asked
    BY <1>1, RowsAreLearned, RoutersAreAsked
  <2>2. QED
    BY <2>1, RowsAreLearned DEF RoutesPass
<1>4. QED
  BY <1>2, <1>3 DEF CheckRoutes, CheckIsolation

\* What assurance passes has nothing down and nothing leaked.
LEMMA AssuredIsHealthy ==
  ASSUME TypeOK, Kept, Failures, Installed, contract # NoContract, Aligned,
         Assured(Routers, ReadWhole)
  PROVE  down = {} /\ leaked = {}
<1>1. /\ Passes /\ contract.bgp = Adjacencies /\ contract.routes = RouterPrefixes
      /\ CLS002 /\ WellFormed(devices, ports, cables)
  BY DEF Kept, ExpectedState, Passes, TypeOK
<1>2. /\ CheckSessions(SessionRows(Routers)) /\ CheckRoutes(RouteRows(Routers))
      /\ CheckIsolation(RouteRows(Routers))
  BY DEF Assured
<1>3. ASSUME NEW l \in LinksOf("fabric"), l \in down PROVE FALSE
  <2> DEFINE m == LeafEnd(l)[1]
             n == SpineEnd(l)[1]
             p == l.plane
  <2>1. <<m, n>> \in ExpectedPairs
    <3> DEFINE j == [leaf |-> Side(LeafEnd(l)), spine |-> Side(SpineEnd(l))]
    <3>1. j \in contract.bgp
      BY <1>1 DEF Adjacencies
    <3>2. <<m, n>> \in Pairs(j)
      BY DEF Pairs, Side
    <3> HIDE DEF j
    <3>3. QED
      BY <3>1, <3>2 DEF ExpectedPairs
  <2>2. PICK r \in SessionRows(Routers) :
          /\ <<r.node, r.remote>> = <<m, n>> /\ r.configured = "UNIQUE_MATCH"
    BY <1>2, <2>1 DEF CheckSessions
  <2>3. PICK k \in LinksOf("fabric") : m \in EndNodes(k) /\ k \notin down /\ FarEnd(k, m)[1] = n
    <3>1. PICK u \in Routers, k \in LinksOf("fabric") :
            /\ u \in EndNodes(k) /\ r.node = u
            /\ r.remote = IF k \in Dead(Routers) THEN NoNode ELSE FarEnd(k, u)[1]
            /\ r.configured = IF k \in Dead(Routers) THEN "UNKNOWN_REMOTE" ELSE "UNIQUE_MATCH"
      BY DEF SessionRows
    <3>2. k \notin down /\ u = m
      BY <2>2, <3>1, NothingElseIsDead
    <3>3. QED
      BY <2>2, <3>1, <3>2, NothingElseIsDead
  <2>4. /\ p \in RequiredPlanes /\ m \in InPlane("leaf", p) /\ n \in InPlane("spine", p)
        /\ EndNodes(l) = {m, n}
    BY <1>1, SessionInPlane
  <2>5. /\ m = LeafEnd(k)[1] /\ n = SpineEnd(k)[1]
    <3>1. m = LeafEnd(k)[1] \/ m = SpineEnd(k)[1]
      BY <1>1, <2>3, SessionEnds
    <3>2. m # SpineEnd(k)[1]
      BY <1>1, SessionEnds
    <3>3. QED
      BY <1>1, <2>3, <3>1, <3>2, FarEndOf
  <2>6. k.plane = p
    <3>1. m \in InPlane("leaf", k.plane)
      BY <1>1, <2>5, SessionInPlane
    <3>2. QED
      BY <2>4, <3>1 DEF InPlane
  <2>7. k \in Uplinks(m, p) /\ l \in Uplinks(m, p)
    BY <1>1, <2>3, <2>4, <2>6 DEF Uplinks, CLS002
  <2>8. k = l
    BY <1>1, <2>4, <2>5, <2>7, OneUplinkPerSpine
  <2>9. QED
    BY <1>3, <2>3, <2>8
<1>4. ASSUME NEW l \in LinksOf("host"), l \in down PROVE FALSE
  <2>1. PICK e \in contract.routes :
          e.protocol = "bgp" /\ \A r \in RouteTable(e.router) : r.prefix # e.prefix
    BY <1>4, DownHostIsUnrouted
  <2>2. PICK w \in RouteRows(Routers) : w.node = e.router /\ w.route.prefix = e.prefix
    BY <1>2, <2>1 DEF CheckRoutes
  <2>3. QED
    BY <2>1, <2>2, RowsAreLearned
<1>5. ASSUME leaked # {} PROVE FALSE
  <2>1. PICK n \in Routers, x \in Attachments : x.plane # devices[n].plane /\ Leak(n, x) \in leaked
    BY <1>5 DEF Failures
  <2>2. PICK r \in RouteTable(n) : r.protocol = "bgp" /\ Forbidden(n, r)
    BY <2>1, LeakIsForbidden
  <2> DEFINE w == [node |-> n, route |-> r]
  <2>3. w \in RouteRows(Routers)
    BY <2>2, RowsAreLearned
  <2>4. w.node = n /\ w.route = r
    OBVIOUS
  <2> HIDE DEF w
  <2>5. QED
    BY <1>2, <2>2, <2>3, <2>4 DEF CheckIsolation
<1>6. QED
  BY <1>3, <1>4, <1>5 DEF Failures

-----------------------------------------------------------------------------
(* The theorems.                                                           *)

\* The inductive invariant: the type, nothing fails before a build runs, the
\* contract is the one of the site, faults are of the site, and the tables are
\* those of the links that are up.
NetworkInv == TypeOK /\ Healthy /\ Kept /\ Failures /\ Installed

LEMMA NetworkInvHolds == Spec => []NetworkInv
<1>1. Init => NetworkInv
  BY TypeInitially, KeptInitially DEF Init, Failures, Installed, NetworkInv
<1>2. NetworkInv /\ [Next]_vars => NetworkInv'
  BY TypeByEveryStep, KeptByEveryStep, FailuresByEveryStep, InstalledByEveryStep DEF NetworkInv
<1>3. QED
  BY <1>1, <1>2, PTL DEF Spec

\* In every site that compiles, whatever the profile, any set of links that are
\* down and of routes leaked across the planes makes verification fail.
THEOREM FaultsFound == Spec => []FaultsAreFound
<1>1. NetworkInv => FaultsAreFound
  <2> SUFFICES ASSUME NetworkInv, contract # NoContract, Faults > 0 PROVE ~Verified
    BY DEF FaultsAreFound
  <2>1. down # {} \/ leaked # {}
    BY NoFaults DEF NetworkInv, TypeOK
  <2>2. QED
    BY <2>1, FaultIsFound DEF NetworkInv
<1>2. QED
  BY <1>1, NetworkInvHolds, PTL

\* In every aligned, single-homed site that compiles, the network that nothing
\* has failed in passes verification: sessions, equal-cost routes and probes.
THEOREM HealthyHolds == Spec => []HealthyPasses
<1>1. NetworkInv => HealthyPasses
  <2> SUFFICES ASSUME NetworkInv, contract # NoContract, Faults = 0, Aligned, SingleHomed
               PROVE  Verified
    BY DEF HealthyPasses
  <2>1. down = {} /\ leaked = {}
    BY NoFaults DEF NetworkInv, TypeOK
  <2>2. QED
    BY <2>1, HealthyIsVerified DEF NetworkInv, Installed
<1>2. QED
  BY <1>1, NetworkInvHolds, PTL

\* Assurance and verification agree in every such site, given that Batfish's
\* prediction is right: no false alarm, and nothing passed that would not verify.
THEOREM ForeseesHolds == Spec => []AssuranceForesees
<1>1. NetworkInv => AssuranceForesees
  <2> SUFFICES ASSUME NetworkInv, contract # NoContract PROVE AssuranceForesees
    BY DEF AssuranceForesees
  <2>1. ASSUME Assurable, Verified PROVE Assured(Routers, ReadWhole)
    <3>1. CheckParse(ReadWhole)
      BY DEF CheckParse, ReadWhole, Parsed, Accepted
    <3>2. QED
      BY <2>1, <3>1, VerifiedSessionsAssured, VerifiedRoutesAssured DEF Assured, Verified,
         NetworkInv
  <2>2. ASSUME Aligned, SingleHomed, Assured(Routers, ReadWhole) PROVE Verified
    <3>1. down = {} /\ leaked = {}
      BY <2>2, AssuredIsHealthy DEF NetworkInv
    <3>2. QED
      BY <2>2, <3>1, HealthyIsVerified DEF NetworkInv, Installed
  <2>3. QED
    BY <2>1, <2>2 DEF AssuranceForesees
<1>2. QED
  BY <1>1, NetworkInvHolds, PTL
=============================================================================
