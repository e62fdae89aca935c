--------------------------- MODULE FabricContract ---------------------------
(***************************************************************************)
(* From NetBox to the verdict: a site is edited until its fabric passes    *)
(* the policy and is compiled; the network that the generated              *)
(* configurations describe comes up, loses links and leaks routes, and the *)
(* verification compares it with the expected state.                       *)
(*                                                                         *)
(* The network is external: FRR and SR Linux routers that establish a      *)
(* session on every configured link that is up, advertise what they learn, *)
(* and install all shortest paths.                                         *)
(***************************************************************************)
EXTENDS FabricPolicy

CONSTANTS
  RendererOf,    \* the renderer that the platform map gives a device's platform
  Typed,         \* the devices whose platform has a node type there
  EthSlots,      \* the port names of the form eth<n>; none is lo
  OddLoopbacks,  \* the devices whose loopback is called neither lo nor eth<n>
  Seeds,      \* inventories that NetBox may hold at first
  Readdress,  \* sets of addresses an edit may give to a port
  Edited,     \* the devices that edits are about, one or two of a kind
  MaxEdits,   \* bound on the edits of the site
  MaxFaults,  \* bound on the links down and routes leaked at a time
  NoContract  \* expected-state.json does not exist

\* A site as NetBox can hold it: a port takes one cable.
WellFormed(d, p, c) ==
  /\ DOMAIN d \subseteq Names
  /\ \A n \in DOMAIN d : d[n] \in Devices
  /\ DOMAIN p \subseteq (DOMAIN d) \X Slots
  /\ \A i \in DOMAIN p : p[i] \in Ports
  /\ c \subseteq (DOMAIN p) \X (DOMAIN p)
  /\ \A k, l \in c : {k[1], k[2]} \cap {l[1], l[2]} # {} => k = l

ASSUME RendererAssumption ==
  /\ RendererOf \in [Names -> {"frr", "srlinux", "linux_endpoint"}]
  /\ Typed \subseteq Names /\ OddLoopbacks \subseteq Names
  /\ EthSlots \subseteq Slots

ASSUME SeedAssumption == \A s \in Seeds : WellFormed(s.devices, s.ports, s.cables)

ASSUME EditAssumption == Readdress \subseteq SUBSET Addresses /\ MaxEdits \in Nat

ASSUME FiniteAssumption == IsFiniteSet(Names) /\ IsFiniteSet(Slots)

VARIABLES
  edits,    \* edits made so far
  contract, \* expected-state.json of the build that runs
  down,     \* links that are down
  tables,   \* the routes installed in the routers
  leaked    \* routes of the other plane that have got into a router

vars == <<inventory, edits, contract, down, tables, leaked>>

-----------------------------------------------------------------------------
(* compiler/compiler.py, compiler/expected_state.py and the renderers.     *)

\* compile_fabric raises before it has cleared anything: a router with the
\* platform of an endpoint, or the reverse.  What else it asks of platforms, to
\* be mapped and to have the capabilities of the profile, can only refuse more.
Misfit == \E n \in Nodes : n \in Endpoints <=> RendererOf[n] # "linux_endpoint"

EndOf(l, roles) == CHOOSE i \in Ends(l) : RoleAt(i) \in roles
LeafEnd(l) == EndOf(l, {"leaf"})
SpineEnd(l) == EndOf(l, {"spine"})
EndpointEnd(l) == EndOf(l, EndpointRoles)

\* generate_expected_state raises, and so would a renderer on the same grounds.
Ungenerated ==
  \/ \E n \in Routers : devices[n].asn = NoAsn
  \/ \E l \in LinksOf("fabric") :
       \/ EndRoles(l) # {"spine", "leaf"}
       \/ \E i \in Ends(l) : ~Addressed(i)
  \/ \E l \in LinksOf("host") :
       \/ \A r \in EndpointRoles : EndRoles(l) # {"leaf", r}
       \/ \E i \in Ends(l) : ~Addressed(i)
       \/ AddressAt(l.a).pool # AddressAt(l.b).pool
       \/ AddressAt(l.a).network # AddressAt(l.b).network
  \/ \E n \in Endpoints : \A l \in LinksOf("host") : n \notin EndNodes(l)

\* SR Linux has no name for the port.
Unnamed(i) == RendererOf[i[1]] = "srlinux" /\ i[2] \notin EthSlots

\* A renderer raises: on the node type of a platform that has none, or on the
\* name of a link end, an interface with addresses or a loopback on SR Linux.
Unrendered ==
  \/ \E n \in Nodes \cap Typed : RendererOf[n] # "srlinux"
  \/ \E l \in Links : \E i \in Ends(l) : Unnamed(i)
  \/ \E i \in Interfaces : ports[i].addresses # {} /\ Unnamed(i)
  \/ \E n \in Nodes \cap OddLoopbacks : RendererOf[n] = "srlinux"

\* compile_fabric raises after it has cleared the build.
Refused == Ungenerated \/ Unrendered

\* The policy gate raises, or what comes after it.
Rejected == ~Passes \/ Misfit \/ Refused

Side(i) == [node |-> i[1], address |-> AddressAt(i), asn |-> devices[i[1]].asn]

\* Mutant: the first end is taken for the leaf.
AdjacenciesAsCabled ==
  {[leaf |-> Side(l.a), spine |-> Side(l.b)] : l \in LinksOf("fabric")}

Adjacencies ==
  {[leaf |-> Side(LeafEnd(l)), spine |-> Side(SpineEnd(l))] : l \in LinksOf("fabric")}

\* endpoint_prefixes: an endpoint's port in a plane and the leaf it is on.
Attachments ==
  {[port |-> EndpointEnd(l), plane |-> l.plane, address |-> AddressAt(EndpointEnd(l)),
    leaf |-> LeafEnd(l)[1]] : l \in LinksOf("host")}

Prefix(x) == [pool |-> x.address.pool, network |-> x.address.network]

Connected(n, x) == devices[n].role = "leaf" /\ x.leaf = n

\* A remote leaf must see a path over every spine of its plane.
MinNextHops(n, x) ==
  IF Connected(n, x) THEN 0
  ELSE IF devices[n].role = "leaf" THEN SpineCount[devices[n].plane] ELSE 1

RoutesOf(n) ==
  {[router |-> n, plane |-> x.plane, prefix |-> Prefix(x), endpoint |-> x.port[1],
    protocol |-> IF Connected(n, x) THEN "connected" ELSE "bgp",
    hops |-> MinNextHops(n, x)] : x \in {y \in Attachments : y.plane = devices[n].plane}}

RouterPrefixes ==
  UNION {RoutesOf(n) : n \in {m \in Routers : devices[m].plane \in RequiredPlanes}}

Probe(x, y) == [from |-> x, to |-> y]

\* Within a plane, every endpoint is pinged from every other.
Reachability ==
  {Probe(p[1], p[2]) :
     p \in {q \in Attachments \X Attachments :
              /\ q[1].plane \in RequiredPlanes /\ q[2].plane = q[1].plane
              /\ q[1].port[1] # q[2].port[1]}}

\* Across planes, every endpoint is pinged and must not answer.
Isolation ==
  {Probe(p[1], p[2]) :
     p \in {q \in Attachments \X Attachments :
              /\ q[1].plane \in RequiredPlanes /\ q[2].plane \in RequiredPlanes
              /\ q[1].plane # q[2].plane}}

ExpectedState ==
  [bgp |-> Adjacencies, routes |-> RouterPrefixes,
   reachability |-> Reachability, isolation |-> Isolation]

-----------------------------------------------------------------------------
(* The running network: FRR, the kernel, and what fails.                   *)

FarEnd(l, n) == CHOOSE i \in Ends(l) : EndNodes(l) # {n} => i[1] # n

\* The neighbors in a router's configuration, and their state.
Neighbours(n) ==
  {[address |-> AddressAt(FarEnd(l, n)), asn |-> devices[FarEnd(l, n)[1]].asn,
    established |-> l \notin down] : l \in {k \in LinksOf("fabric") : n \in EndNodes(k)}}

Attached(x, dead) == \A l \in dead : x.port \notin Ends(l)

\* The routers that a prefix has reached after k hops over the sessions.
Reached(x, sessions, dead) ==
  LET f[k \in 0 .. Cardinality(Routers)] ==
        IF k = 0 THEN {n \in {x.leaf} : Attached(x, dead)}
        ELSE LET near == f[k - 1] IN
             near \cup UNION {EndNodes(l) : l \in {m \in sessions : EndNodes(m) \cap near # {}}}
  IN  f

\* The route of n, which the prefix reaches, with a next hop for every session
\* on a shortest path.
RouteTo(n, x, sessions, reached) ==
  LET d == CHOOSE k \in DOMAIN reached :
             n \in reached[k] /\ \A j \in 0 .. (k - 1) : n \notin reached[j]
      Before == reached[d - 1]
  IN  [prefix |-> Prefix(x),
       protocol |-> IF d = 0 THEN "connected" ELSE "bgp",
       hops |-> IF d = 0 THEN 0
                ELSE Cardinality({l \in sessions : n \in EndNodes(l) /\ EndNodes(l) \cap Before # {}})]

\* What the routers have installed once the network has converged.
Converged(dead) ==
  LET sessions == LinksOf("fabric") \ dead
      Routes(n) == UNION {LET reached == Reached(x, sessions, dead) IN
                          IF n \in reached[Cardinality(Routers)]
                            THEN {RouteTo(n, x, sessions, reached)} ELSE {} : x \in Attachments}
  IN  [n \in Routers |-> Routes(n)]

Leak(n, x) == [router |-> n, prefix |-> Prefix(x)]

RouteTable(n) ==
  tables[n] \cup {[prefix |-> k.prefix, protocol |-> "bgp", hops |-> 1] :
                    k \in {j \in leaked : j.router = n}}

Known(n, x) == \E r \in RouteTable(n) : r.prefix = Prefix(x)

\* The exit status of one ping: 2 when the source has no network at all.
Ping(p) ==
  IF ~Attached(p.from, down) THEN 2
  ELSE IF Known(p.from.leaf, p.to) /\ Known(p.to.leaf, p.from) THEN 0 ELSE 1

-----------------------------------------------------------------------------
(* verify/bgp.py, verify/routes.py and verify/reachability.py.             *)

\* The routers that are asked.
Asked == UNION {{j.leaf.node, j.spine.node} : j \in contract.bgp}

Sides(j) == {<<j.leaf, j.spine>>, <<j.spine, j.leaf>>}

SessionsPass ==
  /\ \A j \in contract.bgp : \A s \in Sides(j) :
       /\ devices[s[1].node].asn = s[1].asn
       /\ \E m \in Neighbours(s[1].node) :
            m.address = s[2].address /\ m.asn = s[2].asn /\ m.established
  /\ \A n \in Asked : \A m \in Neighbours(n) :
       \E j \in contract.bgp : \E s \in Sides(j) :
         s[1].node = n /\ s[2].address = m.address

\* A route of the pool of another plane, learned by BGP.
Forbidden(n, r) ==
  /\ r.protocol = "bgp"
  /\ \E e \in contract.routes : e.router = n /\ r.prefix.pool \in RequiredPlanes \ {e.plane}

\* Mutant: leaked routes are looked for on spines only.
RoutesPassSpines ==
  /\ \A e \in contract.routes :
       /\ e.router \in Asked
       /\ \E r \in RouteTable(e.router) :
            r.prefix = e.prefix /\ r.protocol = e.protocol /\ r.hops >= e.hops
  /\ \A n \in Asked \cap OfRole({"spine"}) : \A r \in RouteTable(n) : ~Forbidden(n, r)

RoutesPass ==
  /\ \A e \in contract.routes :
       /\ e.router \in Asked
       /\ \E r \in RouteTable(e.router) :
            r.prefix = e.prefix /\ r.protocol = e.protocol /\ r.hops >= e.hops
  /\ \A n \in Asked : \A r \in RouteTable(n) : ~Forbidden(n, r)

PingsPass ==
  /\ \A p \in contract.reachability : Ping(p) = 0
  /\ \A p \in contract.isolation : Ping(p) = 1

\* Two outcomes have one key, and the index raises instead of judging.
Key(p) == <<p.from.port[1], p.from.plane, p.to.address>>

KeysClash ==
  \E p, q \in contract.reachability \cup contract.isolation : p # q /\ Key(p) = Key(q)

Verified == SessionsPass /\ RoutesPass /\ ~KeysClash /\ PingsPass

-----------------------------------------------------------------------------
(* The actions.                                                            *)

Init ==
  /\ \E s \in Seeds : devices = s.devices /\ ports = s.ports /\ cables = s.cables
  /\ edits = 0 /\ contract = NoContract /\ down = {} /\ tables = <<>> /\ leaked = {}

\* People edit NetBox.
Edit ==
  /\ edits' = edits + 1
  /\ UNCHANGED <<contract, down, tables, leaked>>

Uncabled == {i \in DOMAIN ports : \A c \in cables : i # c[1] /\ i # c[2]}

Unplug(c) ==
  /\ Edit
  /\ cables' = cables \ {c}
  /\ UNCHANGED <<devices, ports>>

Plug(i, j) ==
  /\ i \in Uncabled /\ j \in Uncabled /\ i # j
  /\ Edit
  /\ cables' = cables \cup {<<i, j>>}
  /\ UNCHANGED <<devices, ports>>

\* The cable goes, and the ports it was for.
Disconnect(c) ==
  /\ Edit
  /\ cables' = cables \ {c}
  /\ ports' = [i \in DOMAIN ports \ {c[1], c[2]} |-> ports[i]]
  /\ UNCHANGED devices

FreePorts(n) == {s \in Slots : <<n, s>> \notin DOMAIN ports}
FreeNetworks(p) ==
  {k \in Networks : \A i \in DOMAIN ports : \A x \in ports[i].addresses :
     x.pool = p => x.network # k}

\* A cable between two devices with a new port on each, and a new network.
Connect(m, n, p) ==
  /\ m # n
  /\ FreePorts(m) # {} /\ FreePorts(n) # {} /\ FreeNetworks(p) # {}
  /\ Edit
  /\ LET i == <<m, CHOOSE s \in FreePorts(m) : TRUE>>
         j == <<n, CHOOSE s \in FreePorts(n) : TRUE>>
         k == CHOOSE k \in FreeNetworks(p) : TRUE
         role == IF {m, n} \cap Endpoints # {} THEN "host" ELSE "uplink"
         New(h) == [role |-> role, plane |-> p,
                    addresses |-> {[pool |-> p, network |-> k, host |-> h]}]
     IN  /\ ports' = [q \in DOMAIN ports \cup {i, j} |->
                        IF q = i THEN New(0) ELSE IF q = j THEN New(1) ELSE ports[q]]
         /\ cables' = cables \cup {<<i, j>>}
  /\ UNCHANGED devices

ChangePort(i, port) ==
  /\ port # ports[i]
  /\ Edit
  /\ ports' = [ports EXCEPT ![i] = port]
  /\ UNCHANGED <<devices, cables>>

ChangeDevice(n, device) ==
  /\ device # devices[n]
  /\ Edit
  /\ devices' = [devices EXCEPT ![n] = device]
  /\ UNCHANGED <<ports, cables>>

\* A device is deleted with its ports and their cables.
Retire(n) ==
  /\ Edit
  /\ devices' = [m \in Nodes \ {n} |-> devices[m]]
  /\ ports' = [i \in {j \in DOMAIN ports : j[1] # n} |-> ports[i]]
  /\ cables' = {c \in cables : c[1][1] # n /\ c[2][1] # n}

EditSite ==
  /\ contract = NoContract /\ edits < MaxEdits
  /\ \/ \E c \in cables : c[1][1] \in Edited /\ (Unplug(c) \/ Disconnect(c))
     \/ \E i, j \in DOMAIN ports : Plug(i, j)
     \/ \E m, n \in Edited \cap Nodes, p \in {"a", "b"} : Connect(m, n, p)
     \/ \E i \in DOMAIN ports :
          /\ i[1] \in Edited
          /\ \/ \E p \in Planes : ChangePort(i, [ports[i] EXCEPT !.plane = p])
             \/ \E r \in {"uplink", "host", "mgmt", "none"} :
                  ChangePort(i, [ports[i] EXCEPT !.role = r])
             \/ \E s \in Readdress : ChangePort(i, [ports[i] EXCEPT !.addresses = s])
     \/ \E n \in Edited \cap Nodes :
          \/ Retire(n)
          \/ \E p \in Planes : ChangeDevice(n, [devices[n] EXCEPT !.plane = p])
          \/ \E k \in {NoAsn} \cup {devices[m].asn : m \in Edited \cap Nodes} :
               ChangeDevice(n, [devices[n] EXCEPT !.asn = k])

\* Behind the policy gate; the lab is deployed and converges.
Compile ==
  /\ contract = NoContract
  /\ ~Rejected
  /\ contract' = ExpectedState
  /\ tables' = Converged({})
  /\ UNCHANGED <<inventory, edits, down, leaked>>

Faults == Cardinality(down) + Cardinality(leaked)

LinkDown(l) ==
  /\ l \notin down
  /\ down' = down \cup {l}
  /\ tables' = Converged(down')
  /\ UNCHANGED <<inventory, edits, contract, leaked>>

RouteLeaks(n, x) ==
  /\ x.plane # devices[n].plane
  /\ leaked' = leaked \cup {Leak(n, x)}
  /\ UNCHANGED <<inventory, edits, contract, down, tables>>

\* What happens to a network that runs.
NetworkMoves ==
  /\ contract # NoContract /\ Faults < MaxFaults
  /\ \/ \E l \in LinksOf("fabric") \cup LinksOf("host") : LinkDown(l)
     \/ \E n \in Routers, x \in Attachments : RouteLeaks(n, x)

Next == EditSite \/ Compile \/ NetworkMoves

Spec == Init /\ [][Next]_vars

-----------------------------------------------------------------------------
(* Properties.                                                             *)

AdjacencyType ==
  LET Router(role) == [node : OfRole({role}), address : Addresses, asn : Asns]
  IN  [leaf : Router("leaf"), spine : Router("spine")]

TypeOK ==
  /\ WellFormed(devices, ports, cables)
  /\ edits \in 0 .. MaxEdits
  /\ down \subseteq Links
  /\ contract # NoContract =>
       \A j \in contract.bgp : j \in AdjacencyType
  /\ \A k \in leaked : k.router \in Routers

\* What no rule looks at: on SR Linux, interfaces and loopbacks have names
\* that it can map; on any other platform, no node type is configured.
Conventional ==
  /\ \A i \in Interfaces : RendererOf[i[1]] = "srlinux" => i[2] \in EthSlots
  /\ \A n \in Nodes :
       IF RendererOf[n] = "srlinux" THEN n \notin OddLoopbacks ELSE n \notin Typed

\* Beyond those conventions of names and types, a fabric that passes the policy
\* costs no build: the rules cover every case in which the expected state or a
\* renderer raises once the old build has been cleared.
ValidCompiles == Passes /\ Conventional => ~Refused

\* Nothing in an accepted site escapes verification: every endpoint has a probe
\* from every other in every plane and none across planes is missing, and every
\* router is expected to have a route to it.
EverythingIsExpected ==
  contract # NoContract =>
    \A m, n \in Endpoints, p \in RequiredPlanes :
      /\ m # n => \E e \in contract.reachability :
                    e.from.port[1] = m /\ e.to.port[1] = n /\ e.from.plane = p
      /\ \A q \in RequiredPlanes \ {p} :
           \E e \in contract.isolation :
             /\ e.from.port[1] = m /\ e.from.plane = p
             /\ e.to.port[1] = n /\ e.to.plane = q
      /\ \A r \in Routers : devices[r].plane = p =>
           \E e \in contract.routes : e.router = r /\ e.endpoint = n

\* What the policy does not ask: links within one plane by their devices too,
\* and one port per endpoint and plane.
Aligned ==
  \A l \in LinksOf("fabric") \cup LinksOf("host") :
    \A n \in EndNodes(l) \cap Routers : devices[n].plane = l.plane

SingleHomed ==
  \A x, y \in Attachments : x.port[1] = y.port[1] /\ x.plane = y.plane => x = y

\* The contract can be met: the healthy network of an accepted site, if it is
\* aligned and single-homed, passes verification, ECMP included.
HealthyPasses ==
  contract # NoContract /\ Faults = 0 /\ Aligned /\ SingleHomed => Verified

\* And it discriminates: with a link down or a route leaked across planes,
\* verification does not pass.
FaultsAreFound == contract # NoContract /\ Faults > 0 => ~Verified

\* "Every non-management cross-plane link therefore fails PLN003", says
\* docs/policy-rules.md.
CrossPlaneFails ==
  Passes => \A l \in LinksOf("fabric") :
              \A m, n \in EndNodes(l) : devices[m].plane = devices[n].plane
=============================================================================
