---------------------------- MODULE FabricPolicy ----------------------------
(***************************************************************************)
(* A site as NetBox holds it, the fabric the adapter makes of it, and the  *)
(* policy rules that decide whether that fabric may be compiled.           *)
(*                                                                         *)
(* Every address is of a /31, the default of the profile: two addresses to *)
(* a network, a network inside one plane's pool.  The rules about tags,    *)
(* platforms and loopbacks (GEN001, GEN002, GEN004, ADR001) are left out:  *)
(* fewer rules pass more fabrics.  GEN005 and GEN008 cannot fire on what   *)
(* the adapter makes of NetBox, where a port takes one cable, and ADR005   *)
(* compares pools that are disjoint here by their names.                   *)
(***************************************************************************)
EXTENDS Naturals, FiniteSets

CONSTANTS
  Names,          \* device names
  Slots,          \* port names
  Asns,           \* AS numbers
  NoAsn,          \* a device without one
  Networks,       \* the /31s of a pool
  RequiredPlanes, \* required_planes of the profile
  SpineCount      \* spine_count_by_plane of the profile

Planes == {"a", "b", "shared"}

ASSUME PlanesAssumption == RequiredPlanes # {} /\ RequiredPlanes \subseteq {"a", "b"}

ASSUME SpineCountAssumption == SpineCount \in [RequiredPlanes -> Nat \ {0}]

ASSUME AsnAssumption == NoAsn \notin Asns

NetworkRoles == {"spine", "leaf"}
EndpointRoles == {"compute", "storage"}

Devices == [role : NetworkRoles \cup EndpointRoles, plane : Planes, asn : Asns \cup {NoAsn}]

Addresses == [pool : {"a", "b"}, network : Networks, host : {0, 1}]

\* fabric_role may be missing: "none".  A downlink is an uplink to every rule.
Ports == [role : {"uplink", "host", "mgmt", "none"}, plane : Planes,
          addresses : SUBSET Addresses]

VARIABLES
  devices, \* of a site, by name
  ports,   \* of the devices, by device and port name
  cables   \* pairs of ports

inventory == <<devices, ports, cables>>

-----------------------------------------------------------------------------
(* fetch_site and normalize.                                               *)

Nodes == DOMAIN devices
OfRole(roles) == {n \in Nodes : devices[n].role \in roles}
Routers == OfRole(NetworkRoles)
Endpoints == OfRole(EndpointRoles)

\* A port without a fabric_role is ignored, and so is a cable to it.
Interfaces == {i \in DOMAIN ports : ports[i].role # "none"}
Included == {c \in cables : c[1] \in Interfaces /\ c[2] \in Interfaces}

RoleAt(i) == devices[i[1]].role

Kind(c) ==
  IF ports[c[1]].role = "mgmt" /\ ports[c[2]].role = "mgmt" THEN "management"
  ELSE IF RoleAt(c[1]) \in EndpointRoles \/ RoleAt(c[2]) \in EndpointRoles THEN "host"
  ELSE "fabric"

\* A link is of the plane of its first end.
LinkOf(c) == [a |-> c[1], b |-> c[2], plane |-> ports[c[1]].plane, kind |-> Kind(c)]

Links == {LinkOf(c) : c \in Included}
LinksOf(kind) == {l \in Links : l.kind = kind}

Ends(l) == {l.a, l.b}
EndNodes(l) == {l.a[1], l.b[1]}
EndRoles(l) == {RoleAt(l.a), RoleAt(l.b)}

\* Interface addresses that are exactly one.
Addressed(i) == \E x \in ports[i].addresses : ports[i].addresses = {x}
AddressAt(i) == CHOOSE x \in ports[i].addresses : TRUE

-----------------------------------------------------------------------------
(* policy/rules/general.py                                                 *)

GEN003 == \A n \in Routers : devices[n].asn # NoAsn

GEN006 ==
  \A i, j \in Interfaces : i # j => ports[i].addresses \cap ports[j].addresses = {}

GEN007 ==
  \A m, n \in Routers : m # n /\ devices[m].asn # NoAsn => devices[m].asn # devices[n].asn

-----------------------------------------------------------------------------
(* policy/rules/plane.py                                                   *)

PLN001 == \A n \in Routers : devices[n].plane \in RequiredPlanes

HostPorts(n) == {i \in Interfaces : i[1] = n /\ ports[i].role = "host"}

PLN002 == \A n \in Endpoints : \A i \in HostPorts(n) : ports[i].plane \in RequiredPlanes

PLN003 ==
  \A l \in LinksOf("fabric") \cup LinksOf("host") :
    /\ l.plane \in RequiredPlanes
    /\ \A i \in Ends(l) : ports[i].plane = l.plane

\* Mutant: one interface in any of the planes is enough.
PLN004Any ==
  \A n \in Endpoints : \E i \in HostPorts(n) : ports[i].plane \in RequiredPlanes

PLN004 ==
  \A n \in Endpoints, p \in RequiredPlanes : \E i \in HostPorts(n) : ports[i].plane = p

LeavesOf(n, p) ==
  {m \in OfRole({"leaf"}) : \E l \in LinksOf("host") : l.plane = p /\ EndNodes(l) = {n, m}}

PLN005 ==
  \A n \in Endpoints : \A p, q \in RequiredPlanes :
    p # q => LeavesOf(n, p) \cap LeavesOf(n, q) = {}

-----------------------------------------------------------------------------
(* policy/rules/clos.py                                                    *)

InPlane(role, p) == {n \in OfRole({role}) : devices[n].plane = p}

Uplinks(leaf, p) ==
  {l \in LinksOf("fabric") : l.plane = p /\ leaf \in EndNodes(l) /\ "spine" \in EndRoles(l)}

SpineNeighbours(leaf, p) ==
  {s \in OfRole({"spine"}) : \E l \in LinksOf("fabric") : l.plane = p /\ EndNodes(l) = {leaf, s}}

\* Mutant: the spines are counted and the uplinks are not.
CLS001Spines ==
  \A p \in RequiredPlanes : Cardinality(InPlane("spine", p)) = SpineCount[p]

CLS001 ==
  \A p \in RequiredPlanes :
    /\ Cardinality(InPlane("spine", p)) = SpineCount[p]
    /\ \A leaf \in InPlane("leaf", p) :
         /\ SpineNeighbours(leaf, p) = InPlane("spine", p)
         /\ Cardinality(Uplinks(leaf, p)) = SpineCount[p]

CLS002 == \A l \in LinksOf("fabric") : EndRoles(l) = {"spine", "leaf"}

CLS003 ==
  \A l \in LinksOf("host") :
    /\ "leaf" \in EndRoles(l) /\ EndRoles(l) \cap EndpointRoles # {}
    /\ \A i \in Ends(l) : ports[i].role = "host"

\* Mutant: a host interface without a link is let pass.
CLS004AtMost ==
  \A i \in Interfaces :
    ports[i].role = "host" => Cardinality({l \in LinksOf("host") : i \in Ends(l)}) <= 1

CLS004 ==
  \A i \in Interfaces :
    ports[i].role = "host" => Cardinality({l \in LinksOf("host") : i \in Ends(l)}) = 1

CLS005 == \A n \in Routers : \E l \in LinksOf("fabric") : n \in EndNodes(l)

-----------------------------------------------------------------------------
(* policy/rules/addressing.py                                              *)

ValidP2P(l) ==
  /\ Addressed(l.a) /\ Addressed(l.b)
  /\ LET x == AddressAt(l.a)
         y == AddressAt(l.b)
     IN  x.pool = y.pool /\ x.network = y.network /\ x.host # y.host

ADR002 == \A l \in LinksOf("fabric") : ValidP2P(l)

\* Mutant: the ends of a host link are not compared.
ADR003Apart == \A l \in LinksOf("host") : Addressed(l.a) /\ Addressed(l.b)

ADR003 == \A l \in LinksOf("host") : ValidP2P(l)

ADR006 ==
  \A i \in Interfaces :
    ports[i].role # "mgmt" /\ ports[i].plane \in RequiredPlanes =>
      \A x \in ports[i].addresses : x.pool = ports[i].plane

-----------------------------------------------------------------------------

\* The report has no finding of severity error.
Passes ==
  /\ GEN003 /\ GEN006 /\ GEN007
  /\ PLN001 /\ PLN002 /\ PLN003 /\ PLN004 /\ PLN005
  /\ CLS001 /\ CLS002 /\ CLS003 /\ CLS004 /\ CLS005
  /\ ADR002 /\ ADR003 /\ ADR006
=============================================================================
