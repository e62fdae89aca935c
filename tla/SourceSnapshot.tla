--------------------------- MODULE SourceSnapshot ---------------------------
(***************************************************************************)
(* aftwin validate while aftwin seed runs: the source snapshot of a site   *)
(* is put together from one request after another, and NetBox changes      *)
(* between any two of them.  What was read becomes a fabric, and the       *)
(* policy (FabricPolicy, over what was read) says whether it may be        *)
(* compiled.                                                               *)
(*                                                                         *)
(* The site is the one that every seeder's fixture describes, and the      *)
(* variables of FabricPolicy hold what has been read of it.  The records   *)
(* that match one address are numbered, so that an interface on which an   *)
(* address was made twice has two.                                         *)
(***************************************************************************)
EXTENDS NetBoxSeeder, FabricPolicy, SequencesExt

CONSTANT Fixture  \* devices and links, in file order: names and slots are unique

VARIABLES
  reader,  \* the request of fetch_site that comes next
  accepted \* validation found no error in the snapshot

readVars == <<inventory, reader, accepted>>
vars == <<seedVars, readVars>>

-----------------------------------------------------------------------------
(* NetBoxSeeder.seed: the ensure calls for a fixture, in their order.      *)

SiteKey == <<"sites">>
TagKey == <<"tags">>
FieldsKey == <<"custom_fields">>
RoleKey(d) == <<"device_roles", d.role>>
PlatformKey(d) == <<"platforms", d.platform>>
AsnKey(d) == <<"asns", d.asn>>
DeviceKey(d) == <<"devices", d.name>>
InterfaceKey(d, p) == <<"interfaces", d.name, p.slot>>
AddressKey(d, p, x) == <<"ip_addresses", d.name, p.slot, x>>
CableKey(l) == <<"cables", {l.a, l.b}>>

FirstUses(s) == FoldLeft(LAMBDA seq, o : IF Contains(seq, o) THEN seq ELSE Append(seq, o), <<>>, s)

\* The choice sets, the custom fields, the manufacturer and the registry are
\* one object here, and so are a platform and its device type.
Common(f) ==
  <<SiteKey, TagKey, FieldsKey>>
  \o FirstUses(FlattenSeq([k \in DOMAIN f.devices |->
                            <<RoleKey(f.devices[k]), PlatformKey(f.devices[k])>>]))

InterfaceCalls(d, p) ==
  <<InterfaceKey(d, p)>> \o [k \in DOMAIN p.addresses |-> AddressKey(d, p, p.addresses[k])]

DeviceCalls(d) ==
  (IF d.asn = NoAsn THEN <<>> ELSE <<AsnKey(d)>>)
  \o <<DeviceKey(d)>>
  \o FlattenSeq([k \in DOMAIN d.ports |-> InterfaceCalls(d, d.ports[k])])

EnsureCalls(f) ==
  Common(f)
  \o FlattenSeq([k \in DOMAIN f.devices |-> DeviceCalls(f.devices[k])])
  \o [k \in DOMAIN f.links |-> CableKey(f.links[k])]

\* NetBox constrains every key but that of an address, which another interface
\* may have too.
Unique == {o \in Objects : o[1] # "ip_addresses"}

\* Every command seeds the same fixture.
ASSUME FixtureAssumption ==
  /\ Fixture.devices \in Seq(ToSet(Fixture.devices))
  /\ Fixture.links \in Seq(ToSet(Fixture.links))
  /\ \A d \in ToSet(Fixture.devices) :
       /\ d.ports \in Seq(ToSet(d.ports))
       /\ \A p \in ToSet(d.ports) : p.addresses \in Seq(ToSet(p.addresses))
  /\ ToSet(EnsureCalls(Fixture)) \subseteq Objects
  /\ \A s \in Seeders : Order[s] = EnsureCalls(Fixture)
  /\ Constrained = Unique

-----------------------------------------------------------------------------
(* NetBoxAdapter.fetch_site.                                               *)

FixtureDevices == ToSet(Fixture.devices)
InNetBox(o) == records[o] > 0

Await(step) == reader' = [step |-> step, device |-> 0, ports |-> {}]

\* The requests for the next of the devices selected, in NetBox's order.
NextDevice(names) ==
  LET rest == {k \in DOMAIN Fixture.devices :
                 k > reader.device /\ Fixture.devices[k].name \in names}
  IN  IF rest = {} THEN Await("cables")
      ELSE reader' = [step |-> "interfaces", device |-> Min(rest), ports |-> {}]

\* One request for the addresses of each of the interfaces listed.
NextPort(slots) ==
  IF slots = {} THEN NextDevice(Nodes)
  ELSE reader' = [reader EXCEPT !.step = "addresses", !.ports = slots]

Current == Fixture.devices[reader.device]

Forget == devices' = <<>> /\ ports' = <<>> /\ cables' = {}

StartRead ==
  /\ reader.step = "idle"
  /\ Await("site")
  /\ Forget
  /\ accepted' = FALSE

\* A site that is not there is an error.
ReadSite ==
  /\ reader.step = "site"
  /\ Await(IF InNetBox(SiteKey) THEN "devices" ELSE "idle")
  /\ UNCHANGED <<inventory, accepted>>

ReadDevices ==
  /\ reader.step = "devices"
  /\ LET found == {d \in FixtureDevices : InNetBox(DeviceKey(d))}
         names == {d.name : d \in found}
         Named(n) == CHOOSE d \in found : d.name = n
     IN  /\ devices' = [n \in names |-> [role |-> Named(n).role, plane |-> Named(n).plane,
                                         asn |-> Named(n).asn]]
         /\ NextDevice(names)
  /\ UNCHANGED <<ports, cables, accepted>>

ReadInterfaces ==
  /\ reader.step = "interfaces"
  /\ NextPort({k \in DOMAIN Current.ports : InNetBox(InterfaceKey(Current, Current.ports[k]))})
  /\ UNCHANGED <<inventory, accepted>>

\* The records of every address of the port, numbered.
AddressRecords(d, p) ==
  UNION {{[x EXCEPT !.record = k] : k \in 1 .. records[AddressKey(d, p, x)]} : x \in ToSet(p.addresses)}

PortRecord(p, addresses) == [role |-> p.role, plane |-> p.plane, addresses |-> addresses]

\* An interface enters the snapshot together with its addresses.
ReadAddresses ==
  /\ reader.step = "addresses"
  /\ LET k == Min(reader.ports)
         p == Current.ports[k]
         here == <<Current.name, p.slot>>
     IN  /\ ports' = [i \in DOMAIN ports \cup {here} |->
                        IF i = here THEN PortRecord(p, AddressRecords(Current, p)) ELSE ports[i]]
         /\ NextPort(reader.ports \ {k})
  /\ UNCHANGED <<devices, cables, accepted>>

\* fetch_site leaves out a cable with an end that was not read.
Selected(l) == {l.a, l.b} \subseteq DOMAIN ports

\* Mutant: the cables of the site are taken as they are.
ReadCablesUnselected ==
  /\ reader.step = "cables"
  /\ cables' = {<<l.a, l.b>> : l \in {m \in ToSet(Fixture.links) : InNetBox(CableKey(m))}}
  /\ Await("validate")
  /\ UNCHANGED <<devices, ports, accepted>>

ReadCables ==
  /\ reader.step = "cables"
  /\ cables' = {<<l.a, l.b>> : l \in {m \in ToSet(Fixture.links) : InNetBox(CableKey(m)) /\ Selected(m)}}
  /\ Await("validate")
  /\ UNCHANGED <<devices, ports, accepted>>

\* normalize and validate, without another look at NetBox.
Validate ==
  /\ reader.step = "validate"
  /\ Await("idle")
  /\ accepted' = Passes
  /\ UNCHANGED inventory

\* Any request may fail, and the command with it.
ReadFails ==
  /\ reader.step \notin {"idle", "validate"}
  /\ Fault
  /\ Await("idle")
  /\ Forget
  /\ UNCHANGED <<accepted, records, late, seeder, seeded, calm>>

ReadStep ==
  ReadSite \/ ReadDevices \/ ReadInterfaces \/ ReadAddresses \/ ReadCables \/ Validate

Init ==
  /\ SeedInit
  /\ devices = <<>> /\ ports = <<>> /\ cables = {}
  /\ reader = [step |-> "idle", device |-> 0, ports |-> {}]
  /\ accepted = FALSE

Seeding(s) == (StartSeed(s) \/ SeedStep(s)) /\ UNCHANGED readVars
Reading == (StartRead \/ ReadStep) /\ UNCHANGED seedVars

Next ==
  \/ SeedNext /\ UNCHANGED readVars
  \/ Reading
  \/ ReadFails

Spec == Init /\ [][Next]_vars

-----------------------------------------------------------------------------

\* What normalize looks up is there, though it was read at different moments:
\* the device of every interface, and both interfaces of every cable.
SnapshotCloses ==
  /\ \A i \in DOMAIN ports : i[1] \in Nodes
  /\ \A c \in cables : c[1] \in DOMAIN ports /\ c[2] \in DOMAIN ports

\* The snapshot is the whole fixture, every address once.
Whole ==
  /\ Nodes = {d.name : d \in FixtureDevices}
  /\ cables = {<<l.a, l.b>> : l \in ToSet(Fixture.links)}
  /\ \A d \in FixtureDevices : \A p \in ToSet(d.ports) :
       /\ <<d.name, p.slot>> \in DOMAIN ports
       /\ ports[<<d.name, p.slot>>].addresses = {[x EXCEPT !.record = 1] : x \in ToSet(p.addresses)}

-----------------------------------------------------------------------------
(* Which fixtures show, after any part of their seeding, that the rest is  *)
(* missing.                                                                *)

InterfaceOf(d, p) == <<d.name, p.slot>>
InterfacesOf(d) == {InterfaceOf(d, p) : p \in ToSet(d.ports)}

FixtureLinks == ToSet(Fixture.links)
LinkEnds(l) == {l.a, l.b}

Distinct ==
  /\ \A j, k \in DOMAIN Fixture.devices : Fixture.devices[j].name = Fixture.devices[k].name => j = k
  /\ \A d \in FixtureDevices : \A p, q \in ToSet(d.ports) : p.slot = q.slot => p = q
  /\ \A l, m \in FixtureLinks : LinkEnds(l) \cap LinkEnds(m) # {} => l = m

\* Every port has one address and a link.
Linked ==
  \A d \in FixtureDevices : \A p \in ToSet(d.ports) :
    /\ p.role \in {"uplink", "host"}
    /\ \E x \in ToSet(p.addresses) : ToSet(p.addresses) = {x}
    /\ \E l \in FixtureLinks : InterfaceOf(d, p) \in LinkEnds(l)

HostPortsOf(d) == {InterfaceOf(d, p) : p \in {q \in ToSet(d.ports) : q.role = "host"}}

\* The links of a device that are between routers.
RouterLinks(d) ==
  {l \in FixtureLinks :
     /\ d.name \in {l.a[1], l.b[1]}
     /\ \A e \in FixtureDevices : e.name \in {l.a[1], l.b[1]} => e.role \notin EndpointRoles}

\* A link has a host port, or is one of those that are counted at a leaf.
Counted ==
  \A l \in FixtureLinks : \E d \in FixtureDevices :
    \/ HostPortsOf(d) \cap LinkEnds(l) # {}
    \/ /\ d.role = "leaf" /\ d.plane \in RequiredPlanes
       /\ l \in RouterLinks(d) /\ Cardinality(RouterLinks(d)) <= SpineCount[d.plane]

\* A device before the m-th has a host port that is linked with none but those lost.
Misses(m, lost) ==
  \E k \in 1 .. m - 1 : \E i \in HostPortsOf(Fixture.devices[k]) :
    \A l \in FixtureLinks : i \in LinkEnds(l) => LinkEnds(l) \cap lost # {}

SpinesAmong(m, p) ==
  {d.name : d \in {Fixture.devices[k] : k \in {j \in 1 .. m : Fixture.devices[j].role = "spine"
                                                        /\ Fixture.devices[j].plane = p}}}

\* If the m-th device is the last that is there, either there are too few
\* spines or there is a host port with nothing at the other end.
Telling ==
  LET last == Len(Fixture.devices) IN
    /\ \A m \in 0 .. last - 1 :
         \/ \E p \in RequiredPlanes : Cardinality(SpinesAmong(m, p)) # SpineCount[p]
         \/ Misses(m, UNION {InterfacesOf(Fixture.devices[k]) : k \in m + 1 .. last})
    /\ \A i \in InterfacesOf(Fixture.devices[last]) : Misses(last, {i})

Checkable == Distinct /\ Linked /\ Counted /\ Telling

-----------------------------------------------------------------------------

\* A snapshot torn by a seed under way, or read after one that stopped or was
\* doubled, does not get past validation: what passes is the whole fixture.
AcceptedIsWhole == accepted => Whole

\* The operator repeats a seed, and validates again and again.  A reader has a step
\* to take in every state, so that this is the weak fairness of Reading, too.
FairSpec ==
  /\ Spec
  /\ []<><<Reading>>_reader
  /\ \A s \in Seeders : WF_seeder(Seeding(s))

\* A seed that stopped part way is completed by running it again: unless a late
\* create came between, validation ends up passing.
SeedCompletes == []calm => []<>accepted
=============================================================================
