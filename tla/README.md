# A TLA+ specification of the AI factory network twin

This directory models `aftwin` (`src/src/aftwin`), the tool that turns a NetBox
site into a Containerlab lab, deploys it, verifies it against the generated
expected state and breaks it on purpose. The modules say what the build
directory, the running lab and the reports beside them must have to do with each
other while commands fail, are killed, or overlap; TLC checks that on small
instances, and TLAPS proves the central results for every instance.

Paths below are relative to the repository's root unless they start with
`src/src/aftwin`; line numbers are those of the modelled commit.

## 1. The system

### Inventory

| part | state it keeps | operations | what makes it correct |
|---|---|---|---|
| NetBox adapter (`netbox/adapter.py`, `client.py`) | none; writes `source/netbox.json` | `fetch_site`, `save_snapshot`, `normalize` | the snapshot is one site's data, and malformed data is rejected before anything is generated |
| Policy engine (`policy/`) | none; its report is `reports/static-validation.json` | `validate` | a fabric with an error-level finding does not pass |
| Compiler (`compiler/compiler.py`, `expected_state.py`, `manifest.py`) | the build directory: configurations, `topology.clab.yml`, `expected-state.json`, `inventory.json`, `manifest.json` | `compile_fabric`: check, clear, generate, hash, publish | an intact directory is one whole build of one validated input |
| Lifecycle (`runtime/lifecycle.py`) | `runtime/deployment.json` (the stamp) and, through Containerlab, the lab | compile guard, `deploy`, `destroy`, identity gate | nothing unvalidated runs; a stamp vouches for what runs; teardown is always possible |
| Containerlab, Docker (`runtime/containerlab.py`, `executor.py`, `images.py`) | the containers (external) | `deploy`, `destroy`, `inspect`, `exec`, image preflight | failures and timeouts are reported, not hidden |
| Runtime verifier (`verify/`) | `reports/runtime-verification.json` | gate, readiness, BGP, routes, pings, report | a report belongs to the build and the lab it names |
| Scenario runner (`scenario/`) | administrative state of interfaces in the containers; `reports/scenarios/*.json` | baseline, inject, survive, restore, recover, report | a pass is earned; whatever is taken down is put up again or reported |
| Batfish assurance (`assure/`) | `reports/batfish-assurance.json` | `run_assurance` | what Batfish does not understand does not pass |
| NetBox seeder (`netbox/seeder.py`) | NetBox records | `seed`, idempotent per record | running it again completes a seed and duplicates nothing |
| Renderers and backends (`render/`, `backend/`) | none | text out, router output in | pure conversions; they raise only on what the policy or a convention of names excludes |
| Command line (`cli.py`) | none | the order of the calls above | a command stops at the first thing that fails |

The parts interact through the file system and through Containerlab, never
through memory: each `aftwin` command is a process of its own. There is no lock
anywhere. So what is hard here is what lies *between* two commands, or between
two steps of one:

* a command that raises or is killed between two writes, or while it cleans up
  after an error, and what the next command makes of the directory it finds;
* a Containerlab call that fails or times out after part of its work;
* a check (of the manifest, of the stamp, of the fault) whose result is used
  minutes later;
* a `finally` block that fails or is interrupted itself;
* two commands at once.

The same holds of NetBox, which the seeder and the adapter talk to in many
requests without a transaction around them.

`PROJECT.json` lists these hazards at their lines, with the properties that
cover them, or the reason why none does yet.

## 2. The modules

| module | what it is |
|---|---|
| `LabLifecycle` | one site's directory, lab and reports, and every command that touches them |
| `SiteContract` | what the directory promises its readers; `LabLifecycle` implements it |
| `MCLabLifecycle` | instances for TLC |
| `LabLifecycleGate`, `LabLifecycleDirectory`, `LabLifecycleIdentity` | proofs about `LabLifecycle` |
| `ScenarioRunner` | the inside of `aftwin scenario run`: faults, polls, the `finally` block, the report |
| `MCScenarioRunner` | instances for TLC |
| `ScenarioRunnerProofs`, `ScenarioRunnerFault` | proofs about `ScenarioRunner` |
| `RuntimeVerifier` | the inside of `aftwin verify`: convergence loops, deadlines, the thread pool, the verdict |
| `RuntimeVerifierProofs` | proofs about `RuntimeVerifier` |
| `FabricPolicy` | a site as NetBox holds it, the fabric the adapter makes of it, and the policy rules |
| `FabricContract` | extends `FabricPolicy`: expected state, the network it describes, and what verification makes of it |
| `BatfishAssurance` | extends `FabricContract`: what `aftwin assure` makes of Batfish's answers |
| `MCFabricContract` | an instance of `BatfishAssurance`, and so of `FabricContract`, for TLC |
| `FabricContractProofs` | proofs about `FabricContract` and `BatfishAssurance` |
| `NetBoxSeeder` | `aftwin seed`: ensure calls, one record after another, and NetBox's side of them |
| `SourceSnapshot` | composes `NetBoxSeeder` with `FabricPolicy`: `aftwin validate` while a site is being seeded |
| `MCSourceSnapshot` | fixtures and instances for TLC |
| `SourceSnapshotProofs` | proofs about `NetBoxSeeder` and `SourceSnapshot` |

How they fit together: `LabLifecycle` treats `verify` and `scenario run` as
commands that pass the gate, observe and report; `RuntimeVerifier` and
`ScenarioRunner` are what happens between gate and report. `RuntimeVerifier`
knows of each router and probe only whether it is as expected; `FabricContract`
says what is expected, and whether that is the right thing to expect. That
nothing runs unvalidated is a matter of `LabLifecycle`, what validation is worth
one of `FabricPolicy`. `LabLifecycle` takes a fetch to be one look at the inputs;
`SourceSnapshot` takes it apart into its requests and asks what the policy makes
of a snapshot put together while NetBox changes. `BatfishAssurance` reads the
state of `FabricContract` once more, through Batfish's answers instead of the
routers'; the command around it is in `LabLifecycle`.

### LabLifecycle

State and code:

| variable | code |
|---|---|
| `intent` | what NetBox, the policy profile and the platform map say now; edited by people at any time (`ChangeIntent`) |
| `disk` | the artifacts. `source`, `report` and `topology` are single files; `rest` is the configurations, `expected-state.json` and `inventory.json`, which are written after the topology and are never looked at separately by the control flow |
| `manifest` | `manifest.json`; the record (the input and the digests) stands for the build hash |
| `stamp` | `runtime/deployment.json`, written with `os.replace`, hence atomically |
| `evidence` | for `verify`, `scenario` and `assure`: the build hash in the report, or that there is none |
| `lab` | for every container: absent, or the files it was created from and whether it is running |
| `job` | for every command in progress: its step and its local variables |
| `retired`, `faults` | bookkeeping for the bounds `Reverts` and `MaxFaults` |

A command is a record in `job[p]` whose `step` says where it is. One action is
one write to the directory, one Containerlab call, or one block of checks that
the code makes without writing in between. Where a block of checks is followed
by a use, they are different actions, so that anything may happen in between.
The actions follow the code in this order:

* `validate`, `compile` and the first half of `lab up` (`cli.py:87-171,225-245`,
  `compiler.py:83-224`): `Guard` (`lab up` only), `Fetch`, `WriteReport`,
  `ClearRest`, `ClearTopology`, `ClearManifest`, `ClearEvidence`,
  `WriteTopology`, `WriteRest`, `DigestFiles`, `WriteManifest`. Every one that
  can raise has a disjunct that ends the command, the removals of
  `_clear_generated` included: configurations may then be gone and the rest not,
  or the first of the reports and not the others (`Forgotten`).
* `deploy`, `deploy --reconfigure` and the second half of `lab up`
  (`lifecycle.py:214-281`): `CheckIntegrity`, `CheckPlan`, `CheckBefore`,
  `RunDeploy`, then `CheckAfter` and `WriteStamp`, or one of the failure paths:
  `DropStamp`, `Cleanup` (stamp first) when Containerlab failed, and `Abort`,
  `AbortStamp` (containers first) when the inspection afterwards or the writing
  of the stamp failed. Nothing guards the unlink of `_remove_deployment_stamp`
  (`lifecycle.py:499`). Where it raises, the command ends at that point
  (`BreakOff`) with the stamp in place, and in `DropStamp` without a cleanup. At
  line 275 that is likely: the command is there because it could not write to the
  same directory.
* `lab down` (`lifecycle.py:283-306`): `Down`, `RunDestroy`, `CheckDown`,
  `RemoveStamp`, which may break off in the same way.
* `verify` and `scenario run` (`cli.py:190-206,273-300`, `lifecycle.py:308-362`,
  `verifier.py:126-173`, `runner.py:81-198`): `Attach`, then the gate in two
  steps, `CheckIdentity` (files) and `CheckRuntime` (containers), then `Verify`;
  a scenario keeps the build of its first gate in `base`, passes the gate again
  for its `Baseline`, and then for every poll and for the recovery (`Observe`,
  the gate, `Observed`), until it publishes under `base` (`Conclude`). The
  middle gate of `_validate_expectations`, which can only refuse, is merged with
  that of the baseline. The number and the order of polls are left open here;
  they are `ScenarioRunner`'s matter.
* `assure` (`cli.py:209-222`, `assure/runner.py:110-156`): `CheckBuild` verifies
  the manifest and keeps it, `Assure` comes back from Batfish, or raises, and
  writes its report under that manifest. It looks at no lab and takes no stamp.
  `ClearEvidence` removes its report with the others (`compiler.py:98-104`).
* Containerlab is external. `ContainerlabDeployed` creates every node of the
  topology and may leave a container that is outside of it (a reconfiguration to
  a smaller topology); `ContainerlabDeployFailed` may have created any of the
  nodes and removed any of the old ones; `ContainerlabDestroy` may remove any.
  A container's process may end at any time (`ContainerExits`). This is what the
  code allows for: it inspects after every call and compares the exact set of
  names.
* `Kill` ends a command between two of its steps, by SIGKILL or by a
  `KeyboardInterrupt`, which nothing in the lifecycle code catches. Kills and
  stamps that cannot be removed are the `faults`, which `MaxFaults` bounds; all
  other failures are unbounded.

What is abstracted: contents are digests (SHA-256 is taken as injective on the
contents that occur); which input produces which digests, which topologies name
which nodes, and which reports passed are constants (`Content`, `NamesOf`,
`PassedReports`). Hence two inputs may have the same topology file and different
addresses, or the same snapshot and different platform maps, which is what the
identity checks have to tell apart. Single writes are atomic; a file half
written by a killed process would have a digest of its own, which no manifest
names. `configs/` and the other members of `rest` are cleared in one step before
the topology; the two of them that the code clears right after it
(`expected-state.json`, `inventory.json`) are never read without the topology.

### SiteContract and the refinement

`SiteContract` is the directory as its readers see it: `published`, a whole
build or none, and `reports`. A build is withdrawn before another is published
(`Publish`, `Withdraw`), never replaced in place; reports are forgotten only
while nothing is published (`Forget`), and a report is written only for the
build that is published (`Report`). `LabLifecycle` implements it with
`published` mapped to the manifest if the directory is intact
(`load_verified_manifest` accepts it) and to none otherwise, and `reports` to
`evidence`. Checked by TLC (`HonoursContract`) and proved (`ContractHolds`).

### ScenarioRunner

One run per element of `Runners`; `Target[r]` is the sequence of interfaces it
takes down (`_target_interfaces`). The shared state is `admin` (the
administrative state `ip link` sets and shows) and `session` (BGP over the
interface, which follows with a delay: `Converge`). Every command in a container
may succeed, fail, or fail although it was carried out (`SetFailed`: a timeout
of `containerlab exec`). The fields of `run[r]` are the local variables of
`ScenarioRunner.run` (`runner.py:104-108`) as counts; the four phases of the
report are computed from them as the code does (`During`, `After`), and the
validators of `scenario/report.py` are `Valid` and `Writable`. `Interrupt` is a
`KeyboardInterrupt`: between the first fault and the survival check it runs the
`finally` block and is raised again behind it; anywhere else it ends the run.

Left out: effects of a timed-out command that come later than the command's
failure; an `OSError` when the report is written; SIGKILL (it is an interrupt
without the `finally` block, and `LeftDownIsReported` fails under the weaker
interrupt already); which of the expected probes fail.

### RuntimeVerifier

One process at a time runs `verify` or `verify_connectivity`
(`verifier.py:126-157`) over and over while the network moves (`Change`).

| variable | code |
|---|---|
| `net` | for the layers `bgp`, `routes`, `pings`, which routers or probes are as expected; the comparison itself is `FabricContract`'s |
| `step`, `activity` | where the run is: `readiness`, the two loops, the pings, the report; and in a loop, at its top, in the pool or asleep |
| `todo`, `running`, `answers` | the jobs of one `_parallel` call (`verifier.py:229-231`): submitted, in flight, come back. Sets, because no property depends on the order in which workers take them up |
| `pending`, `expired`, `observed` | local variables of `_wait_for_readiness`, `_wait_for_bgp`, `_wait_for_routes`; `expired` says that `time.monotonic()` has passed the deadline |
| `found`, `report` | what the loops returned, and the last report written |
| `interrupted` | a `KeyboardInterrupt` that waits for the pool to shut down |
| `worsened`, `flawed` | history: whether something that is checked got worse, or was wrong, during this run. No action reads them |

A job looks at its device at a moment of its own (`Take`, `Answer`), and comes
back with the state, or with a failure. The pool hands on the first failure and
cancels what is not begun (`Cancel`). Each of the loops has its `Judge`, with
the guards and returns of the code. `last_error` is no variable: where the code
raises it, the poll that has set it is the one that has just ended. Which
routers have a readiness command is a matter of the build, hence any subset of
`Probed` at each `Start`.

### FabricPolicy and FabricContract

A site is `devices`, `ports` and `cables`. What the code computes from it are
operators, each translated from one function:

| operators | code |
|---|---|
| `Interfaces`, `Included`, `Kind`, `LinkOf` | the adapter: ports without a role and cables to them are dropped, a link has the plane of its first end, its kind follows from roles (`adapter.py:164-403`) |
| `GEN003` to `ADR006`, `Passes` | the policy rules of these names (`policy/rules/`) |
| `Misfit` | what `compile_fabric` raises on before it clears anything: a router with the renderer of an endpoint, or the reverse (`compiler.py:147-157`) |
| `Refused` | what it raises on afterwards: `Ungenerated`, in generating the expected state (`expected_state.py`), and `Unrendered`, in rendering: a port or loopback name that SR Linux has no mapping for (`render/srlinux.py:14-27`), a node type on another platform (`backend/frr.py:65`, `backend/linux_endpoint.py:38`) |
| `Adjacencies`, `Attachments`, `RouterPrefixes`, `Reachability`, `Isolation` | `_bgp_adjacencies`, `_endpoint_prefixes`, `_router_prefixes`, `_reachability`, `_isolation` |
| `Neighbours`, `Converged`, `Ping` | the network that the rendered configurations make: a session on every link that is up, routes over all shortest paths (`maximum-paths 64`, `multipath-relax`), a VRF per plane in the endpoints. External |
| `SessionsPass`, `RoutesPass`, `PingsPass`, `KeysClash`, `Verified` | `verify_bgp`, `verify_routes`, `verify_reachability`, `_outcome_index`, the verdict |

A site is edited (`EditSite`: cables unplugged, plugged, moved or added, ports
and devices changed, a device retired) until it is compiled (`Compile`, behind
the policy gate); then links go down (`LinkDown`) and routes leak into routers
of the other plane (`RouteLeaks`).

Abstracted: an address is a pool, a /31 in it and one of two hosts (the default
prefix lengths of the profile; with a longer-than-link prefix for hosts, two
links could share a subnet). Pools of different planes are disjoint, which
`ADR005` demands. Loopbacks, tags and platforms are left out, with their rules:
what passes the full set of rules passes these, so that a property of what
passes here holds of what passes there. Of platforms and loopbacks only what a
renderer raises on is there, as constants: the renderer of every device
(`RendererOf`), which have a node type (`Typed`) or a loopback by another name
than `lo` (`OddLoopbacks`), and which port names are of the form `eth<n>`
(`EthSlots`). A renderer also raises on a router without a loopback, which
`GEN004` excludes. The other checks before the clearing, that a platform is
mapped and has the capabilities the profile requires, are left out: they can only
refuse more. Up to 64 spines (`maximum-paths`) are assumed. A router's route is
identified by its prefix.

### BatfishAssurance

The variables are those of `FabricContract`, with another reading: a link that is
down is one that the configurations fail to bring up, a leaked route one that
they leak. Batfish is external. `SessionRows` and `RouteRows` are its answers
when it has taken in the configurations of the routers in `read`; they are
derived from the network the configurations make, so that what is asked here is
not whether Batfish is right but what the code makes of its answers. It is asked
only if every router is FRR (`Assurable`, `assure/runner.py:79`); otherwise there
is an error and no report. `CheckParse`,
`CheckSessions`, `CheckRoutes`, `CheckIsolation` and `Assured` are the questions
of `assure/questions.py` and the verdict of `assure/runner.py`. `ReadExcept(n)` is
every answer about the files when nothing was taken in from that of `n`: an
accepted status, a rejected one, one that the code does not know, or no row at
all. No configuration that is modelled makes a forwarding loop, hence
`check_loops` has nothing to find.

### NetBoxSeeder and SourceSnapshot

| variable | code |
|---|---|
| `records` | for every object of a fixture, by natural key: how many records of NetBox match it. That is all `ensure` (`client.py:56-63`) and the adapter can tell, since nothing updates or deletes a record |
| `late` | creates whose client has gone, and which NetBox has still to handle |
| `seeder` | for every `aftwin seed`: idle, about to look up, or about to create, and its position in the fixture |
| `seeded` | the commands that reported success |
| `calm`, `faults` | history, and the bound on failures |
| `reader` | for `aftwin validate`: the request of `fetch_site` that is next, the device at hand, and the interfaces listed whose addresses are still to be read |
| `devices`, `ports`, `cables` | those of `FabricPolicy`: what has been read |
| `accepted` | validation found no error |

`Lookup` and `Create` are the two halves of `ensure`, two requests with anything
in between. NetBox refuses a second record of everything but an IP address
(`Constrained`, `Unique`): two interfaces may have the same one. A command fails
before its request reaches NetBox (`Fail`), after it was handled (`AnswerLost`),
or leaves it behind to be handled later (`GiveUp`, `HandleLate`); every one ends
the command, which starts over when it is run again. `EnsureCalls` is the order
of `NetBoxSeeder.seed` (`seeder.py`): site, tag, custom fields, the roles and
platforms as devices need them, then every device with its AS number, interfaces
and addresses, then the cables. `ReadSite` to `ReadCables` are the requests of
`fetch_site`, which leaves out cables to interfaces it has not read, and
`Validate` is the policy over what was read: `Passes` of `FabricPolicy`, the same
operator that `FabricContract` uses. Two records of one address are two addresses
of the interface, which is why an address has a `record`.

Simplified: the choice sets, the custom fields, the manufacturer and the registry
are one object, and so are a platform and its device type; requests that only
look up the id of something that was ensured before are part of the create they
belong to; devices are not narrowed by tag.

## 3. What TLC checks

`PROJECT.json` names every run with its configuration. Each of them runs
in under five minutes with two workers.

| run | instance | what it shows |
|---|---|---|
| `LabKilled` | one command at a time, all nine commands, 2 nodes, inputs base / wiring / renumber / broken that never return to an earlier one; any failures, and one fault anywhere: a kill, or a stamp that cannot be removed | `TypeOK`. `IntactBuildIsWhole`: a directory the manifest check accepts is one whole validated build. `EvidenceOfThisBuild`: no report stands beside another build's manifest. `AttestedLabRunsTheBuild`: what the identity gate accepts is what every container was created from. `HonoursContract`: the directory implements `SiteContract`. `FailedDeployLeavesNoStamp`: a deploy that returns an error has taken the stamp back, on each of its four failure paths, unless removing it is what failed |
| `LabThroughUp` | the menu without a plain `compile`, one fault as above, fairness | `GuardProtectsLab`: `lab up` never replaces artifacts under a lab. `TornDownAgain`: a lab is always removed in the end |
| `LabOverlapping` | two commands at once | `OnlyValidatedRuns`: even then nothing unvalidated runs |
| `ScenarioOverlapping` | two scenarios that share a link | `TypeOK`; `ReportWritable`: the report validators never raise; `LeftDownIsReported`: a link that is left down is one some report admits |
| `ScenarioInterrupted` | one scenario over two links of three, two interrupts, fairness | `PassedMeansProven`, `SurvivalUnderFault`, and `RunEnds` |
| `Verifier` | two routers, one of them possibly with a readiness command, one probe, a pool of one thread, fairness | `TypeOK`; `PassMeansHealthy`: if nothing got worse meanwhile, a pass is true when it is given, although every layer was looked at in another moment; `FailMeansFlawed`: a failing report means that something was wrong, and never that a command failed; `PatientUntilDeadline`, `ReturnsLastPoll`: a wait gives up only at its deadline, and returns what the last poll saw of every router; `VerificationEnds` |
| `Fabric` | eight devices in two planes, all routers FRR or one leaf SR Linux, any two edits, then one fault | `TypeOK`; `ValidCompiles`: what passes the policy, and keeps to the names and types that the renderers take (`Conventional`), costs no build; `EverythingIsExpected`: no endpoint, pair or router is left out of the expected state; `HealthyPasses`: the healthy network meets its contract, ECMP included, if the site is `Aligned` and `SingleHomed`; `FaultsAreFound`: no link down and no leaked route passes; `AssuranceForesees`: assurance passes what will verify and nothing else, if the prediction is right; `UnreadIsFound`: a configuration that Batfish took nothing from never passes, whatever it says of the file; `SessionsAreTheirNodes`: a table of sessions keyed by their two nodes loses none |
| `Seed` | a dual-plane fixture of five devices, one seeder, one reader, one fault of any kind, fairness | `SeedTypeOK`; `NothingDoubled`: repeating a seed doubles nothing; `SeededIsWhole`: success means that all of the fixture is there; `SnapshotCloses`: nothing in a snapshot refers to what was not read; `AcceptedIsWhole`: a snapshot torn by a seed under way is never accepted; `SeedCompletes`: repeating it completes an interrupted seed |

Four runs find a violation; section 5 says what they mean.

Why the bounds are enough for these questions:

* **Nodes.** Two, so that a deployment can be partial and a topology can lose a
  node (`wiring`); the overlapping runs ask about inputs rather than about
  partial labs and take one.
* **Inputs.** `base`; `broken`, which fails validation; `wiring`, with the same
  snapshot and report as `base` but another topology (the platform map is not in
  the snapshot); and `renumber`, with the same topology file but other
  configurations. A check that compares too little confuses two of these.
* **Faults.** One kill suffices for every half-done state of the directory, and
  one stamp that stays for every stamp beside a lab that is not its own. Any step
  of the commands that repair such a state may still fail by itself. A second
  fault in a row is covered by the theorems, which hold for any number.
* **Command slots.** Two; `SYMMETRY` over them is sound because no property
  distinguishes slots and these runs check no liveness.
* **Reverts.** Whether `intent` may return to an earlier value. It matters to
  exactly one property, `AttestedLabRunsTheBuild`, and to that only where there are
  faults, see `LabKilledReverted`; the other theorems hold either way.
* **Menu.** `compile` without the guard is left out where the property is about
  an operator who goes through `lab up`; `LabGuardBypassed` shows what happens
  otherwise. `assure` is in the menu of `LabKilled` only: it touches nothing but
  its own report, about which the other runs ask nothing.
* **Links and interrupts.** Two targets give first, last and "the rest"; a third
  link is outside of the target. Two interrupts let the second one hit the
  `finally` block.
* **Workers and routers.** With one thread and two routers a job is always behind
  another, so that cancelling matters; the probe is a layer of its own.
* **The site.** Two spines and two leaves in plane a, so that ECMP and transit
  over a spine exist, one each in plane b, and one endpoint of either role. The
  fifth device to be edited would be of the kind of one that is: edits are about
  the spine and the leaf of plane b, a leaf of plane a, and one endpoint
  (`Edited`); `Plug` may join any two ports that are free.
* **Platforms.** Besides the site with FRR, one with an SR Linux leaf that has a
  type, which is right there, and a port without an SR Linux name, which the second
  of two edits can cable; such a site passes the policy and is refused. Three more
  seeds are refused as they are: a type on FRR, a loopback that SR Linux has no
  name for, a leaf with the platform of an endpoint.
* **Edits and faults.** Two edits, so that one may repair what the other broke,
  or a cable may move; a rule is left with what two edits can hide from it.
  One fault at a time: a session that is down, a connected prefix that is gone
  and a leaked route each show in a check of their own, whatever else is wrong.
* **Seeder and fixture.** One seeder, so that every failure and its repetition is
  there; that seeds overlap is covered by the theorems, which hold for any
  number. Two planes with one leaf each, since a fixture is what `AcceptedIsWhole`
  depends on: every prefix of the calls that satisfies the policy must be all of
  them. With `fixtures/smoke.yaml`'s single plane (`MCSmoke`) it is not, when the
  reader comes between: a spine and a leaf whose host port and endpoint are not
  there yet are a small, valid fabric, which `validate` accepts. In a dual-plane
  fixture the leaf of plane a is complete before the spine of plane b begins, and
  its host port without a link fails `CLS004`. What it takes in general is
  `Checkable`, which `MCSourceSnapshot` has TLC evaluate (`FixturesTell`): it is so
  of the fixture of the run and of `fixtures/mini-dual-plane.yaml`, all twelve
  devices of it (`MCMini`, too large for a run), and not of `smoke.yaml`.
* **Sites outside of the policy's reach.** `SessionsAreTheirNodes` and the second
  half of `AssuranceForesees` speak of `Aligned` sites (no cross-plane cable, see
  section 5), the latter of `SingleHomed` ones besides, as `HealthyPasses` does.

Every property has a mutant in `PROJECT.json`: a plausible slip in the code
(`Mutant:` definitions in the modules) under which its run fails.

## 4. Fairness

* `WF(Step)` for every command: a command that has started takes its next step,
  because every external call carries a timeout (`executor.py`, `lifecycle.py`)
  and nothing waits for a lock.
* `SF(Conclude)`: a scenario does not poll for ever (`runner.py:211-227` stops at
  its deadline). `LabLifecycle` abstracts from that clock; `ScenarioRunner` has
  it, with `WF(Expire)`.
* `SF(Start "down")`, and `SF` on the successful outcomes of `Down`,
  `RunDestroy` and `CheckDown`: the operator keeps trying `lab down`, and
  neither Containerlab's inspection nor its destroy fails every single time. No
  fairness is assumed of deployments, fetches, edits, crashes or kills.
* `WF(Step)`, `WF(Expire)` in `ScenarioRunner`: every command in a container has
  a timeout, and the deadline of the survival wait passes.
* `WF(Step)`, `WF(Expire)` in `RuntimeVerifier`: the same of the commands in the
  pool and of the deadline of the loop at hand. Nothing is assumed of the
  network: it may move for ever.

* `WF(Seeding(s))`, `[]<>Reading` in `SourceSnapshot`: the operator runs `aftwin
  seed` and `aftwin validate` again when they have failed, and each goes on while
  nothing fails. `Reading` is possible in every state, so its weak fairness is stated without the
  `ENABLED` of a `WF`, which would take TLC most of the run. Failures are bounded by `MaxFaults`. `SeedCompletes` is about
  behaviours without overlap and without a late create (`[]calm`): after either,
  an address may be there twice, and then no repetition helps.

`FabricContract` and `BatfishAssurance` have no liveness properties and no
fairness.

## 5. Where the code and its words differ

1. `LabKilledReverted` (`lifecycle.py:235`). `deploy --reconfigure` starts
   Containerlab with the previous stamp still in place. Killed there, or failing
   to remove that stamp afterwards (`lifecycle.py:499`), it leaves
   containers of the new build with the stamp of the old; when the inputs return
   to the old build and it is compiled, the identity gate accepts a lab that
   runs something else. Without reverts the property holds (`LabKilled`, and in
   general theorem `KilledIdentityHolds`), and without such faults too (theorem
   `IdentityHolds`): it takes both together to break it.
2. `LabGuardBypassed` (`lifecycle.py:205`). The compile guard asks the runtime
   only if a topology file exists. A plain `compile`, which has no guard, that
   stops after clearing removes that file; the next `lab up` then compiles under
   the running lab.
3. `FabricCrossPlane` (`policy/rules/plane.py:84`). `PLN003` compares the plane of
   a link with its two interfaces, not with its two devices: a cable between a
   leaf of plane a and a spine of plane b passes the policy if both interfaces
   say b. `docs/policy-rules.md:60` says that every cross-plane link fails. The
   network that is compiled from it joins the planes, and verification reports
   the leak (which is why `HealthyPasses` asks for `Aligned`).
4. `ScenarioFindingsLost` (`runner.py:145`). An interrupt during or before the
   `finally` block leaves links down with no report that says so.

`SurvivalUnderFault` is checked for one scenario at a time. Two overlapping
scenarios with a common interface can lift each other's fault between injection
and poll; nothing in the code or the documents says otherwise, so this is a
limit of the property and no finding. The same holds of `EvidenceOfThisBuild`
with two commands: a `verify` that overlaps a `compile` passes the gate, collects
for minutes and writes its report after the compile has cleared the reports
(`verifier.py:147`), so that it stands beside the manifest of the next build. The
property is checked and proved for one command at a time. `assure` overlapping a
compile is in the same position (`assure/runner.py:118`).

`NothingDoubled` is claimed for seeds that do not overlap and creates that do not
arrive late. `README.md:231` ("safe to repeat; no duplicate objects are created")
and `PLANNING.md:755` speak of one seed after another, and that is what is
proved. Two overlapping seeds, or one killed with a create under way and run
again at once, may make an IP address twice, since NetBox constrains every other
key but not that one. From then on every `ensure` of the address raises
("multiple records matched a unique lookup") and the policy rejects an
interface of a link with two addresses: the damage is noticed, but no repetition
repairs it.

A deploy that fails and cannot remove the stamp either (`lifecycle.py:499`) leaves
it in place, at line 237 without having tried the cleanup.
`FailedDeployLeavesNoStamp` makes that exception. What is left of it is harmless
for the identity gate as long as inputs do not return to earlier values
(`KilledIdentityHolds`), and otherwise the case of point 1. No document speaks of
it.

The policy does not look at port names, loopback names or node types. A fabric
with a port called `Ethernet1/1` on SR Linux passes it and raises while rendering,
after the old build has been cleared; so does a node type in the platform map on
FRR or a Linux endpoint. Hence `Conventional` in `ValidCompiles`. The tests expect
the errors (`tests/unit/test_backend_srlinux.py:39-42`), and no document promises
that a valid fabric can be rendered, so this is a limit and no finding.

Two overlapping runs of one scenario write the same report file
(`runner.py:195`), and the later one replaces the earlier. `ScenarioRunner` gives
each run a report of its own: `LeftDownIsReported` says that a run has reported
what it left down, not that nobody has overwritten the report since.

`SingleHomed` is another gap of the policy: an endpoint with two ports in one
plane passes it, on two leaves or on one, but its probes have equal keys, and
`_outcome_index` (`verify/reachability.py:56`) raises instead of judging. No
document speaks of such endpoints.

## 6. What TLAPS proves

Every theorem is about the specification with any values of the constants that
satisfy the assumptions in the modules. `LabLifecycle`: contents are files, a
topology names nodes, absent values are no files, manifests, stamps or
containers, and `MaxFaults` is a natural number. `ScenarioRunner`: every target is
a non-empty sequence of links. `RuntimeVerifier`: `Probed` is a set of routers,
and there is a worker. `FabricPolicy`: one or both planes are required, as
`PolicyProfile` validates, with a positive number of spines each.
`FabricContract`: a site is as NetBox can hold it (`WellFormed`: a port takes one
cable), edits assign addresses, every device has a renderer, and there are
finitely many names and slots.
`NetBoxSeeder`: a command ensures a non-empty sequence of objects.
`SourceSnapshot`: the commands ensure what `EnsureCalls` makes of the fixture, and
NetBox constrains everything but addresses; the parts of a fixture are sequences.
TLC evaluates every assumption.

| theorem | module | statement |
|---|---|---|
| `TypeCorrect` | `LabLifecycleGate` | `Spec => []TypeOK`, which includes that the local variables a step reads have been set |
| `GateHolds` | `LabLifecycleGate` | `Spec => []OnlyValidatedRuns`, for any number of overlapping commands |
| `IntactHolds`, `EvidenceHolds` | `LabLifecycleDirectory` | `Solo => (Spec => []IntactBuildIsWhole)` and the same of `EvidenceOfThisBuild` |
| `ContractHolds` | `LabLifecycleDirectory` | `Solo => (Spec => HonoursContract)`: the directory refines `SiteContract` |
| `IdentityHolds` | `LabLifecycleIdentity` | `Solo /\ MaxFaults = 0 => (Spec => []AttestedLabRunsTheBuild)`, with or without reverts |
| `KilledIdentityHolds` | `LabLifecycleIdentity` | `Solo /\ ~Reverts => (Spec => []AttestedLabRunsTheBuild)`, with any number of kills and of stamps that cannot be removed |
| `FailedDeployHolds` | `LabLifecycleIdentity` | `Solo => (Spec => FailedDeployLeavesNoStamp)`, with any number of faults, of which the property excepts the step itself |
| `GuardHolds` | `LabLifecycleIdentity` | `[]GuardProtectsLab` for `Solo` and a menu without `compile`, with any number of faults |
| `TypeHolds`, `ReportHolds` | `ScenarioRunnerProofs` | `TypeOK` and `ReportWritable`, for overlapping runs, targets of any length, any failures and interrupts |
| `SurvivalHolds`, `PassedHolds` | `ScenarioRunnerFault` | `Alone => (Spec => SurvivalUnderFault)` and the same of `[]PassedMeansProven` |
| `LeftDownHolds` | `ScenarioRunnerFault` | `MaxInterrupts = 0 => (Spec => []LeftDownIsReported)`, for any number of overlapping runs on shared links |
| `TypeHolds`, `PassHolds`, `FailHolds`, `PatientHolds`, `LastPollHolds` | `RuntimeVerifierProofs` | all safety and action properties of the run `Verifier`, for any routers, probes and number of threads |
| `CompileHolds` | `FabricContractProofs` | `Spec => []ValidCompiles`, for every site, profile, platform map and edit |
| `ExpectedHolds` | `FabricContractProofs` | `Spec => []EverythingIsExpected` |
| `TypeHolds` | `FabricContractProofs` | `Spec => []TypeOK` |
| `FaultsFound` | `FabricContractProofs` | `Spec => []FaultsAreFound`, for every profile and any number of links down and routes leaked |
| `HealthyHolds` | `FabricContractProofs` | `Spec => []HealthyPasses`, for fabrics of any size |
| `UnreadHolds` | `FabricContractProofs` | `Spec => []UnreadIsFound` |
| `SessionsHold` | `FabricContractProofs` | `Spec => []SessionsAreTheirNodes` |
| `ForeseesHolds` | `FabricContractProofs` | `Spec => []AssuranceForesees`, both halves |
| `SeedTypeHolds`, `NothingDoubledHolds`, `SeededHolds` | `SourceSnapshotProofs` | `SeedTypeOK`, `NothingDoubled` and `SeededIsWhole`, for any fixture, number of seeders and failures |
| `SnapshotHolds` | `SourceSnapshotProofs` | `Spec => []SnapshotCloses` |
| `AcceptedHolds` | `SourceSnapshotProofs` | `Checkable => (Spec => []AcceptedIsWhole)`, for any number of overlapping seeds, late creates and failures |

`Solo` says that there is one command slot, `Alone` that there is one runner;
they are needed, as section 5 shows. `Checkable` (`SourceSnapshot`) is about the
fixture: names are unique, every port has one address and a link (`Distinct`,
`Linked`), every link has a host port or is one of no more router links of a leaf
than there are spines (`Counted`), and whichever device is the last to be there,
spines are missing or an earlier host port is linked with something that is
missing (`Telling`). Section 3 says which fixtures are so; of one that is not,
`AcceptedIsWhole` may be false.

The inductive invariants:

* `GateInv`. That no unvalidated file runs is not inductive: a deploy reads the
  directory long after it was checked. `GateInv` adds that every topology and
  every configuration on disk, and those a compile carries in its local
  variables, comes from an input that passed. It does *not* say that the two come
  from one input, which is false under overlap.
* `DirectoryInv`. It says of every step what the command knows (`DirectoryKnown`):
  a compile between two writes knows which files are already those of its input
  and that there is no manifest, and from the moment the manifest is removed no
  report is left that a new manifest could contradict; an observing command
  holds the manifest it has read. The refinement follows step by step: the
  published build changes only in `ClearManifest`, `WriteManifest` and the first
  write that breaks the digests.
* `LabInv`. It relates stamp, lab and job: a stamp vouches for every container
  present unless a deploy is at a step that will remove it. A kill between those
  steps, or a removal that fails, is exactly what breaks it, hence that conjunct
  speaks of `MaxFaults = 0`; the others, about what a command at each step knows,
  survive faults.
* `KilledInv` (`LabLifecycleIdentity`): identity with faults. Besides `LabInv` it
  has `InputInv`, which says that an input which `intent` has left is neither in the
  manifest nor in hand unless it was fetched in time, and `StampInv`: the lab runs
  the build of the stamp, or that build is `Outdated`, its input retired and neither
  in the directory nor being compiled. An outdated build cannot be compiled
  again if inputs do not return, so no gate will find it equal to the manifest.
  What makes this inductive is `Superseded`: as soon as another input than the
  stamped one has got anywhere, the stamped one is already gone. Hence a
  reconfigure that ends with the old stamp in place leaves an outdated
  stamp, or containers of the very build that the stamp names.
* `DropInv`, `GuardInv` (`LabLifecycleIdentity`). The first: a deploy that has
  failed gets to its cleanup only after the stamp is gone. The second is why the
  guard works where it works: every lab has its topology file, so that the guard,
  which asks for the file first, never skips the runtime. A plain `compile` is
  what makes it false.
* `Counted` (`ScenarioRunnerProofs`). The counts of a run at every step of it:
  active and failed injections add up to the interfaces passed, and so do
  restored and broken ones. The validators follow by arithmetic.
* `FaultInv` (`ScenarioRunnerFault`). The counts vouch for interfaces: with no
  injection finding everything behind the one in hand is down, with no restore
  finding it is up again, and a run with no finding at all has polled.
* `DebtInv` (`ScenarioRunnerFault`). Every link that is down is some run's debt:
  the run still has to lift it, has counted a failure to, or has said so in its
  report. Runs that share a link may take over each other's debts, which is why
  the invariant says that some run owes, not which.
* `PoolInv`, `VerdictInv` (`RuntimeVerifierProofs`). The pool holds nothing but
  jobs of this poll, and all of them unless one has failed; hence good answers
  from all of them are all routers. What was found still holds unless
  `worsened`, and without `flawed` everything behind the present step was found
  in order. The two history variables make the verdict, which is about moments
  past, a statement about one state.
* `Kept` (`FabricContractProofs`). A contract is the expected state of a site
  that passes, since edits end with the compilation. The rest is about one
  state: `PLN004` and `CLS004` give every endpoint a host link in every plane
  (`HostLinkExists`), `CLS003` says which end of it is the endpoint's
  (`HostLinkEnds`), and the lists of probes and routes are built from those.
* `NetworkInv` (`FabricContractProofs`), that is `TypeOK`, `Kept`, `Healthy` (nothing
  fails before a build runs), `Failures` (what has failed is part of the compiled
  site) and `Installed` (the routing tables are those of the links that are up).
  A link down is then seen in the session of its two ends, or in the prefix of its
  endpoint at the leaf, which it is the only attachment of (`PrefixOfOneAttachment`).
  A leak is a route to a prefix out of another plane's pool, and every router is
  asked about such routes because it has expected routes of its own plane.
* The healthy network, which `HealthyHolds` and half of `ForeseesHolds` rest on.
  How far a prefix has spread after k hops is a recursive function (`Reached`), and what it computes is proved by induction
  on the number of hops with the well-foundedness of `<` on the naturals (`UpTo`,
  `ReachedIs`). In a valid aligned site the routers of a plane form a complete
  bipartite graph of leaves and spines (`CLS001`), so a prefix has reached the
  spines after one hop and the whole plane after two (`ReachedInPlane`): another
  leaf has a next hop over every spine, and a spine has one over the leaf. The rest is that the expected state asks for just that.
* `OneUplinkPerSpine` (`FabricContractProofs`). `CLS001` counts the uplinks of a
  leaf and compares the set of its neighbours with the spines: a function from a
  finite set onto one of the same cardinality is injective, hence no spine is
  connected twice, and two nodes name a session.
* `SeedInv` (`SourceSnapshotProofs`). While `calm`, one command at most is active,
  nothing is late, and what is about to be created is not there (`Quiet`);
  always, what lies behind a command in its fixture is in NetBox
  (`BehindIsThere`), since nothing is ever deleted.
* `SnapshotInv` (`SourceSnapshotProofs`). The device whose interfaces are being
  read has been read. That the next device is one of those selected is a fact
  about `Min`, from the well-foundedness of the naturals.
* `OrderInv`, `ReadInv` (`SourceSnapshotProofs`), for `AcceptedHolds`. The first:
  every record, and every create still to be handled, is of a call with all calls
  before it in NetBox. That the calls for a device come after all of those for the
  devices before it (`CallsAreInFileOrder`) is proved of `FlattenSeq` and
  `FoldLeft`, which are recursive functions, by induction with `UpTo`. Hence the
  devices that are selected are a beginning of the file, and of all but the last
  of them every interface is there before the first is asked for. `ReadInv` says
  how far the reader has come with those (`FullIsDone`), that what it has is the
  fixture's, and that what was accepted is whole. At `validate` the policy does
  the rest: `CLS001` counts spines and `CLS004` finds host ports without a link, so
  that no device and no port is missing (`AllDevicesRead`, `AllPortsRead`); `CLS004`
  again, and the count of a leaf's uplinks, find every cable (`EveryCable`); and
  `ADR002` and `ADR003` want one address at both ends of each, so that an address
  that is held twice does not pass (`EveryAddressOnce`).

The invariants were checked by TLC on the instances above before they were
proved.

## 7. What is model-checked only

* Liveness, which is out of the prover's reach: `TornDownAgain`, `RunEnds`,
  `VerificationEnds`, `SeedCompletes`.
* That the fixtures are `Checkable`, which TLC evaluates.

Every safety invariant and action property of the runs is stated by a theorem.

## 8. What is not modelled

* Text: rendering, and parsing of router output, of NetBox's JSON and of
  Batfish's tables. What the configurations make the network do is in
  `FabricContract`, as far as sessions and prefixes go.
* The rules about tags, platforms, loopbacks and pools; the capabilities that a
  profile requires of a platform; prefix lengths other
  than 31; more than one fault at a time in the runs.
* The copy of the configurations that `assure` makes for Batfish is taken to be
  what the manifest names, which is so unless a compile overlaps it; the session
  with Batfish; forwarding loops.
* That `fetch_site` may select devices by tag; edits of NetBox by hand while a
  site is being read (only a seeder writes while `SourceSnapshot` reads).
* Half-written files (see section 2); in `ScenarioRunner`, failures of writing a
  report (they are in `LabLifecycle`), and the report file that two overlapping
  runs of one scenario share (section 5).
* The exit status of a command within `containerlab exec`: a ping whose own status
  is 126 or 127 is a failed probe in the code, which `RuntimeVerifier` has as an
  answer that is not as expected.
* A command in a container that takes effect after it has timed out and been
  reported (`scenario/runner.py:303`): a failed command takes effect at once or
  never. A late `ip link set down` can defeat the restore and the inspection
  behind it, and no code could see it.
* A verification that raises leaves the report of an earlier one, of the same
  build, in place (`verifier.py:147`). The code promises that a report belongs
  to the build beside it, not that it is the latest run's.
* The checks of local images before a deployment (`runtime/images.py`): they
  read, and a deployment that they refuse is one that fails before Containerlab
  is called (`CheckBefore`).

## 9. Plan

In this order:

1. In `ScenarioRunner`: commands that take effect after they have timed out.
2. In `SourceSnapshot`: a site edited by hand between two requests.
3. In `RuntimeVerifier`: a report left behind by an earlier run.
4. Proofs: the new properties of these.
