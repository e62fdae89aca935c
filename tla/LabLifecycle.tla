---------------------------- MODULE LabLifecycle ----------------------------
(***************************************************************************)
(* One site's build directory, its running lab, and the aftwin commands    *)
(* that operate on them: validate, compile, assure, lab up, deploy, deploy *)
(* --reconfigure, lab down, verify and scenario run.  Every command is a   *)
(* process that takes one step per file it writes and per Containerlab     *)
(* call it makes, so that it can fail, be killed, or overlap another       *)
(* command between any two of them.  No lock is taken anywhere in the      *)
(* code.                                                                   *)
(*                                                                         *)
(* A file is represented by the digest of its content: SHA-256 is assumed  *)
(* injective on the contents that occur.  A manifest record stands for the *)
(* manifest file and for the build hash derived from it.                   *)
(***************************************************************************)
EXTENDS Naturals, FiniteSets

CONSTANTS
  Procs,         \* command slots: how many commands may overlap
  Inputs,        \* compiler inputs: snapshot, policy profile, platform map
  Files,         \* digests of file contents
  Nodes,         \* container names
  Content,       \* Content[i][a]: digest of artifact a generated from input i
  NamesOf,       \* node names in a topology file, nodes in an inventory file
  PassedReports, \* digests of the static reports whose "passed" is true
  NoFile,        \* the file does not exist
  NoManifest,    \* manifest.json, or a report of a build, does not exist
  NoStamp,       \* runtime/deployment.json does not exist
  Absent,        \* the container does not exist
  Menu,          \* the commands the operator uses
  MaxFaults,     \* bound: commands that are killed, or end because they
                 \* cannot remove the stamp, in a behaviour
  Reverts        \* whether the inputs may return to an earlier value

\* "source" is source/netbox.json, "report" reports/static-validation.json,
\* "topology" topology.clab.yml; "rest" is everything else compile_fabric
\* generates (configs, expected-state.json, inventory.json).
Artifacts == {"source", "report", "topology", "rest"}

Manifests == [input : Inputs, files : [Artifacts -> Files]]
Stamps == [topology : Files, build : Manifests, names : SUBSET Nodes]
Origins == [topology : Files, rest : Files]
Containers == [running : BOOLEAN, from : Origins]

ASSUME ContentAssumption ==
  /\ Content \in [Inputs -> [Artifacts -> Files]]
  /\ NamesOf \in [Files -> SUBSET Nodes]
  /\ PassedReports \subseteq Files

ASSUME AbsenceAssumption ==
  /\ NoFile \notin Files
  /\ NoManifest \notin Manifests
  /\ NoStamp \notin Stamps
  /\ Absent \notin Containers

ASSUME BoundsAssumption == MaxFaults \in Nat /\ Reverts \in BOOLEAN

VARIABLES
  intent,   \* the input a compiler run started now would read
  retired,  \* the inputs intent has left
  disk,     \* the artifacts in the build directory
  manifest, \* manifest.json
  stamp,    \* runtime/deployment.json
  evidence, \* the reports assure, verify and scenario run have left
  lab,      \* the containers of this lab, each with what it was created from
  job,      \* the command in every slot: its step and local variables
  faults    \* commands killed, or unable to remove the stamp, so far

vars == <<intent, retired, disk, manifest, stamp, evidence, lab, job, faults>>
files == <<disk, manifest, stamp, evidence>>
world == <<intent, retired, faults>>

Commands == {"validate", "compile", "up", "deploy", "reconfigure", "down",
             "verify", "scenario", "assure"}
Attesting == {"verify", "scenario"}
Reporting == Attesting \cup {"assure"}

ASSUME MenuAssumption == Menu \subseteq Commands

Steps == {"idle", "guard", "fetch", "report", "clear", "clearTopology",
          "clearManifest", "clearEvidence", "topology", "rest", "digest",
          "manifest", "integrity", "plan", "before", "deploy", "dropStamp",
          "cleanup", "after", "abort", "abortStamp", "stamp", "down",
          "downRun", "downAfter", "unstamp", "attach", "identity", "attest",
          "collect", "fault", "assure", "answers"}

FirstStep(c) ==
  CASE c = "up"                     -> "guard"
    [] c \in {"validate", "compile"}   -> "fetch"
    [] c \in {"deploy", "reconfigure"} -> "integrity"
    [] c = "down"                   -> "down"
    [] c \in Attesting              -> "attach"
    [] c = "assure"                 -> "assure"

\* The local variables of a command: the input it compiles, the manifest it
\* computed or verified, the container names it expects, and for a scenario
\* the build it will report under and whether its baseline has passed.
JobRecords == [command : Commands \cup {"none"}, step : Steps,
               input : Inputs \cup {NoFile}, seen : Manifests \cup {NoManifest},
               names : SUBSET Nodes, base : Manifests \cup {NoManifest},
               faulted : BOOLEAN]

\* Which of them are set by the time a step is reached.
Shaped(j) ==
  /\ j.step \in {"report", "clear", "clearTopology", "clearManifest",
                  "clearEvidence", "topology", "rest", "digest"}
       => j.input \in Inputs
  /\ j.step \in {"manifest", "plan", "before", "deploy", "after", "stamp", "answers"}
       => j.seen \in Manifests
  /\ j.step \in {"attach", "identity", "attest", "collect", "fault"}
       => j.command \in Attesting

Jobs == {j \in JobRecords : Shaped(j)}

Idle == [command |-> "none", step |-> "idle", input |-> NoFile,
         seen |-> NoManifest, names |-> {}, base |-> NoManifest,
         faulted |-> FALSE]

TypeOK ==
  /\ intent \in Inputs
  /\ retired \subseteq Inputs
  /\ disk \in [Artifacts -> Files \cup {NoFile}]
  /\ manifest \in Manifests \cup {NoManifest}
  /\ stamp \in Stamps \cup {NoStamp}
  /\ evidence \in [Reporting -> Manifests \cup {NoManifest}]
  /\ lab \in [Nodes -> Containers \cup {Absent}]
  /\ job \in [Procs -> Jobs]
  /\ faults \in 0..MaxFaults

-----------------------------------------------------------------------------
(* What the commands compute from the files and the inspection output.     *)

\* Policy validation of input i reports no error.
Passes(i) == Content[i]["report"] \in PassedReports

\* load_verified_manifest: every recorded file exists with its digest.
Intact == manifest # NoManifest /\ manifest.files = disk

Present == {n \in Nodes : lab[n] # Absent}

\* LabInspection.running and LabInspection.all_running.
LabRunning == Present # {}
AllRunning == LabRunning /\ \A n \in Present : lab[n].running

\* The observed container set is exactly the expected one, all running.
ExactlyRunning(names) == AllRunning /\ Present = names

\* Mutant: only the topology digest is compared.
StampMatchesTopology == stamp # NoStamp /\ stamp.topology = disk["topology"]

\* The five identity fields of the stamp agree with the current build.
StampMatches ==
  /\ stamp # NoStamp
  /\ stamp.topology = disk["topology"]
  /\ stamp.build = manifest
  /\ stamp.names = NamesOf[disk["topology"]]

-----------------------------------------------------------------------------
Init ==
  /\ intent \in Inputs
  /\ retired = {}
  /\ disk = [a \in Artifacts |-> NoFile]
  /\ manifest = NoManifest
  /\ stamp = NoStamp
  /\ evidence = [c \in Reporting |-> NoManifest]
  /\ lab = [n \in Nodes |-> Absent]
  /\ job = [p \in Procs |-> Idle]
  /\ faults = 0

At(p, step) == job[p].step = step
Becomes(p, j) == job' = [job EXCEPT ![p] = j]
Goto(p, step) == Becomes(p, [job[p] EXCEPT !.step = step])
Exit(p) == Becomes(p, Idle)

\* A command ends where it is and leaves everything as it stands.
BreakOff(p) ==
  /\ faults < MaxFaults
  /\ faults' = faults + 1
  /\ Exit(p)
  /\ UNCHANGED <<files, lab, intent, retired>>

Start(p, c) ==
  /\ At(p, "idle")
  /\ Becomes(p, [Idle EXCEPT !.command = c, !.step = FirstStep(c)])
  /\ UNCHANGED <<files, lab, world>>

(***************************************************************************)
(* validate and compile.                                                   *)
(***************************************************************************)

\* Mutant: compile without looking at the runtime.
GuardUninspected(p) ==
  /\ At(p, "guard")
  /\ Goto(p, "fetch")
  /\ UNCHANGED <<files, lab, world>>

\* require_absent_before_compile: a missing topology passes the guard
\* without looking at the runtime; an inspection error refuses.
Guard(p) ==
  /\ At(p, "guard")
  /\ \/ /\ disk["topology"] # NoFile => ~LabRunning
        /\ Goto(p, "fetch")
     \/ disk["topology"] # NoFile /\ Exit(p)
  /\ UNCHANGED <<files, lab, world>>

\* fetch_site and save_snapshot.  A failed fetch changes nothing.
Fetch(p) ==
  /\ At(p, "fetch")
  /\ \/ /\ Becomes(p, [job[p] EXCEPT !.input = intent, !.step = "report"])
        /\ disk' = [disk EXCEPT !["source"] = Content[intent]["source"]]
     \/ Exit(p) /\ UNCHANGED disk
  /\ UNCHANGED <<manifest, stamp, evidence, lab, world>>

\* Mutant: the outcome of the validation is not looked at.
WriteReportUngated(p) ==
  /\ At(p, "report")
  /\ disk' = [disk EXCEPT !["report"] = Content[job[p].input]["report"]]
  /\ IF job[p].command # "validate" THEN Goto(p, "clear") ELSE Exit(p)
  /\ UNCHANGED <<manifest, stamp, evidence, lab, world>>

\* Normalize (which may reject the snapshot), validate, save the report and
\* stop unless it passed and the command goes on to compile.
WriteReport(p) ==
  /\ At(p, "report")
  /\ \/ /\ disk' = [disk EXCEPT !["report"] = Content[job[p].input]["report"]]
        /\ IF job[p].command # "validate" /\ Passes(job[p].input)
             THEN Goto(p, "clear")
             ELSE Exit(p)
     \/ Exit(p) /\ UNCHANGED disk
  /\ UNCHANGED <<manifest, stamp, evidence, lab, world>>

\* The platform and capability checks of compile_fabric raise before
\* anything is removed; then _clear_generated starts with configs.  Every
\* removal may raise; configs may then be gone in part, as if killed there.
ClearRest(p) ==
  /\ At(p, "clear")
  /\ \/ /\ disk' = [disk EXCEPT !["rest"] = NoFile]
        /\ Goto(p, "clearTopology") \/ Exit(p)
     \/ Exit(p) /\ UNCHANGED disk
  /\ UNCHANGED <<manifest, stamp, evidence, lab, world>>

ClearTopology(p) ==
  /\ At(p, "clearTopology")
  /\ \/ Goto(p, "clearManifest") /\ disk' = [disk EXCEPT !["topology"] = NoFile]
     \/ Exit(p) /\ UNCHANGED disk
  /\ UNCHANGED <<manifest, stamp, evidence, lab, world>>

ClearManifest(p) ==
  /\ At(p, "clearManifest")
  /\ \/ Goto(p, "clearEvidence") /\ manifest' = NoManifest
     \/ Exit(p) /\ UNCHANGED manifest
  /\ UNCHANGED <<disk, stamp, evidence, lab, world>>

\* Mutant: the scenario reports stay.
ClearEvidenceOfVerify(p) ==
  /\ At(p, "clearEvidence")
  /\ evidence' = [evidence EXCEPT !["verify"] = NoManifest]
  /\ Goto(p, "topology")
  /\ UNCHANGED <<disk, manifest, stamp, lab, world>>

\* The reports go in this order; the removal that raises leaves the later ones.
Forgotten == {{}, {"verify"}, {"verify", "assure"}}

EvidenceWithout(gone) ==
  [c \in Reporting |-> IF c \in gone THEN NoManifest ELSE evidence[c]]

ClearEvidence(p) ==
  /\ At(p, "clearEvidence")
  /\ \/ Goto(p, "topology") /\ evidence' = EvidenceWithout(Reporting)
     \/ Exit(p) /\ \E gone \in Forgotten : evidence' = EvidenceWithout(gone)
  /\ UNCHANGED <<disk, manifest, stamp, lab, world>>

\* Generation and rendering may raise at either file group.
Generate(p, artifact, next) ==
  /\ At(p, artifact)
  /\ \/ /\ disk' = [disk EXCEPT ![artifact] = Content[job[p].input][artifact]]
        /\ Goto(p, next)
     \/ Exit(p) /\ UNCHANGED disk
  /\ UNCHANGED <<manifest, stamp, evidence, lab, world>>

WriteTopology(p) == Generate(p, "topology", "rest")
WriteRest(p) == Generate(p, "rest", "digest")

\* Mutant: the inputs are read again for the manifest.
DigestFilesOfIntent(p) ==
  /\ At(p, "digest")
  /\ Becomes(p, [job[p] EXCEPT !.step = "manifest",
                !.seen = [input |-> intent, files |-> disk]])
  /\ UNCHANGED <<files, lab, world>>

\* BuildManifest.create hashes what is on disk now; a missing file raises.
DigestFiles(p) ==
  /\ At(p, "digest")
  /\ IF \A a \in Artifacts : disk[a] # NoFile
       THEN Becomes(p, [job[p] EXCEPT !.step = "manifest",
                      !.seen = [input |-> job[p].input, files |-> disk]])
       ELSE Exit(p)
  /\ UNCHANGED <<files, lab, world>>

\* BuildManifest.write; lab up goes on to deploy.  A write that raises leaves
\* what was there or a file that does not parse.
WriteManifest(p) ==
  /\ At(p, "manifest")
  /\ \/ /\ manifest' = job[p].seen
        /\ IF job[p].command = "up" THEN Goto(p, "integrity") ELSE Exit(p)
     \/ Exit(p) /\ manifest' \in {manifest, NoManifest}
  /\ UNCHANGED <<disk, stamp, evidence, lab, world>>

Compiling(p) ==
  \/ Guard(p) \/ Fetch(p) \/ WriteReport(p)
  \/ ClearRest(p) \/ ClearTopology(p) \/ ClearManifest(p) \/ ClearEvidence(p)
  \/ WriteTopology(p) \/ WriteRest(p) \/ DigestFiles(p) \/ WriteManifest(p)

(***************************************************************************)
(* Containerlab (external).  A command that fails or times out may have    *)
(* done any part of its work; its caller finds out by inspecting.          *)
(***************************************************************************)
Deployable == disk["topology"] # NoFile /\ disk["rest"] # NoFile

Fresh == [running |-> TRUE,
          from |-> [topology |-> disk["topology"], rest |-> disk["rest"]]]

Place(made, gone) ==
  lab' = [n \in Nodes |-> CASE n \in made -> Fresh
                            [] n \in gone \ made -> Absent
                            [] OTHER -> lab[n]]

\* A successful deploy creates every node of the topology.  A lab that exists
\* is refused unless reconfigured; then the old containers are removed first,
\* except that one outside the new topology may remain.
ContainerlabDeployed(replace) ==
  /\ Deployable
  /\ replace \/ ~LabRunning
  /\ \E gone \in SUBSET Present : Place(NamesOf[disk["topology"]], gone)

\* A deploy that fails may have created any nodes and removed any old ones.
ContainerlabDeployFailed(replace) ==
  IF Deployable /\ (replace \/ ~LabRunning)
    THEN \E made \in SUBSET NamesOf[disk["topology"]], gone \in SUBSET Present :
           Place(made, gone)
    ELSE UNCHANGED lab

\* Without a topology file destroy fails and removes nothing.
ContainerlabDestroy ==
  IF disk["topology"] = NoFile
    THEN UNCHANGED lab
    ELSE \E gone \in SUBSET Present : Place({}, gone)

(***************************************************************************)
(* deploy and deploy --reconfigure, also the second half of lab up.        *)
(***************************************************************************)

\* Mutant: the manifest is used as it is found.
CheckIntegrityTrusting(p) ==
  /\ At(p, "integrity")
  /\ Becomes(p, [job[p] EXCEPT !.step = "plan", !.seen = manifest])
  /\ UNCHANGED <<files, lab, world>>

\* The topology exists and the manifest is intact; both are read now.
CheckIntegrity(p) ==
  /\ At(p, "integrity")
  /\ IF Intact
       THEN Becomes(p, [job[p] EXCEPT !.step = "plan", !.seen = manifest])
       ELSE Exit(p)
  /\ UNCHANGED <<files, lab, world>>

\* _require_static_validation: the report exists and says that it passed.
ReportPassed == disk["report"] \in PassedReports

\* _expected_node_count against the node names of the topology.
CountsAgree ==
  /\ Deployable
  /\ Cardinality(NamesOf[disk["topology"]]) = Cardinality(NamesOf[disk["rest"]])

CheckPlan(p) ==
  /\ At(p, "plan")
  /\ IF ReportPassed /\ CountsAgree
       THEN Becomes(p, [job[p] EXCEPT !.step = "before",
                      !.names = NamesOf[disk["topology"]]])
       ELSE Exit(p)
  /\ UNCHANGED <<files, lab, world>>

\* Inspect, refuse an existing lab unless reconfiguring, preflight images.
\* An inspection error or a missing image also ends the command here.
CheckBefore(p) ==
  /\ At(p, "before")
  /\ \/ /\ disk["topology"] # NoFile
        /\ LabRunning => job[p].command = "reconfigure"
        /\ Goto(p, "deploy")
     \/ Exit(p)
  /\ UNCHANGED <<files, lab, world>>

RunDeploy(p) ==
  LET replace == job[p].command = "reconfigure" IN
  /\ At(p, "deploy")
  /\ \/ ContainerlabDeployed(replace) /\ Goto(p, "after")
     \/ ContainerlabDeployFailed(replace) /\ Goto(p, "dropStamp")
  /\ UNCHANGED <<files, world>>

\* _remove_deployment_stamp.  Nothing guards its unlink: when that raises, the
\* stamp stays and the command breaks off.
StampRemoved == stamp' = NoStamp /\ UNCHANGED <<disk, manifest, evidence, lab, world>>

\* The deploy command failed: first the stamp goes, then the containers, as
\* far as the cleanup succeeds.  If the stamp cannot go, no cleanup is tried.
DropStamp(p) ==
  /\ At(p, "dropStamp")
  /\ \/ StampRemoved /\ Goto(p, "cleanup")
     \/ BreakOff(p)

Cleanup(p) ==
  /\ At(p, "cleanup")
  /\ ContainerlabDestroy
  /\ Exit(p)
  /\ UNCHANGED <<files, world>>

\* The deploy command succeeded: inspect again.  An inspection error or any
\* other set of running containers aborts.
CheckAfter(p) ==
  /\ At(p, "after")
  /\ \/ /\ disk["topology"] # NoFile
        /\ ExactlyRunning(job[p].names)
        /\ Goto(p, "stamp")
     \/ Goto(p, "abort")
  /\ UNCHANGED <<files, lab, world>>

\* Here the order is the other way round: containers first, then the stamp.
Abort(p) ==
  /\ At(p, "abort")
  /\ ContainerlabDestroy
  /\ Goto(p, "abortStamp")
  /\ UNCHANGED <<files, world>>

\* Mutant: the old stamp stays.
AbortKeepingStamp(p) ==
  /\ At(p, "abortStamp")
  /\ Exit(p)
  /\ UNCHANGED <<files, lab, world>>

AbortStamp(p) ==
  /\ At(p, "abortStamp")
  /\ \/ StampRemoved /\ Exit(p)
     \/ BreakOff(p)

\* DeploymentStamp.from_build reads the topology again but takes the build
\* from the manifest verified at the start.  Failing to write it aborts; a
\* topology that cannot be read any more ends the command as it stands.
WriteStamp(p) ==
  /\ At(p, "stamp")
  /\ \/ /\ disk["topology"] # NoFile
        /\ \/ /\ stamp' = [topology |-> disk["topology"], build |-> job[p].seen,
                           names |-> NamesOf[disk["topology"]]]
              /\ Exit(p)
           \/ Goto(p, "abort") /\ UNCHANGED stamp
     \/ disk["topology"] = NoFile /\ Exit(p) /\ UNCHANGED stamp
  /\ UNCHANGED <<disk, manifest, evidence, lab, world>>

Deploying(p) ==
  \/ CheckIntegrity(p) \/ CheckPlan(p) \/ CheckBefore(p) \/ RunDeploy(p)
  \/ DropStamp(p) \/ Cleanup(p) \/ CheckAfter(p) \/ Abort(p) \/ AbortStamp(p)
  \/ WriteStamp(p)

(***************************************************************************)
(* lab down.                                                               *)
(***************************************************************************)

\* Mutant: a lab without a stamp is not ours.
DownStamped(p) ==
  /\ At(p, "down")
  /\ IF stamp # NoStamp /\ LabRunning THEN Goto(p, "downRun") ELSE Exit(p)
  /\ UNCHANGED <<files, lab, world>>

\* Requires the topology; an absent lab only loses its stamp.
Down(p) ==
  /\ At(p, "down")
  /\ \/ /\ disk["topology"] # NoFile
        /\ Goto(p, IF LabRunning THEN "downRun" ELSE "unstamp")
     \/ Exit(p)
  /\ UNCHANGED <<files, lab, world>>

\* A destroy that fails ends the command with the stamp in place.
RunDestroy(p) ==
  /\ At(p, "downRun")
  /\ ContainerlabDestroy
  /\ (disk["topology"] # NoFile /\ Goto(p, "downAfter")) \/ Exit(p)
  /\ UNCHANGED <<files, world>>

CheckDown(p) ==
  /\ At(p, "downAfter")
  /\ \/ disk["topology"] # NoFile /\ ~LabRunning /\ Goto(p, "unstamp")
     \/ Exit(p)
  /\ UNCHANGED <<files, lab, world>>

RemoveStamp(p) ==
  /\ At(p, "unstamp")
  /\ \/ StampRemoved /\ Exit(p)
     \/ BreakOff(p)

Destroying(p) == Down(p) \/ RunDestroy(p) \/ CheckDown(p) \/ RemoveStamp(p)

(***************************************************************************)
(* verify and scenario run.  Both pass the identity gate before they       *)
(* collect; a scenario passes it once for itself, once in the verifier for *)
(* the healthy baseline, and again for every survival poll and for the     *)
(* recovery.  What a scenario does to the interfaces is in ScenarioRunner. *)
(***************************************************************************)

\* The command line inspects first and stops if nothing is running.
Attach(p) ==
  /\ At(p, "attach")
  /\ \/ disk["topology"] # NoFile /\ LabRunning /\ Goto(p, "identity")
     \/ Exit(p)
  /\ UNCHANGED <<files, lab, world>>

\* A gate that refuses ends the command, but once a fault has been injected
\* it is a finding of the scenario.
Refuse(p) == IF job[p].faulted THEN Goto(p, "fault") ELSE Exit(p)

\* Mutant: the artifacts are not compared with the manifest.
CheckIdentityTrusting(p) ==
  /\ At(p, "identity")
  /\ IF StampMatches
       THEN Becomes(p, [job[p] EXCEPT !.step = "attest", !.seen = manifest,
                      !.names = stamp.names])
       ELSE Refuse(p)
  /\ UNCHANGED <<files, lab, world>>

\* require_deployed_build, the files: topology, manifest and stamp.
CheckIdentity(p) ==
  /\ At(p, "identity")
  /\ IF Intact /\ StampMatches
       THEN Becomes(p, [job[p] EXCEPT !.step = "attest", !.seen = manifest,
                      !.names = stamp.names])
       ELSE Refuse(p)
  /\ UNCHANGED <<files, lab, world>>

\* require_deployed_build, the runtime: the stamped container set is up.  A
\* scenario keeps the first build it is given for its report.
CheckRuntime(p) ==
  /\ At(p, "attest")
  /\ \/ /\ disk["topology"] # NoFile
        /\ ExactlyRunning(job[p].names)
        /\ IF job[p].command = "scenario" /\ job[p].base = NoManifest
             THEN Becomes(p, [job[p] EXCEPT !.base = job[p].seen, !.step = "identity"])
             ELSE Goto(p, "collect")
     \/ Refuse(p)
  /\ UNCHANGED <<files, lab, world>>

\* RuntimeVerifier.verify: collection may raise and leave the earlier report;
\* otherwise the report is written under the build hash the gate returned.
Verified(p) == evidence' = [evidence EXCEPT !["verify"] = job[p].seen]

Verify(p) ==
  /\ At(p, "collect")
  /\ job[p].command = "verify"
  /\ Verified(p) \/ UNCHANGED evidence
  /\ Exit(p)
  /\ UNCHANGED <<disk, manifest, stamp, lab, world>>

\* The baseline of a scenario: a failed or an unhealthy one ends it.
Baseline(p) ==
  /\ At(p, "collect")
  /\ job[p].command = "scenario"
  /\ ~job[p].faulted
  /\ \/ Verified(p) /\ Becomes(p, [job[p] EXCEPT !.faulted = TRUE, !.step = "fault"])
     \/ (Verified(p) \/ UNCHANGED evidence) /\ Exit(p)
  /\ UNCHANGED <<disk, manifest, stamp, lab, world>>

\* A survival poll, which leaves no report, or the recovery verification.
Observe(p) ==
  /\ At(p, "fault")
  /\ Goto(p, "identity")
  /\ UNCHANGED <<files, lab, world>>

Observed(p) ==
  /\ At(p, "collect")
  /\ job[p].faulted
  /\ Verified(p) \/ UNCHANGED evidence
  /\ Goto(p, "fault")
  /\ UNCHANGED <<disk, manifest, stamp, lab, world>>

\* The scenario report is written under the build the run began with, unless
\* writing it raises.
Conclude(p) ==
  /\ At(p, "fault")
  /\ evidence' = [evidence EXCEPT !["scenario"] = job[p].base] \/ UNCHANGED evidence
  /\ Exit(p)
  /\ UNCHANGED <<disk, manifest, stamp, lab, world>>

AttestingStep(p) ==
  \/ Attach(p) \/ CheckIdentity(p) \/ CheckRuntime(p) \/ Verify(p)
  \/ Baseline(p) \/ Observe(p) \/ Observed(p) \/ Conclude(p)

(***************************************************************************)
(* assure.  It needs a build but no lab, and asks Batfish about a copy of  *)
(* the configurations that it takes after the check (BatfishAssurance).    *)
(***************************************************************************)

\* run_assurance verifies the manifest.
CheckBuild(p) ==
  /\ At(p, "assure")
  /\ IF Intact
       THEN Becomes(p, [job[p] EXCEPT !.step = "answers", !.seen = manifest])
       ELSE Exit(p)
  /\ UNCHANGED <<files, lab, world>>

\* Reading the artifacts, copying them or asking Batfish may raise; otherwise a
\* report is written under the hash of the manifest verified at the start,
\* whether it passes or not.
Assure(p) ==
  /\ At(p, "answers")
  /\ evidence' = [evidence EXCEPT !["assure"] = job[p].seen] \/ UNCHANGED evidence
  /\ Exit(p)
  /\ UNCHANGED <<disk, manifest, stamp, lab, world>>

Assuring(p) == CheckBuild(p) \/ Assure(p)

(***************************************************************************)
(* The environment.                                                        *)
(***************************************************************************)

\* Someone edits NetBox, the policy profile or the platform map.
ChangeIntent(i) ==
  /\ i # intent
  /\ Reverts \/ i \notin retired
  /\ intent' = i
  /\ retired' = retired \cup {intent}
  /\ UNCHANGED <<files, lab, job, faults>>

\* A container's process ends; Containerlab still reports the container.
ContainerExits(n) ==
  /\ lab[n] # Absent
  /\ lab[n].running
  /\ lab' = [lab EXCEPT ![n].running = FALSE]
  /\ UNCHANGED <<files, job, world>>

\* A command is killed or interrupted between two of its steps: nothing in
\* the lifecycle code catches KeyboardInterrupt.
Kill(p) ==
  /\ ~At(p, "idle")
  /\ BreakOff(p)

Step(p) ==
  \/ Compiling(p) \/ Deploying(p) \/ Destroying(p) \/ AttestingStep(p) \/ Assuring(p)

Next ==
  \/ \E p \in Procs : \/ \E c \in Menu : Start(p, c)
                      \/ Step(p)
                      \/ Kill(p)
  \/ \E i \in Inputs : ChangeIntent(i)
  \/ \E n \in Nodes : ContainerExits(n)

Spec == Init /\ [][Next]_vars

-----------------------------------------------------------------------------
(* Safety.                                                                 *)

\* Policy gate ("Fail before deploy: invalid cabling, addressing, ASNs, roles,
\* or planes prevent compilation and deployment"): however commands overlap,
\* fail or are killed, a container is only ever created from a topology and
\* configurations that were generated from inputs that passed validation.
OnlyValidatedRuns ==
  \A n \in Present :
    /\ \E i \in Inputs : Passes(i) /\ lab[n].from.topology = Content[i]["topology"]
    /\ \E i \in Inputs : Passes(i) /\ lab[n].from.rest = Content[i]["rest"]

\* Manifest integrity, one command at a time: whenever load_verified_manifest
\* accepts the directory, every artifact in it comes from the one input the
\* manifest names, and that input passed validation.  This must survive a
\* compile that stops or is killed between any two of its writes.
IntactBuildIsWhole ==
  Intact => Passes(manifest.input) /\ disk = Content[manifest.input]

\* Evidence identity, one command at a time: a report that assure, verify or
\* scenario run left never stands beside the manifest of another build.
EvidenceOfThisBuild ==
  \A c \in Reporting :
    manifest # NoManifest /\ evidence[c] # NoManifest => evidence[c] = manifest

\* Runtime identity ("Prove disk artifacts and the exact running lab share one
\* build identity"): once require_deployed_build has accepted, every container
\* of the lab was created from the topology and configurations of the build
\* whose hash goes into the report.
AttestedLabRunsTheBuild ==
  \A p \in Procs : At(p, "collect") =>
    \A n \in Present :
      lab[n].from = [topology |-> job[p].seen.files["topology"],
                     rest |-> job[p].seen.files["rest"]]

\* Compile guard, one command at a time ("Refuse to replace build artifacts
\* while their lab is still running"): while lab up removes and rewrites the
\* artifacts, no container of the lab exists.
GuardProtectsLab ==
  \A p \in Procs :
    /\ job[p].command = "up"
    /\ job[p].step \in {"fetch", "report", "clear", "clearTopology",
                        "clearManifest", "clearEvidence", "topology", "rest",
                        "digest", "manifest"}
    => ~LabRunning

\* Failed deployment: on each of the four failure paths that deploy has once
\* Containerlab has been started, when it returns with an error no stamp vouches
\* for what it left running, unless removing the stamp is itself what failed.
\* (That step, like a kill, counts as a fault.  What a stamp that stays can do
\* is the matter of AttestedLabRunsTheBuild.)
FailedDeployLeavesNoStamp ==
  [][\A p \in Procs :
       /\ job[p].step \in {"dropStamp", "cleanup", "abort", "abortStamp"}
       /\ job'[p].step = "idle"
       /\ faults' = faults
       => stamp' = NoStamp]_vars

-----------------------------------------------------------------------------
(* The build directory implements the contract its readers rely on.        *)

WholeBuilds ==
  {[input |-> i, files |-> Content[i]] : i \in {j \in Inputs : Passes(j)}}

Published == IF Intact THEN manifest ELSE NoManifest

Contract == INSTANCE SiteContract WITH
  Sound <- WholeBuilds, Kinds <- Reporting,
  NoBuild <- NoManifest, published <- Published, reports <- evidence

\* One command at a time, with failures and kills anywhere: the directory
\* publishes whole builds one after the other, never swaps one for another in
\* place, and keeps no report of another build beside a published one.
HonoursContract == Contract!Spec

-----------------------------------------------------------------------------
(* Liveness.  A command that has started takes its next step (every        *)
(* external call has a timeout, and a scenario stops polling at its        *)
(* deadline); the operator keeps trying lab down; and neither the          *)
(* inspection nor Containerlab's destroy fails for ever.                   *)

FairSpec ==
  /\ Spec
  /\ \A p \in Procs :
       /\ WF_vars(Step(p))
       /\ SF_vars(Conclude(p))
       /\ SF_vars(Start(p, "down"))
       /\ SF_vars(Down(p) /\ ~At(p, "idle")')
       /\ SF_vars(RunDestroy(p) /\ Present' = {} /\ ~At(p, "idle")')
       /\ SF_vars(CheckDown(p) /\ ~At(p, "idle")')

\* Teardown, for an operator who compiles through lab up only: whatever was
\* deployed, failed or was killed, lab down still finds the lab and removes it.
TornDownAgain == LabRunning ~> ~LabRunning

=============================================================================
