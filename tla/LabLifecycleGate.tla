-------------------------- MODULE LabLifecycleGate --------------------------
(***************************************************************************)
(* Type correctness of LabLifecycle and its policy gate, for every value   *)
(* of its constants: any number of commands that overlap, fail and are     *)
(* killed anywhere.                                                        *)
(***************************************************************************)
EXTENDS LabLifecycle, TLAPS


\* A command slot stays well typed when it is given a well typed record.
LEMMA BecomesTyping ==
  ASSUME NEW p \in Procs, job \in [Procs -> Jobs],
         NEW j \in Jobs, Becomes(p, j)
  PROVE  job' \in [Procs -> Jobs]
BY DEF Becomes

LEMMA ExitTyping ==
  ASSUME NEW p \in Procs, job \in [Procs -> Jobs], Exit(p)
  PROVE  job' \in [Procs -> Jobs]
<1>1. Idle \in Jobs
  BY DEF Idle, Jobs, JobRecords, Shaped, Steps
<1>2. QED
  BY <1>1, BecomesTyping DEF Exit

LEMMA GotoTyping ==
  ASSUME NEW p \in Procs, job \in [Procs -> Jobs], NEW s \in Steps,
         Shaped([job[p] EXCEPT !.step = s]), Goto(p, s)
  PROVE  job' \in [Procs -> Jobs]
<1>1. job[p] \in JobRecords
  BY DEF Jobs
<1>2. [job[p] EXCEPT !.step = s] \in Jobs
  BY <1>1 DEF Jobs, JobRecords
<1>3. QED
  BY <1>2, BecomesTyping DEF Goto

\* A command that breaks off leaves everything else well typed.
LEMMA BreakOffTyping ==
  ASSUME TypeOK, NEW p \in Procs, BreakOff(p)
  PROVE  TypeOK'
<1>1. faults' \in 0..MaxFaults
  BY BoundsAssumption DEF BreakOff, TypeOK
<1>2. job' \in [Procs -> Jobs]
  BY ExitTyping DEF BreakOff, TypeOK
<1>3. QED
  BY <1>1, <1>2 DEF BreakOff, TypeOK, files

\* Moving to a step that needs no more than the present one.
LEMMA StepTyping ==
  ASSUME NEW p \in Procs, job \in [Procs -> Jobs], NEW s \in Steps, Goto(p, s),
         /\ s \in {"report", "clear", "clearTopology", "clearManifest",
                   "clearEvidence", "topology", "rest", "digest"}
              => job[p].input \in Inputs
         /\ s \in {"manifest", "plan", "before", "deploy", "after", "stamp", "answers"}
              => job[p].seen \in Manifests
         /\ s \in {"attach", "identity", "attest", "collect", "fault"}
              => job[p].command \in Attesting
  PROVE  job' \in [Procs -> Jobs]
<1>1. job[p] \in JobRecords
  BY DEF Jobs
<1>2. Shaped([job[p] EXCEPT !.step = s])
  BY <1>1 DEF Shaped, JobRecords
<1>3. QED
  BY <1>2, GotoTyping

\* The assignments to local variables keep a record well typed.
LEMMA InputTyping ==
  ASSUME NEW j \in JobRecords, NEW i \in Inputs
  PROVE  [j EXCEPT !.input = i, !.step = "report"] \in Jobs
<1> DEFINE k == [j EXCEPT !.input = i, !.step = "report"]
<1>1. k \in JobRecords
  BY DEF JobRecords, Steps
<1>2. k.step = "report" /\ k.input = i
  BY DEF JobRecords
<1> HIDE DEF k
<1>3. Shaped(k)
  BY <1>2 DEF Shaped
<1>4. k \in Jobs
  BY <1>1, <1>3 DEF Jobs
<1>5. QED
  BY <1>4 DEF k

LEMMA SeenTyping ==
  ASSUME NEW j \in JobRecords, NEW m \in Manifests, NEW s \in {"manifest", "plan", "answers"}
  PROVE  [j EXCEPT !.step = s, !.seen = m] \in Jobs
<1> DEFINE k == [j EXCEPT !.step = s, !.seen = m]
<1>1. k \in JobRecords
  BY DEF JobRecords, Steps
<1>2. k.step = s /\ k.seen = m
  BY DEF JobRecords
<1> HIDE DEF k
<1>3. Shaped(k)
  BY <1>2 DEF Shaped
<1>4. k \in Jobs
  BY <1>1, <1>3 DEF Jobs
<1>5. QED
  BY <1>4 DEF k

LEMMA AttestTyping ==
  ASSUME NEW j \in JobRecords, j.command \in Attesting,
         NEW m \in Manifests, NEW names \in SUBSET Nodes
  PROVE  [j EXCEPT !.step = "attest", !.seen = m, !.names = names] \in Jobs
<1> DEFINE k == [j EXCEPT !.step = "attest", !.seen = m, !.names = names]
<1>1. k \in JobRecords
  BY DEF JobRecords, Steps
<1>2. k.step = "attest" /\ k.command = j.command
  BY DEF JobRecords
<1> HIDE DEF k
<1>3. Shaped(k)
  BY <1>2 DEF Shaped
<1>4. k \in Jobs
  BY <1>1, <1>3 DEF Jobs
<1>5. QED
  BY <1>4 DEF k

LEMMA BaseTyping ==
  ASSUME NEW j \in JobRecords, j.command \in Attesting,
         NEW m \in Manifests \cup {NoManifest}
  PROVE  [j EXCEPT !.base = m, !.step = "identity"] \in Jobs
<1> DEFINE k == [j EXCEPT !.base = m, !.step = "identity"]
<1>1. k \in JobRecords
  BY DEF JobRecords, Steps
<1>2. k.step = "identity" /\ k.command = j.command
  BY DEF JobRecords
<1> HIDE DEF k
<1>3. Shaped(k)
  BY <1>2 DEF Shaped
<1>4. k \in Jobs
  BY <1>1, <1>3 DEF Jobs
<1>5. QED
  BY <1>4 DEF k

LEMMA FaultTyping ==
  ASSUME NEW j \in JobRecords, j.command \in Attesting
  PROVE  [j EXCEPT !.faulted = TRUE, !.step = "fault"] \in Jobs
<1> DEFINE k == [j EXCEPT !.faulted = TRUE, !.step = "fault"]
<1>1. k \in JobRecords
  BY DEF JobRecords, Steps
<1>2. k.step = "fault" /\ k.command = j.command
  BY DEF JobRecords
<1> HIDE DEF k
<1>3. Shaped(k)
  BY <1>2 DEF Shaped
<1>4. k \in Jobs
  BY <1>1, <1>3 DEF Jobs
<1>5. QED
  BY <1>4 DEF k

\* Placing containers keeps the lab well typed while the files they are
\* created from exist.
LEMMA PlaceTyping ==
  ASSUME lab \in [Nodes -> Containers \cup {Absent}],
         NEW made \in SUBSET Nodes, NEW gone \in SUBSET Nodes,
         made = {} \/ Fresh \in Containers,
         Place(made, gone)
  PROVE  lab' \in [Nodes -> Containers \cup {Absent}]
BY DEF Place

LEMMA FreshTyping ==
  ASSUME disk \in [Artifacts -> Files \cup {NoFile}], Deployable
  PROVE  /\ Fresh \in Containers
         /\ NamesOf[disk["topology"]] \in SUBSET Nodes
BY ContentAssumption DEF Deployable, Fresh, Containers, Origins, Artifacts

LEMMA DestroyTyping ==
  ASSUME lab \in [Nodes -> Containers \cup {Absent}], ContainerlabDestroy
  PROVE  lab' \in [Nodes -> Containers \cup {Absent}]
BY PlaceTyping DEF ContainerlabDestroy, Present

\* An artifact is written with a digest of the content the input generates.
LEMMA DiskTyping ==
  ASSUME disk \in [Artifacts -> Files \cup {NoFile}],
         NEW x \in Artifacts, NEW f \in Files \cup {NoFile},
         disk' = [disk EXCEPT ![x] = f]
  PROVE  disk' \in [Artifacts -> Files \cup {NoFile}]
OBVIOUS

LEMMA ContentTyping ==
  ASSUME NEW i \in Inputs, NEW x \in Artifacts
  PROVE  Content[i][x] \in Files
BY ContentAssumption

\* Every step of a compiling command keeps the types.
LEMMA CompilingTyping ==
  ASSUME TypeOK, NEW p \in Procs, Compiling(p)
  PROVE  TypeOK'
<1> USE DEF TypeOK, files, world
<1>1. job[p] \in JobRecords /\ Shaped(job[p])
  BY DEF Jobs
<1>2. CASE Guard(p)
  <2>1. job' \in [Procs -> Jobs]
    BY <1>2, ExitTyping, StepTyping DEF Guard, Steps
  <2>2. QED
    BY <1>2, <2>1 DEF Guard
<1>3. CASE Fetch(p)
  <2>1. [job[p] EXCEPT !.input = intent, !.step = "report"] \in Jobs
    BY <1>1, InputTyping
  <2>2. job' \in [Procs -> Jobs]
    BY <1>3, <2>1, ExitTyping, BecomesTyping DEF Fetch
  <2>3. disk' \in [Artifacts -> Files \cup {NoFile}]
    BY <1>3, ContentTyping, DiskTyping DEF Fetch, Artifacts
  <2>4. QED
    BY <1>3, <2>2, <2>3 DEF Fetch
<1>4. CASE WriteReport(p)
  <2>1. job[p].input \in Inputs
    BY <1>1, <1>4 DEF WriteReport, At, Shaped
  <2>2. job' \in [Procs -> Jobs]
    BY <1>4, <2>1, ExitTyping, StepTyping DEF WriteReport, Steps
  <2>3. disk' \in [Artifacts -> Files \cup {NoFile}]
    BY <1>4, <2>1, ContentTyping, DiskTyping DEF WriteReport, Artifacts
  <2>4. QED
    BY <1>4, <2>2, <2>3 DEF WriteReport
<1>5. CASE ClearRest(p)
  <2>1. job' \in [Procs -> Jobs]
    BY <1>1, <1>5, ExitTyping, StepTyping DEF ClearRest, Steps, At, Shaped
  <2>2. disk' \in [Artifacts -> Files \cup {NoFile}]
    BY <1>5, DiskTyping DEF ClearRest, Artifacts
  <2>3. QED
    BY <1>5, <2>1, <2>2 DEF ClearRest
<1>6. CASE ClearTopology(p)
  <2>1. job' \in [Procs -> Jobs]
    BY <1>1, <1>6, ExitTyping, StepTyping DEF ClearTopology, Steps, At, Shaped
  <2>2. disk' \in [Artifacts -> Files \cup {NoFile}]
    BY <1>6, DiskTyping DEF ClearTopology, Artifacts
  <2>3. QED
    BY <1>6, <2>1, <2>2 DEF ClearTopology
<1>7. CASE ClearManifest(p)
  <2>1. job' \in [Procs -> Jobs]
    BY <1>1, <1>7, ExitTyping, StepTyping DEF ClearManifest, Steps, At, Shaped
  <2>2. QED
    BY <1>7, <2>1 DEF ClearManifest
<1>8. CASE ClearEvidence(p)
  <2>1. job' \in [Procs -> Jobs]
    BY <1>1, <1>8, ExitTyping, StepTyping DEF ClearEvidence, Steps, At, Shaped
  <2>2. \A gone : EvidenceWithout(gone) \in [Reporting -> Manifests \cup {NoManifest}]
    BY DEF EvidenceWithout
  <2>3. QED
    BY <1>8, <2>1, <2>2 DEF ClearEvidence
<1>9. CASE WriteTopology(p)
  <2>1. job[p].input \in Inputs
    BY <1>1, <1>9 DEF WriteTopology, Generate, At, Shaped
  <2>2. job' \in [Procs -> Jobs]
    BY <1>9, <2>1, ExitTyping, StepTyping DEF WriteTopology, Generate, Steps
  <2>3. disk' \in [Artifacts -> Files \cup {NoFile}]
    BY <1>9, <2>1, ContentTyping, DiskTyping DEF WriteTopology, Generate, Artifacts
  <2>4. QED
    BY <1>9, <2>2, <2>3 DEF WriteTopology, Generate
<1>10. CASE WriteRest(p)
  <2>1. job[p].input \in Inputs
    BY <1>1, <1>10 DEF WriteRest, Generate, At, Shaped
  <2>2. job' \in [Procs -> Jobs]
    BY <1>10, <2>1, ExitTyping, StepTyping DEF WriteRest, Generate, Steps
  <2>3. disk' \in [Artifacts -> Files \cup {NoFile}]
    BY <1>10, <2>1, ContentTyping, DiskTyping DEF WriteRest, Generate, Artifacts
  <2>4. QED
    BY <1>10, <2>2, <2>3 DEF WriteRest, Generate
<1>11. CASE DigestFiles(p)
  <2>1. CASE \A x \in Artifacts : disk[x] # NoFile
    <3>1. [input |-> job[p].input, files |-> disk] \in Manifests
      BY <1>1, <1>11, <2>1 DEF DigestFiles, At, Shaped, Manifests, JobRecords
    <3>2. [job[p] EXCEPT !.step = "manifest",
             !.seen = [input |-> job[p].input, files |-> disk]] \in Jobs
      BY <1>1, <3>1, SeenTyping
    <3>3. QED
      BY <1>11, <2>1, <3>2, BecomesTyping DEF DigestFiles
  <2>2. CASE ~\A x \in Artifacts : disk[x] # NoFile
    BY <1>11, <2>2, ExitTyping DEF DigestFiles
  <2>3. QED
    BY <2>1, <2>2
<1>12. CASE WriteManifest(p)
  <2>1. job[p].seen \in Manifests
    BY <1>1, <1>12 DEF WriteManifest, At, Shaped
  <2>2. job' \in [Procs -> Jobs]
    BY <1>12, ExitTyping, StepTyping DEF WriteManifest, Steps
  <2>3. QED
    BY <1>12, <2>1, <2>2 DEF WriteManifest
<1>13. QED
  BY <1>2, <1>3, <1>4, <1>5, <1>6, <1>7, <1>8, <1>9, <1>10, <1>11, <1>12
     DEF Compiling

\* Every step of a deploying command keeps the types.
LEMMA DeployingTyping ==
  ASSUME TypeOK, NEW p \in Procs, Deploying(p)
  PROVE  TypeOK'
<1> USE DEF TypeOK, files, world
<1>1. job[p] \in JobRecords /\ Shaped(job[p])
  BY DEF Jobs
<1>2. CASE CheckIntegrity(p)
  <2>1. CASE Intact
    <3>1. manifest \in Manifests
      BY <2>1 DEF Intact
    <3>2. [job[p] EXCEPT !.step = "plan", !.seen = manifest] \in Jobs
      BY <1>1, <3>1, SeenTyping
    <3>3. QED
      BY <1>2, <2>1, <3>2, BecomesTyping DEF CheckIntegrity
  <2>2. CASE ~Intact
    BY <1>2, <2>2, ExitTyping DEF CheckIntegrity
  <2>3. QED
    BY <2>1, <2>2
<1>3. CASE CheckPlan(p)
  <2>1. job[p].seen \in Manifests
    BY <1>1, <1>3 DEF CheckPlan, At, Shaped
  <2>2. Deployable => [job[p] EXCEPT !.step = "before",
                         !.names = NamesOf[disk["topology"]]] \in Jobs
    BY <1>1, <2>1, FreshTyping DEF Jobs, JobRecords, Shaped, Steps
  <2>3. job' \in [Procs -> Jobs]
    BY <1>3, <2>2, BecomesTyping, ExitTyping DEF CheckPlan, CountsAgree
  <2>4. QED
    BY <1>3, <2>3 DEF CheckPlan
<1>4. CASE CheckBefore(p)
  <2>1. job[p].seen \in Manifests
    BY <1>1, <1>4 DEF CheckBefore, At, Shaped
  <2>2. job' \in [Procs -> Jobs]
    BY <1>4, <2>1, StepTyping, ExitTyping DEF CheckBefore, Steps
  <2>3. QED
    BY <1>4, <2>2 DEF CheckBefore
<1>5. CASE RunDeploy(p)
  <2>1. job[p].seen \in Manifests
    BY <1>1, <1>5 DEF RunDeploy, At, Shaped
  <2>2. job' \in [Procs -> Jobs]
    BY <1>5, <2>1, StepTyping DEF RunDeploy, Steps
  <2>3. ASSUME NEW replace \in BOOLEAN, ContainerlabDeployed(replace)
        PROVE  lab' \in [Nodes -> Containers \cup {Absent}]
    <3>1. Deployable
      BY <2>3 DEF ContainerlabDeployed
    <3>2. QED
      BY <2>3, <3>1, FreshTyping, PlaceTyping DEF ContainerlabDeployed, Present
  <2>4. ASSUME NEW replace \in BOOLEAN, ContainerlabDeployFailed(replace)
        PROVE  lab' \in [Nodes -> Containers \cup {Absent}]
    <3>1. CASE Deployable /\ (replace \/ ~LabRunning)
      <4>1. PICK made \in SUBSET NamesOf[disk["topology"]],
                 gone \in SUBSET Present : Place(made, gone)
        BY <2>4, <3>1 DEF ContainerlabDeployFailed
      <4>2. made \in SUBSET Nodes /\ gone \in SUBSET Nodes
        BY <3>1, FreshTyping DEF Present
      <4>3. QED
        BY <3>1, <4>1, <4>2, FreshTyping, PlaceTyping
    <3>2. CASE ~(Deployable /\ (replace \/ ~LabRunning))
      BY <2>4, <3>2 DEF ContainerlabDeployFailed
    <3>3. QED
      BY <3>1, <3>2
  <2>5. lab' \in [Nodes -> Containers \cup {Absent}]
    BY <1>5, <2>3, <2>4 DEF RunDeploy
  <2>6. QED
    BY <1>5, <2>2, <2>5 DEF RunDeploy
<1>6. CASE DropStamp(p)
  <2>1. CASE StampRemoved /\ Goto(p, "cleanup")
    BY <2>1, StepTyping DEF StampRemoved, Steps
  <2>2. QED
    BY <1>6, <2>1, BreakOffTyping DEF DropStamp
<1>7. CASE Cleanup(p)
  BY <1>7, ExitTyping, DestroyTyping DEF Cleanup
<1>8. CASE CheckAfter(p)
  <2>1. job[p].seen \in Manifests
    BY <1>1, <1>8 DEF CheckAfter, At, Shaped
  <2>2. job' \in [Procs -> Jobs]
    BY <1>8, <2>1, StepTyping DEF CheckAfter, Steps
  <2>3. QED
    BY <1>8, <2>2 DEF CheckAfter
<1>9. CASE Abort(p)
  <2>1. job' \in [Procs -> Jobs]
    BY <1>9, StepTyping DEF Abort, Steps
  <2>2. QED
    BY <1>9, <2>1, DestroyTyping DEF Abort
<1>10. CASE AbortStamp(p)
  <2>1. CASE StampRemoved /\ Exit(p)
    BY <2>1, ExitTyping DEF StampRemoved
  <2>2. QED
    BY <1>10, <2>1, BreakOffTyping DEF AbortStamp
<1>11. CASE WriteStamp(p)
  <2>1. job[p].seen \in Manifests
    BY <1>1, <1>11 DEF WriteStamp, At, Shaped
  <2>2. job' \in [Procs -> Jobs]
    BY <1>11, ExitTyping, StepTyping DEF WriteStamp, Steps
  <2>3. disk["topology"] # NoFile =>
          [topology |-> disk["topology"], build |-> job[p].seen,
           names |-> NamesOf[disk["topology"]]] \in Stamps
    BY <2>1, ContentAssumption DEF Stamps, Artifacts
  <2>4. QED
    BY <1>11, <2>2, <2>3 DEF WriteStamp
<1>12. QED
  BY <1>2, <1>3, <1>4, <1>5, <1>6, <1>7, <1>8, <1>9, <1>10, <1>11 DEF Deploying

\* Every step of lab down, verify and scenario run keeps the types.
LEMMA DestroyingTyping ==
  ASSUME TypeOK, NEW p \in Procs, Destroying(p)
  PROVE  TypeOK'
<1> USE DEF TypeOK, files, world
<1>1. CASE Down(p)
  <2>1. job' \in [Procs -> Jobs]
    BY <1>1, ExitTyping, StepTyping DEF Down, Steps
  <2>2. QED
    BY <1>1, <2>1 DEF Down
<1>2. CASE RunDestroy(p)
  <2>1. job' \in [Procs -> Jobs]
    BY <1>2, ExitTyping, StepTyping DEF RunDestroy, Steps
  <2>2. QED
    BY <1>2, <2>1, DestroyTyping DEF RunDestroy
<1>3. CASE CheckDown(p)
  <2>1. job' \in [Procs -> Jobs]
    BY <1>3, ExitTyping, StepTyping DEF CheckDown, Steps
  <2>2. QED
    BY <1>3, <2>1 DEF CheckDown
<1>4. CASE RemoveStamp(p)
  <2>1. CASE StampRemoved /\ Exit(p)
    BY <2>1, ExitTyping DEF StampRemoved
  <2>2. QED
    BY <1>4, <2>1, BreakOffTyping DEF RemoveStamp
<1>5. QED
  BY <1>1, <1>2, <1>3, <1>4 DEF Destroying

LEMMA RefuseTyping ==
  ASSUME NEW p \in Procs, job \in [Procs -> Jobs], job[p].command \in Attesting,
         Refuse(p)
  PROVE  job' \in [Procs -> Jobs]
BY ExitTyping, StepTyping DEF Refuse, Steps

LEMMA AttestingTyping ==
  ASSUME TypeOK, NEW p \in Procs, AttestingStep(p)
  PROVE  TypeOK'
<1> USE DEF TypeOK, files, world
<1>1. job[p] \in JobRecords /\ Shaped(job[p])
  BY DEF Jobs
<1>2. job[p].command \in Attesting /\ job[p].seen \in Manifests \cup {NoManifest}
      /\ job[p].base \in Manifests \cup {NoManifest}
  BY <1>1 DEF AttestingStep, Attach, CheckIdentity, CheckRuntime, Verify, Baseline, Observe,
     Observed, Conclude, At, Shaped, JobRecords
<1>3. CASE Attach(p)
  <2>1. job' \in [Procs -> Jobs]
    BY <1>2, <1>3, ExitTyping, StepTyping DEF Attach, Steps
  <2>2. QED
    BY <1>3, <2>1 DEF Attach
<1>4. CASE CheckIdentity(p)
  <2>1. CASE Intact /\ StampMatches
    <3>1. manifest \in Manifests /\ stamp.names \in SUBSET Nodes
      BY <2>1 DEF Intact, StampMatches, Stamps
    <3>2. [job[p] EXCEPT !.step = "attest", !.seen = manifest,
             !.names = stamp.names] \in Jobs
      BY <1>1, <1>2, <3>1, AttestTyping
    <3>3. QED
      BY <1>4, <2>1, <3>2, BecomesTyping DEF CheckIdentity
  <2>2. CASE ~(Intact /\ StampMatches)
    BY <1>2, <1>4, <2>2, RefuseTyping DEF CheckIdentity
  <2>3. QED
    BY <2>1, <2>2
<1>5. CASE CheckRuntime(p)
  <2>1. [job[p] EXCEPT !.base = job[p].seen, !.step = "identity"] \in Jobs
    BY <1>1, <1>2, BaseTyping
  <2>2. job' \in [Procs -> Jobs]
    BY <1>2, <1>5, <2>1, BecomesTyping, RefuseTyping, StepTyping DEF CheckRuntime, Steps
  <2>3. QED
    BY <1>5, <2>2 DEF CheckRuntime
<1>6. CASE Verify(p) \/ Conclude(p)
  <2>1. "verify" \in Reporting /\ "scenario" \in Reporting
    BY DEF Attesting, Reporting
  <2>2. QED
    BY <1>2, <1>6, <2>1, ExitTyping DEF Verify, Verified, Conclude
<1>7. CASE Baseline(p)
  <2>1. [job[p] EXCEPT !.faulted = TRUE, !.step = "fault"] \in Jobs
    BY <1>1, <1>2, FaultTyping
  <2>2. job' \in [Procs -> Jobs]
    BY <1>7, <2>1, BecomesTyping, ExitTyping DEF Baseline
  <2>3. QED
    BY <1>2, <1>7, <2>2 DEF Baseline, Verified
<1>8. CASE Observe(p) \/ Observed(p)
  <2>1. job' \in [Procs -> Jobs]
    BY <1>2, <1>8, StepTyping DEF Observe, Observed, Steps
  <2>2. QED
    BY <1>2, <1>8, <2>1 DEF Observe, Observed, Verified
<1>9. QED
  BY <1>3, <1>4, <1>5, <1>6, <1>7, <1>8 DEF AttestingStep

LEMMA AssuringTyping ==
  ASSUME TypeOK, NEW p \in Procs, Assuring(p)
  PROVE  TypeOK'
<1> USE DEF TypeOK, files, world
<1>1. job[p] \in JobRecords /\ Shaped(job[p])
  BY DEF Jobs
<1>2. CASE CheckBuild(p)
  <2>1. CASE Exit(p)
    BY <1>2, <2>1, ExitTyping DEF CheckBuild
  <2>2. CASE Intact /\ Becomes(p, [job[p] EXCEPT !.step = "answers", !.seen = manifest])
    <3>1. [job[p] EXCEPT !.step = "answers", !.seen = manifest] \in Jobs
      BY <1>1, <2>2, SeenTyping DEF Intact
    <3>2. QED
      BY <1>2, <2>2, <3>1, BecomesTyping DEF CheckBuild
  <2>3. QED
    BY <1>2, <2>1, <2>2 DEF CheckBuild
<1>3. CASE Assure(p)
  <2>1. "assure" \in Reporting /\ job[p].seen \in Manifests
    BY <1>1, <1>3 DEF Reporting, Assure, At, Shaped
  <2>2. QED
    BY <1>3, <2>1, ExitTyping DEF Assure
<1>4. QED
  BY <1>2, <1>3 DEF Assuring

\* A command starts at the first step of its kind.
LEMMA StartTyping ==
  ASSUME TypeOK, NEW p \in Procs, NEW c \in Menu, Start(p, c)
  PROVE  TypeOK'
<1>1. c \in Commands
  BY MenuAssumption
<1>2. Idle \in JobRecords
  BY DEF Idle, JobRecords, Steps
<1>3. /\ FirstStep(c) \in {"guard", "fetch", "integrity", "down", "attach", "assure"}
      /\ FirstStep(c) = "attach" => c \in Attesting
  BY <1>1 DEF Commands, FirstStep, Attesting
<1>4. [Idle EXCEPT !.command = c, !.step = FirstStep(c)] \in Jobs
  <2> DEFINE k == [Idle EXCEPT !.command = c, !.step = FirstStep(c)]
  <2>1. k \in JobRecords /\ k.step = FirstStep(c) /\ k.command = c
    BY <1>1, <1>2, <1>3 DEF JobRecords, Steps
  <2> HIDE DEF k
  <2>2. Shaped(k)
    BY <1>3, <2>1 DEF Shaped
  <2>3. k \in Jobs
    BY <2>1, <2>2 DEF Jobs
  <2>4. QED
    BY <2>3 DEF k
<1>5. job' \in [Procs -> Jobs]
  BY <1>4, BecomesTyping DEF Start, TypeOK
<1>6. QED
  BY <1>5 DEF Start, TypeOK, files, world

LEMMA ExitingLabTyping ==
  ASSUME TypeOK, NEW n \in Nodes, ContainerExits(n)
  PROVE  TypeOK'
<1>1. lab[n] \in Containers
  BY DEF TypeOK, ContainerExits
<1>2. [lab[n] EXCEPT !.running = FALSE] \in Containers
  BY <1>1 DEF Containers
<1>3. QED
  BY <1>2 DEF TypeOK, ContainerExits, files, world

LEMMA InitTyping == Init => TypeOK
<1> SUFFICES ASSUME Init PROVE TypeOK
  OBVIOUS
<1>1. Idle \in Jobs
  BY DEF Idle, Jobs, JobRecords, Shaped, Steps
<1>2. QED
  BY <1>1, BoundsAssumption DEF Init, TypeOK

LEMMA NextTyping == TypeOK /\ [Next]_vars => TypeOK'
<1> SUFFICES ASSUME TypeOK, [Next]_vars PROVE TypeOK'
  OBVIOUS
<1>1. ASSUME NEW p \in Procs, Step(p) PROVE TypeOK'
  BY <1>1, CompilingTyping, DeployingTyping, DestroyingTyping, AttestingTyping,
     AssuringTyping DEF Step
<1>2. ASSUME NEW p \in Procs, Kill(p) PROVE TypeOK'
  BY <1>2, BreakOffTyping DEF Kill
<1>3. ASSUME NEW i \in Inputs, ChangeIntent(i) PROVE TypeOK'
  BY <1>3 DEF ChangeIntent, TypeOK, files
<1>4. CASE UNCHANGED vars
  BY <1>4 DEF vars, TypeOK
<1>5. QED
  BY <1>1, <1>2, <1>3, <1>4, StartTyping, ExitingLabTyping DEF Next

\* Type correctness: the state of the build directory, the lab and the commands
\* always has the shape TypeOK gives it, and a command that has reached a step
\* has set the local variables the step reads.
THEOREM TypeCorrect == Spec => []TypeOK
BY InitTyping, NextTyping, PTL DEF Spec

-----------------------------------------------------------------------------
(* The policy gate.                                                        *)

Rendering == {"clear", "clearTopology", "clearManifest", "clearEvidence",
              "topology", "rest", "digest"}

ValidFile(a, f) == \E i \in Inputs : Passes(i) /\ f = Content[i][a]

\* Only a command whose input passed gets as far as rendering, so only files
\* of inputs that passed are ever on disk for Containerlab to read.
GateInv ==
  /\ \A p \in Procs : job[p].step \in Rendering => Passes(job[p].input)
  /\ \A a \in {"topology", "rest"} : disk[a] # NoFile => ValidFile(a, disk[a])

-----------------------------------------------------------------------------
(* How the actions move a command slot.                                    *)

LEMMA ExitEffect ==
  ASSUME NEW p \in Procs, job \in [Procs -> Jobs], Exit(p)
  PROVE  job'[p] = Idle /\ \A q \in Procs \ {p} : job'[q] = job[q]
BY DEF Exit, Becomes

LEMMA GotoEffect ==
  ASSUME NEW p \in Procs, job \in [Procs -> Jobs], NEW s, Goto(p, s)
  PROVE  /\ job'[p] = [job[p] EXCEPT !.step = s]
         /\ job'[p].step = s
         /\ job'[p].input = job[p].input
         /\ job'[p].seen = job[p].seen
         /\ job'[p].names = job[p].names
         /\ job'[p].command = job[p].command
         /\ \A q \in Procs \ {p} : job'[q] = job[q]
<1>1. job[p] \in JobRecords
  BY DEF Jobs
<1>2. job'[p] = [job[p] EXCEPT !.step = s] /\ \A q \in Procs \ {p} : job'[q] = job[q]
  BY DEF Goto, Becomes
<1>3. QED
  BY <1>1, <1>2 DEF JobRecords

LEMMA BecomesEffect ==
  ASSUME NEW p \in Procs, job \in [Procs -> Jobs], NEW j, Becomes(p, j)
  PROVE  job'[p] = j /\ \A q \in Procs \ {p} : job'[q] = job[q]
BY DEF Becomes

LEMMA IdleStep == Idle.step = "idle"
BY DEF Idle

-----------------------------------------------------------------------------
(* GateInv is kept by every step.                                          *)

\* The gate is kept by a step that writes no artifact and enters rendering
\* only where it already was.
LEMMA GateKept ==
  ASSUME TypeOK, GateInv, NEW p \in Procs, UNCHANGED disk,
         \A q \in Procs \ {p} : job'[q] = job[q],
         job'[p].step \in Rendering => job[p].step \in Rendering
                                       /\ job'[p].input = job[p].input
  PROVE  GateInv'
BY DEF GateInv, ValidFile, Passes

\* In particular by a step that leaves the slot outside rendering.
LEMMA GateBecomes ==
  ASSUME TypeOK, GateInv, NEW p \in Procs, UNCHANGED disk,
         NEW j, j.step \notin Rendering, Becomes(p, j)
  PROVE  GateInv'
<1>1. job'[p] = j /\ \A q \in Procs \ {p} : job'[q] = job[q]
  BY BecomesEffect DEF TypeOK
<1>2. QED
  BY <1>1, GateKept

LEMMA GateExit ==
  ASSUME TypeOK, GateInv, NEW p \in Procs, UNCHANGED disk, Exit(p)
  PROVE  GateInv'
BY GateBecomes, IdleStep DEF Exit, Rendering

LEMMA GateBreakOff ==
  ASSUME TypeOK, GateInv, NEW p \in Procs, BreakOff(p)
  PROVE  GateInv'
BY GateExit DEF BreakOff, files

LEMMA GateGoto ==
  ASSUME TypeOK, GateInv, NEW p \in Procs, UNCHANGED disk,
         NEW s, s \notin Rendering, Goto(p, s)
  PROVE  GateInv'
<1>1. [job[p] EXCEPT !.step = s].step = s
  BY DEF TypeOK, Jobs, JobRecords
<1>2. QED
  BY <1>1, GateBecomes DEF Goto

LEMMA CompilingGate ==
  ASSUME TypeOK, GateInv, NEW p \in Procs, Compiling(p)
  PROVE  GateInv'
<1> USE DEF Rendering
<1>0. job \in [Procs -> Jobs] /\ job[p] \in JobRecords
  BY DEF TypeOK, Jobs
<1>1. CASE Guard(p)
  BY <1>1, GateExit, GateGoto DEF Guard, files
<1>2. CASE Fetch(p)
  <2>0. [job[p] EXCEPT !.input = intent, !.step = "report"].step = "report"
    BY <1>0 DEF JobRecords
  <2>1. job'[p].step \notin Rendering /\ \A q \in Procs \ {p} : job'[q] = job[q]
    <3>1. CASE Exit(p)
      BY <1>0, <3>1, ExitEffect, IdleStep
    <3>2. CASE Becomes(p, [job[p] EXCEPT !.input = intent, !.step = "report"])
      BY <1>0, <2>0, <3>2, BecomesEffect
    <3>3. QED
      BY <1>2, <3>1, <3>2 DEF Fetch
  <2>2. \A a \in {"topology", "rest"} : disk'[a] = disk[a]
    BY <1>2 DEF Fetch, TypeOK, Artifacts
  <2>3. QED
    BY <2>1, <2>2 DEF GateInv, ValidFile, Passes
<1>3. CASE WriteReport(p)
  <2>1. \A q \in Procs \ {p} : job'[q] = job[q]
    BY <1>0, <1>3, ExitEffect, GotoEffect DEF WriteReport
  <2>2. job'[p].step \in Rendering => Passes(job'[p].input)
    BY <1>0, <1>3, ExitEffect, GotoEffect, IdleStep DEF WriteReport, Passes
  <2>3. \A a \in {"topology", "rest"} : disk'[a] = disk[a]
    BY <1>3 DEF WriteReport, TypeOK, Artifacts
  <2>4. QED
    BY <2>1, <2>2, <2>3 DEF GateInv, ValidFile, Passes
<1>4. CASE ClearRest(p)
  <2>1. /\ \A q \in Procs \ {p} : job'[q] = job[q]
        /\ job'[p].step \in Rendering => job'[p].input = job[p].input
    BY <1>0, <1>4, ExitEffect, GotoEffect, IdleStep DEF ClearRest
  <2>2. job[p].step \in Rendering
    BY <1>4 DEF ClearRest, At
  <2>3. \A a \in {"topology", "rest"} : disk'[a] \in {disk[a], NoFile}
    BY <1>4 DEF ClearRest, TypeOK, Artifacts
  <2>4. QED
    BY <2>1, <2>2, <2>3 DEF GateInv, ValidFile, Passes
<1>5. CASE ClearTopology(p)
  <2>1. /\ \A q \in Procs \ {p} : job'[q] = job[q]
        /\ job'[p].step \in Rendering => job'[p].input = job[p].input
    BY <1>0, <1>5, ExitEffect, GotoEffect, IdleStep DEF ClearTopology
  <2>2. job[p].step \in Rendering
    BY <1>5 DEF ClearTopology, At
  <2>3. \A a \in {"topology", "rest"} : disk'[a] \in {disk[a], NoFile}
    BY <1>5 DEF ClearTopology, TypeOK, Artifacts
  <2>4. QED
    BY <2>1, <2>2, <2>3 DEF GateInv, ValidFile, Passes
<1>6. CASE ClearManifest(p)
  BY <1>0, <1>6, ExitEffect, GotoEffect, IdleStep, GateKept DEF ClearManifest, At
<1>7. CASE ClearEvidence(p)
  BY <1>0, <1>7, ExitEffect, GotoEffect, IdleStep, GateKept DEF ClearEvidence, At
<1>8. ASSUME NEW a \in {"topology", "rest"}, NEW s \in {"rest", "digest"},
             Generate(p, a, s)
      PROVE  GateInv'
  <2>1. job[p].step \in Rendering /\ job[p].input \in Inputs
    BY <1>0, <1>8 DEF Generate, At, TypeOK, Jobs, Shaped
  <2>2. Passes(job[p].input)
    BY <2>1 DEF GateInv
  <2>3. /\ \A q \in Procs \ {p} : job'[q] = job[q]
        /\ job'[p].step \in Rendering => job'[p].input = job[p].input
    BY <1>0, <1>8, ExitEffect, GotoEffect, IdleStep DEF Generate
  <2>4. \A b \in {"topology", "rest"} :
          disk'[b] = disk[b] \/ disk'[b] = Content[job[p].input][b]
    BY <1>8 DEF Generate, TypeOK, Artifacts
  <2>5. \A b \in {"topology", "rest"} : disk'[b] # NoFile => ValidFile(b, disk'[b])
    BY <2>1, <2>2, <2>4 DEF GateInv, ValidFile
  <2>6. QED
    BY <2>1, <2>2, <2>3, <2>5 DEF GateInv, ValidFile, Passes
<1>9. CASE WriteTopology(p)
  BY <1>8, <1>9 DEF WriteTopology
<1>10. CASE WriteRest(p)
  BY <1>8, <1>10 DEF WriteRest
<1>11. CASE DigestFiles(p)
  <2> DEFINE m == [input |-> job[p].input, files |-> disk]
  <2>0. [job[p] EXCEPT !.step = "manifest", !.seen = m].step = "manifest"
    BY <1>0 DEF JobRecords
  <2>1. job'[p].step \notin Rendering /\ \A q \in Procs \ {p} : job'[q] = job[q]
    <3>1. CASE Exit(p)
      BY <1>0, <3>1, ExitEffect, IdleStep
    <3>2. CASE Becomes(p, [job[p] EXCEPT !.step = "manifest", !.seen = m])
      BY <1>0, <2>0, <3>2, BecomesEffect
    <3>3. QED
      BY <1>11, <3>1, <3>2 DEF DigestFiles
  <2>2. QED
    BY <1>11, <2>1, GateKept DEF DigestFiles, files
<1>12. CASE WriteManifest(p)
  BY <1>12, GateExit, GateGoto DEF WriteManifest
<1>13. QED
  BY <1>1, <1>2, <1>3, <1>4, <1>5, <1>6, <1>7, <1>9, <1>10, <1>11, <1>12
     DEF Compiling

LEMMA DeployingGate ==
  ASSUME TypeOK, GateInv, NEW p \in Procs, Deploying(p)
  PROVE  GateInv'
<1> USE DEF Rendering
<1>0. job \in [Procs -> Jobs] /\ job[p] \in JobRecords
  BY DEF TypeOK, Jobs
<1>1. CASE CheckIntegrity(p)
  <2>0. [job[p] EXCEPT !.step = "plan", !.seen = manifest].step = "plan"
    BY <1>0 DEF JobRecords
  <2>1. CASE Exit(p)
    BY <1>0, <1>1, <2>1, GateExit DEF CheckIntegrity, files
  <2>2. CASE Becomes(p, [job[p] EXCEPT !.step = "plan", !.seen = manifest])
    BY <1>0, <1>1, <2>0, <2>2, GateBecomes DEF CheckIntegrity, files
  <2>3. QED
    BY <1>1, <2>1, <2>2 DEF CheckIntegrity
<1>2. CASE CheckPlan(p)
  <2> DEFINE names == NamesOf[disk["topology"]]
  <2>0. [job[p] EXCEPT !.step = "before", !.names = names].step = "before"
    BY <1>0 DEF JobRecords
  <2>1. CASE Exit(p)
    BY <1>0, <1>2, <2>1, GateExit DEF CheckPlan, files
  <2>2. CASE Becomes(p, [job[p] EXCEPT !.step = "before", !.names = names])
    BY <1>0, <1>2, <2>0, <2>2, GateBecomes DEF CheckPlan, files
  <2>3. QED
    BY <1>2, <2>1, <2>2 DEF CheckPlan
<1>3. CASE CheckBefore(p)
  BY <1>0, <1>3, GateExit, GateGoto DEF CheckBefore, files
<1>4. CASE RunDeploy(p)
  BY <1>0, <1>4, GateGoto DEF RunDeploy, files
<1>5. CASE DropStamp(p)
  BY <1>0, <1>5, GateGoto, GateBreakOff DEF DropStamp, StampRemoved
<1>6. CASE Cleanup(p)
  BY <1>0, <1>6, GateExit DEF Cleanup, files
<1>7. CASE CheckAfter(p)
  BY <1>0, <1>7, GateGoto DEF CheckAfter, files
<1>8. CASE Abort(p)
  BY <1>0, <1>8, GateGoto DEF Abort, files
<1>9. CASE AbortStamp(p)
  BY <1>0, <1>9, GateExit, GateBreakOff DEF AbortStamp, StampRemoved
<1>10. CASE WriteStamp(p)
  BY <1>0, <1>10, GateExit, GateGoto DEF WriteStamp
<1>11. QED
  BY <1>1, <1>2, <1>3, <1>4, <1>5, <1>6, <1>7, <1>8, <1>9, <1>10 DEF Deploying

LEMMA OtherGate ==
  ASSUME TypeOK, GateInv, NEW p \in Procs, Destroying(p) \/ AttestingStep(p)
  PROVE  GateInv'
<1> USE DEF Rendering
<1>0. job \in [Procs -> Jobs] /\ job[p] \in JobRecords
  BY DEF TypeOK, Jobs
<1>1. CASE Down(p)
  BY <1>0, <1>1, GateExit, GateGoto DEF Down, files
<1>2. CASE RunDestroy(p)
  BY <1>0, <1>2, GateExit, GateGoto DEF RunDestroy, files
<1>3. CASE CheckDown(p)
  BY <1>0, <1>3, GateExit, GateGoto DEF CheckDown, files
<1>4. CASE RemoveStamp(p)
  BY <1>0, <1>4, GateExit, GateBreakOff DEF RemoveStamp, StampRemoved
<1>5. CASE Attach(p)
  BY <1>0, <1>5, GateExit, GateGoto DEF Attach, files
<1>6. CASE CheckIdentity(p)
  <2> DEFINE j == [job[p] EXCEPT !.step = "attest", !.seen = manifest,
                                 !.names = stamp.names]
  <2>0. j.step = "attest"
    BY <1>0 DEF JobRecords
  <2>1. CASE Refuse(p)
    BY <1>0, <1>6, <2>1, GateExit, GateGoto DEF CheckIdentity, Refuse, files
  <2>2. CASE Becomes(p, j)
    <3> HIDE DEF j
    <3> QED BY <1>0, <1>6, <2>0, <2>2, GateBecomes DEF CheckIdentity, files
  <2>3. QED
    BY <1>6, <2>1, <2>2 DEF CheckIdentity
<1>7. CASE CheckRuntime(p)
  <2> DEFINE j == [job[p] EXCEPT !.base = job[p].seen, !.step = "identity"]
  <2>0. j.step = "identity"
    BY <1>0 DEF JobRecords
  <2>1. CASE Refuse(p) \/ Goto(p, "collect")
    BY <1>0, <1>7, <2>1, GateExit, GateGoto DEF CheckRuntime, Refuse, files
  <2>2. CASE Becomes(p, j)
    <3> HIDE DEF j
    <3> QED BY <1>0, <1>7, <2>0, <2>2, GateBecomes DEF CheckRuntime, files
  <2>3. QED
    BY <1>7, <2>1, <2>2 DEF CheckRuntime
<1>8. CASE Verify(p) \/ Conclude(p)
  BY <1>0, <1>8, GateExit DEF Verify, Conclude
<1>9. CASE Baseline(p)
  <2> DEFINE j == [job[p] EXCEPT !.faulted = TRUE, !.step = "fault"]
  <2>0. j.step = "fault"
    BY <1>0 DEF JobRecords
  <2>1. CASE Exit(p)
    BY <1>0, <1>9, <2>1, GateExit DEF Baseline
  <2>2. CASE Becomes(p, j)
    <3> HIDE DEF j
    <3> QED BY <1>0, <1>9, <2>0, <2>2, GateBecomes DEF Baseline
  <2>3. QED
    BY <1>9, <2>1, <2>2 DEF Baseline
<1>10. CASE Observe(p) \/ Observed(p)
  BY <1>0, <1>10, GateGoto DEF Observe, Observed, files
<1>11. QED
  BY <1>1, <1>2, <1>3, <1>4, <1>5, <1>6, <1>7, <1>8, <1>9, <1>10
     DEF Destroying, AttestingStep

LEMMA AssuringGate ==
  ASSUME TypeOK, GateInv, NEW p \in Procs, Assuring(p)
  PROVE  GateInv'
<1> USE DEF Rendering
<1>0. job \in [Procs -> Jobs] /\ job[p] \in JobRecords
  BY DEF TypeOK, Jobs
<1>1. CASE Exit(p)
  BY <1>0, <1>1, GateExit DEF Assuring, CheckBuild, Assure, files
<1>2. CASE CheckBuild(p) /\ ~Exit(p)
  <2> DEFINE j == [job[p] EXCEPT !.step = "answers", !.seen = manifest]
  <2>1. j.step = "answers" /\ Becomes(p, j)
    BY <1>0, <1>2 DEF JobRecords, CheckBuild
  <2> HIDE DEF j
  <2>2. QED
    BY <1>0, <1>2, <2>1, GateBecomes DEF CheckBuild, files
<1>3. QED
  BY <1>1, <1>2 DEF Assuring, Assure

LEMMA StartGate ==
  ASSUME TypeOK, GateInv, NEW p \in Procs, NEW c \in Menu, Start(p, c)
  PROVE  GateInv'
<1> USE DEF Rendering
<1>0. job \in [Procs -> Jobs] /\ job[p] \in JobRecords
  BY DEF TypeOK, Jobs
<1> DEFINE j == [Idle EXCEPT !.command = c, !.step = FirstStep(c)]
<1>1. j.step \notin Rendering
  BY MenuAssumption DEF Idle, FirstStep, Commands, Attesting
<1>2. Becomes(p, j) /\ UNCHANGED disk
  BY DEF Start, files
<1>3. QED
  <2> HIDE DEF j
  <2> QED BY <1>0, <1>1, <1>2, GateBecomes

LEMMA GateInductive ==
  ASSUME TypeOK, GateInv, [Next]_vars
  PROVE  GateInv'
<1>1. CASE UNCHANGED vars
  BY <1>1 DEF vars, GateInv, ValidFile, Passes
<1>2. ASSUME NEW p \in Procs, Kill(p)
      PROVE  GateInv'
  BY <1>2, GateBreakOff DEF Kill
<1>3. ASSUME NEW i \in Inputs, ChangeIntent(i)
      PROVE  GateInv'
  BY <1>3 DEF ChangeIntent, files, GateInv, ValidFile, Passes
<1>4. ASSUME NEW n \in Nodes, ContainerExits(n)
      PROVE  GateInv'
  BY <1>4 DEF ContainerExits, files, GateInv, ValidFile, Passes
<1>5. QED
  BY <1>1, <1>2, <1>3, <1>4, StartGate, CompilingGate, DeployingGate, OtherGate,
     AssuringGate DEF Next, Step

\* Containerlab reads the files that are there, and they are valid.
LEMMA PlaceValidated ==
  ASSUME TypeOK, GateInv, OnlyValidatedRuns, NEW made, NEW gone,
         made = {} \/ Deployable, Place(made, gone)
  PROVE  OnlyValidatedRuns'
<1> SUFFICES ASSUME NEW n \in Nodes, lab'[n] # Absent
             PROVE  /\ ValidFile("topology", lab'[n].from.topology)
                    /\ ValidFile("rest", lab'[n].from.rest)
  BY DEF OnlyValidatedRuns, Present, ValidFile, Passes
<1>1. CASE lab'[n] = lab[n]
  BY <1>1 DEF OnlyValidatedRuns, Present, ValidFile
<1>2. CASE n \in made
  <2>1. lab'[n] = Fresh /\ Deployable
    BY <1>2 DEF Place
  <2>2. Fresh.from.topology = disk["topology"] /\ Fresh.from.rest = disk["rest"]
    BY DEF Fresh
  <2>3. QED
    BY <2>1, <2>2 DEF GateInv, Deployable
<1>3. QED
  BY <1>1, <1>2 DEF Place

LEMMA DestroyValidated ==
  ASSUME TypeOK, GateInv, OnlyValidatedRuns, ContainerlabDestroy
  PROVE  OnlyValidatedRuns'
<1>1. CASE UNCHANGED lab
  BY <1>1 DEF OnlyValidatedRuns, Present, Passes
<1>2. QED
  BY <1>1, PlaceValidated DEF ContainerlabDestroy

LEMMA LabUntouched ==
  ASSUME OnlyValidatedRuns, UNCHANGED lab
  PROVE  OnlyValidatedRuns'
BY DEF OnlyValidatedRuns, Present, Passes

LEMMA ValidatedInductive ==
  ASSUME TypeOK, GateInv, OnlyValidatedRuns, [Next]_vars
  PROVE  OnlyValidatedRuns'
<1>1. CASE UNCHANGED vars
  BY <1>1, LabUntouched DEF vars
<1>2. ASSUME NEW p \in Procs, NEW c \in Menu, Start(p, c)
      PROVE  OnlyValidatedRuns'
  BY <1>2, LabUntouched DEF Start
<1>3. ASSUME NEW p \in Procs, Compiling(p)
      PROVE  OnlyValidatedRuns'
  <2>1. UNCHANGED lab
    BY <1>3 DEF Compiling, Guard, Fetch, WriteReport, ClearRest, ClearTopology,
                ClearManifest, ClearEvidence, WriteTopology, WriteRest, Generate,
                DigestFiles, WriteManifest
  <2>2. QED
    BY <2>1, LabUntouched
<1>4. ASSUME NEW p \in Procs, Deploying(p)
      PROVE  OnlyValidatedRuns'
  <2>1. CASE RunDeploy(p)
    <3> DEFINE replace == job[p].command = "reconfigure"
    <3>1. CASE ContainerlabDeployed(replace)
      BY <3>1, PlaceValidated DEF ContainerlabDeployed
    <3>2. CASE ContainerlabDeployFailed(replace)
      BY <3>2, PlaceValidated, LabUntouched DEF ContainerlabDeployFailed
    <3>3. QED
      BY <2>1, <3>1, <3>2 DEF RunDeploy
  <2>2. CASE Cleanup(p) \/ Abort(p)
    BY <2>2, DestroyValidated DEF Cleanup, Abort
  <2>3. CASE UNCHANGED lab
    BY <2>3, LabUntouched
  <2>4. QED
    BY <1>4, <2>1, <2>2, <2>3 DEF Deploying, CheckIntegrity, CheckPlan, CheckBefore,
       DropStamp, CheckAfter, AbortStamp, WriteStamp, StampRemoved, BreakOff
<1>5. ASSUME NEW p \in Procs, Destroying(p) \/ AttestingStep(p) \/ Assuring(p)
      PROVE  OnlyValidatedRuns'
  <2>1. CASE RunDestroy(p)
    BY <2>1, DestroyValidated DEF RunDestroy
  <2>2. CASE UNCHANGED lab
    BY <2>2, LabUntouched
  <2>3. QED
    BY <1>5, <2>1, <2>2 DEF Destroying, AttestingStep, Down, CheckDown, RemoveStamp,
       Attach, CheckIdentity, CheckRuntime, Verify, Baseline, Observe, Observed, Conclude,
       Assuring, CheckBuild, Assure, StampRemoved, BreakOff
<1>6. ASSUME NEW p \in Procs, Kill(p)
      PROVE  OnlyValidatedRuns'
  BY <1>6, LabUntouched DEF Kill, BreakOff
<1>7. ASSUME NEW i \in Inputs, ChangeIntent(i)
      PROVE  OnlyValidatedRuns'
  BY <1>7, LabUntouched DEF ChangeIntent
<1>8. ASSUME NEW n \in Nodes, ContainerExits(n)
      PROVE  OnlyValidatedRuns'
  <2>1. lab' = [lab EXCEPT ![n].running = FALSE] /\ lab[n] # Absent /\ lab[n] \in Containers
    BY <1>8 DEF ContainerExits, TypeOK
  <2>2. lab'[n].from = lab[n].from
    BY <2>1 DEF TypeOK, Containers
  <2>3. \A k \in Nodes \ {n} : lab'[k] = lab[k]
    BY <2>1 DEF TypeOK
  <2>4. QED
    BY <2>1, <2>2, <2>3 DEF OnlyValidatedRuns, Present, Passes
<1>9. QED
  BY <1>1, <1>2, <1>3, <1>4, <1>5, <1>6, <1>7, <1>8 DEF Next, Step

\* The policy gate: whatever commands overlap, fail or are killed, containers
\* only ever run topologies and configurations of inputs that passed.
THEOREM GateHolds == Spec => []OnlyValidatedRuns
<1>1. Init => GateInv /\ OnlyValidatedRuns
  <2> SUFFICES ASSUME Init PROVE GateInv /\ OnlyValidatedRuns
    OBVIOUS
  <2>1. GateInv
    BY DEF Init, GateInv, Idle, Rendering, Artifacts
  <2>2. Present = {}
    BY DEF Init, Present
  <2>3. QED
    BY <2>1, <2>2 DEF OnlyValidatedRuns
<1>2. TypeOK /\ GateInv /\ OnlyValidatedRuns /\ [Next]_vars
        => GateInv' /\ OnlyValidatedRuns'
  BY GateInductive, ValidatedInductive
<1>3. QED
  BY <1>1, <1>2, TypeCorrect, PTL DEF Spec
=============================================================================
