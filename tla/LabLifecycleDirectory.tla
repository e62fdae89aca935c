----------------------- MODULE LabLifecycleDirectory ------------------------
(***************************************************************************)
(* The build directory of LabLifecycle when commands do not overlap, for   *)
(* every value of the other constants: commands fail and are killed        *)
(* between any two of their writes, and inputs come and go.                *)
(***************************************************************************)
EXTENDS LabLifecycleGate

\* One command slot: no two commands overlap.
Solo == \A p, q \in Procs : p = q

Agrees(a, i) == disk[a] = Content[i][a]

\* What a command that runs alone knows of the directory at each step.
DirectoryKnown(j) ==
  /\ j.step \in {"report"} \cup Rendering => Agrees("source", j.input)
  /\ j.step \in Rendering => Agrees("report", j.input) /\ Passes(j.input)
  /\ j.step \in {"rest", "digest"} => Agrees("topology", j.input)
  /\ j.step = "digest" => Agrees("rest", j.input)
  /\ j.step = "manifest" => j.seen \in WholeBuilds
  /\ j.step \in {"clearEvidence", "topology", "rest", "digest", "manifest"}
       => manifest = NoManifest
  /\ j.step \in {"topology", "rest", "digest", "manifest"}
       => evidence = [c \in Reporting |-> NoManifest]
  /\ j.step \in {"attest", "collect", "answers"} => Intact /\ j.seen = manifest
  /\ j.step = "attach" => j.base = NoManifest /\ ~j.faulted
  /\ j.step \in {"identity", "attest", "collect"}
       => /\ j.base = NoManifest \/ (Intact /\ j.base = manifest)
          /\ j.faulted => j.base # NoManifest
  /\ j.step = "collect" /\ j.command = "scenario" => j.base # NoManifest
  /\ j.step = "fault" => Intact /\ j.base = manifest

DirectoryInv ==
  /\ \A p \in Procs : DirectoryKnown(job[p])
  /\ manifest # NoManifest => manifest \in WholeBuilds
  /\ EvidenceOfThisBuild

-----------------------------------------------------------------------------
(* DirectoryInv is kept by every step.                                     *)

Observing == {"identity", "attest", "collect", "fault", "answers"}

Knowing == {"report", "manifest", "attach"} \cup Observing \cup Rendering

LEMMA DirectoryKept ==
  ASSUME Solo, NEW p \in Procs, DirectoryKnown(job[p])',
         (manifest # NoManifest => manifest \in WholeBuilds)',
         EvidenceOfThisBuild'
  PROVE  DirectoryInv'
<1>1. \A q \in Procs : q = p
  BY DEF Solo
<1>2. QED
  BY <1>1 DEF DirectoryInv

\* A command that has just ended, or is where it relies on nothing, knows
\* nothing of the files.
LEMMA DirectoryBecomes ==
  ASSUME Solo, TypeOK, DirectoryInv, NEW p \in Procs,
         UNCHANGED <<manifest, evidence>>,
         NEW j, j.step \notin Knowing, Becomes(p, j)
  PROVE  DirectoryInv'
<1>1. job'[p] = j
  BY BecomesEffect DEF TypeOK
<1>2. DirectoryKnown(job[p])'
  BY <1>1 DEF DirectoryKnown, Knowing, Observing, Rendering
<1>3. QED
  BY <1>2, DirectoryKept DEF DirectoryInv, EvidenceOfThisBuild

LEMMA DirectoryExit ==
  ASSUME Solo, TypeOK, DirectoryInv, NEW p \in Procs,
         UNCHANGED <<manifest, evidence>>, Exit(p)
  PROVE  DirectoryInv'
BY DirectoryBecomes, IdleStep DEF Exit, Knowing, Observing, Rendering

LEMMA DirectoryBreakOff ==
  ASSUME Solo, TypeOK, DirectoryInv, NEW p \in Procs, BreakOff(p)
  PROVE  DirectoryInv'
BY DirectoryExit DEF BreakOff, files

LEMMA DirectoryGoto ==
  ASSUME Solo, TypeOK, DirectoryInv, NEW p \in Procs,
         UNCHANGED <<manifest, evidence>>,
         NEW s, s \notin Knowing, Goto(p, s)
  PROVE  DirectoryInv'
<1>1. [job[p] EXCEPT !.step = s].step = s
  BY DEF TypeOK, Jobs, JobRecords
<1>2. QED
  BY <1>1, DirectoryBecomes DEF Goto

\* The same of a command that ends beside reports that are still right.
LEMMA DirectoryReported ==
  ASSUME Solo, TypeOK, DirectoryInv, NEW p \in Procs, UNCHANGED <<disk, manifest>>,
         EvidenceOfThisBuild', Exit(p)
  PROVE  DirectoryInv'
<1>1. job'[p] = Idle
  BY ExitEffect DEF TypeOK
<1>2. DirectoryKnown(job[p])'
  BY <1>1, IdleStep DEF DirectoryKnown, Rendering
<1>3. QED
  BY <1>2, DirectoryKept DEF DirectoryInv

\* What a compiler run knows before its step, by the step it is at.
LEMMA DirectoryCompiling ==
  ASSUME Solo, TypeOK, DirectoryInv, NEW p \in Procs, Compiling(p)
  PROVE  DirectoryInv'
<1>0. job \in [Procs -> Jobs] /\ job[p] \in JobRecords /\ Shaped(job[p])
  BY DEF TypeOK, Jobs
<1>a. DirectoryKnown(job[p])
  BY DEF DirectoryInv
<1>b. (manifest # NoManifest => manifest \in WholeBuilds) /\ EvidenceOfThisBuild
  BY DEF DirectoryInv
<1>1. CASE Guard(p)
  BY <1>1, DirectoryExit, DirectoryGoto DEF Guard, files, Knowing, Observing, Rendering
<1>2. CASE Fetch(p)
  <2> DEFINE j == [job[p] EXCEPT !.input = intent, !.step = "report"]
  <2>1. CASE Exit(p)
    BY <1>2, <2>1, DirectoryExit DEF Fetch
  <2>2. CASE Becomes(p, j) /\ disk' = [disk EXCEPT !["source"] = Content[intent]["source"]]
    <3>1. j.step = "report" /\ j.input = intent
      BY <1>0 DEF JobRecords
    <3>2. job'[p] = j
      BY <1>0, <2>2, BecomesEffect
    <3>3. Agrees("source", job[p].input)'
      BY <2>2, <3>1, <3>2 DEF Agrees, TypeOK, Artifacts
    <3>4. DirectoryKnown(job[p])'
      <4> HIDE DEF j
      <4> QED BY <3>1, <3>2, <3>3 DEF DirectoryKnown, Rendering
    <3>5. QED
      BY <1>2, <1>b, <3>4, DirectoryKept DEF Fetch, EvidenceOfThisBuild
  <2>3. QED
    BY <1>2, <2>1, <2>2 DEF Fetch
<1>3. CASE WriteReport(p)
  <2>1. CASE Exit(p)
    BY <1>3, <2>1, DirectoryExit DEF WriteReport
  <2>2. CASE /\ Passes(job[p].input) /\ Goto(p, "clear")
             /\ disk' = [disk EXCEPT !["report"] = Content[job[p].input]["report"]]
    <3>1. job'[p].step = "clear" /\ job'[p].input = job[p].input
      BY <1>0, <2>2, GotoEffect
    <3>2. Agrees("source", job[p].input) /\ Agrees("report", job[p].input)'
      BY <1>3, <1>a, <2>2, <3>1 DEF WriteReport, At, DirectoryKnown, Agrees, TypeOK,
         Artifacts
    <3>3. Agrees("source", job[p].input)' /\ Passes(job[p].input)'
      BY <2>2, <3>1, <3>2 DEF Agrees, TypeOK, Artifacts, Passes
    <3>4. DirectoryKnown(job[p])'
      BY <3>1, <3>2, <3>3 DEF DirectoryKnown, Rendering
    <3>5. QED
      BY <1>3, <1>b, <3>4, DirectoryKept DEF WriteReport, EvidenceOfThisBuild
  <2>3. QED
    BY <1>3, <2>1, <2>2 DEF WriteReport
<1>4. CASE ClearRest(p)
  <2>1. CASE Exit(p)
    BY <1>4, <2>1, DirectoryExit DEF ClearRest
  <2>2. CASE Goto(p, "clearTopology") /\ disk' = [disk EXCEPT !["rest"] = NoFile]
    <3>1. job'[p].step = "clearTopology" /\ job'[p].input = job[p].input
      BY <1>0, <2>2, GotoEffect
    <3>2. Agrees("source", job[p].input) /\ Agrees("report", job[p].input)
          /\ Passes(job[p].input)
      BY <1>4, <1>a DEF ClearRest, At, DirectoryKnown, Rendering
    <3>3. DirectoryKnown(job[p])'
      BY <2>2, <3>1, <3>2 DEF DirectoryKnown, Rendering, Agrees, TypeOK, Artifacts, Passes
    <3>4. QED
      BY <1>4, <1>b, <3>3, DirectoryKept DEF ClearRest, EvidenceOfThisBuild
  <2>3. QED
    BY <1>4, <2>1, <2>2 DEF ClearRest
<1>5. CASE ClearTopology(p)
  <2>1. CASE Exit(p)
    BY <1>5, <2>1, DirectoryExit DEF ClearTopology
  <2>2. CASE Goto(p, "clearManifest") /\ disk' = [disk EXCEPT !["topology"] = NoFile]
    <3>1. job'[p].step = "clearManifest" /\ job'[p].input = job[p].input
      BY <1>0, <2>2, GotoEffect
    <3>2. Agrees("source", job[p].input) /\ Agrees("report", job[p].input)
          /\ Passes(job[p].input)
      BY <1>5, <1>a DEF ClearTopology, At, DirectoryKnown, Rendering
    <3>3. DirectoryKnown(job[p])'
      BY <2>2, <3>1, <3>2 DEF DirectoryKnown, Rendering, Agrees, TypeOK, Artifacts, Passes
    <3>4. QED
      BY <1>5, <1>b, <3>3, DirectoryKept DEF ClearTopology, EvidenceOfThisBuild
  <2>3. QED
    BY <1>5, <2>1, <2>2 DEF ClearTopology
<1>6. CASE ClearManifest(p)
  <2>1. CASE Exit(p) /\ UNCHANGED manifest
    BY <1>6, <2>1, DirectoryExit DEF ClearManifest
  <2>2. CASE Goto(p, "clearEvidence") /\ manifest' = NoManifest
    <3>1. job'[p].step = "clearEvidence" /\ job'[p].input = job[p].input
      BY <1>0, <2>2, GotoEffect
    <3>2. Agrees("source", job[p].input) /\ Agrees("report", job[p].input)
          /\ Passes(job[p].input)
      BY <1>6, <1>a DEF ClearManifest, At, DirectoryKnown, Rendering
    <3>3. DirectoryKnown(job[p])'
      BY <1>6, <2>2, <3>1, <3>2 DEF ClearManifest, DirectoryKnown, Rendering, Agrees, Passes
    <3>4. QED
      BY <2>2, <3>3, DirectoryKept DEF EvidenceOfThisBuild
  <2>3. QED
    BY <1>6, <2>1, <2>2 DEF ClearManifest
<1>7. CASE ClearEvidence(p)
  <2>1. Agrees("source", job[p].input) /\ Agrees("report", job[p].input)
        /\ Passes(job[p].input) /\ manifest = NoManifest
    BY <1>7, <1>a DEF ClearEvidence, At, DirectoryKnown, Rendering
  <2>2. EvidenceOfThisBuild' /\ UNCHANGED <<disk, manifest>>
    BY <1>7, <2>1 DEF ClearEvidence, EvidenceOfThisBuild
  <2>3. CASE Exit(p)
    BY <2>2, <2>3, DirectoryReported
  <2>4. CASE Goto(p, "topology") /\ evidence' = EvidenceWithout(Reporting)
    <3>1. job'[p].step = "topology" /\ job'[p].input = job[p].input
      BY <1>0, <2>4, GotoEffect
    <3>2. evidence' = [c \in Reporting |-> NoManifest]
      BY <2>4 DEF EvidenceWithout
    <3>3. DirectoryKnown(job[p])'
      BY <2>1, <2>2, <3>1, <3>2 DEF DirectoryKnown, Rendering, Agrees, Passes
    <3>4. QED
      BY <2>1, <2>2, <3>3, DirectoryKept
  <2>5. QED
    BY <1>7, <2>3, <2>4 DEF ClearEvidence
<1>8. ASSUME Generate(p, "topology", "rest") \/ Generate(p, "rest", "digest")
      PROVE  DirectoryInv'
  <2>1. CASE Exit(p)
    BY <1>8, <2>1, DirectoryExit DEF Generate
  <2>2. /\ Agrees("source", job[p].input) /\ Agrees("report", job[p].input)
        /\ Passes(job[p].input) /\ manifest = NoManifest
        /\ evidence = [c \in Reporting |-> NoManifest]
    BY <1>8, <1>a DEF Generate, At, DirectoryKnown, Rendering
  <2>3. UNCHANGED <<manifest, evidence>>
    BY <1>8 DEF Generate
  <2>4. CASE /\ At(p, "topology") /\ Goto(p, "rest")
             /\ disk' = [disk EXCEPT !["topology"] = Content[job[p].input]["topology"]]
    <3>1. job'[p].step = "rest" /\ job'[p].input = job[p].input
      BY <1>0, <2>4, GotoEffect
    <3>2. DirectoryKnown(job[p])'
      BY <2>2, <2>3, <2>4, <3>1 DEF DirectoryKnown, Rendering, Agrees, TypeOK, Artifacts,
         Passes
    <3>3. QED
      BY <2>2, <2>3, <3>2, DirectoryKept DEF EvidenceOfThisBuild
  <2>5. CASE /\ At(p, "rest") /\ Goto(p, "digest")
             /\ disk' = [disk EXCEPT !["rest"] = Content[job[p].input]["rest"]]
    <3>1. job'[p].step = "digest" /\ job'[p].input = job[p].input
      BY <1>0, <2>5, GotoEffect
    <3>2. Agrees("topology", job[p].input)
      BY <2>5, <1>a DEF At, DirectoryKnown
    <3>3. DirectoryKnown(job[p])'
      BY <2>2, <2>3, <2>5, <3>1, <3>2 DEF DirectoryKnown, Rendering, Agrees, TypeOK,
         Artifacts, Passes
    <3>4. QED
      BY <2>2, <2>3, <3>3, DirectoryKept DEF EvidenceOfThisBuild
  <2>6. QED
    BY <1>8, <2>1, <2>4, <2>5 DEF Generate
<1>9. CASE WriteTopology(p) \/ WriteRest(p)
  BY <1>8, <1>9 DEF WriteTopology, WriteRest
<1>10. CASE DigestFiles(p)
  <2> DEFINE m == [input |-> job[p].input, files |-> disk]
             j == [job[p] EXCEPT !.step = "manifest", !.seen = m]
  <2>1. CASE Exit(p)
    BY <1>10, <2>1, DirectoryExit DEF DigestFiles, files
  <2>2. CASE Becomes(p, j)
    <3>1. j.step = "manifest" /\ j.seen = m
      BY <1>0 DEF JobRecords
    <3>2. job'[p] = j
      BY <1>0, <2>2, BecomesEffect
    <3>3. /\ \A a \in Artifacts : Agrees(a, job[p].input)
          /\ Passes(job[p].input) /\ manifest = NoManifest
          /\ evidence = [c \in Reporting |-> NoManifest]
      BY <1>10, <1>a DEF DigestFiles, At, DirectoryKnown, Rendering, Artifacts
    <3>4. job[p].input \in Inputs
      BY <1>0, <1>10 DEF DigestFiles, At, Shaped
    <3>5. disk = Content[job[p].input]
      BY <3>3, <3>4, ContentAssumption DEF Agrees, TypeOK
    <3>6. m \in WholeBuilds
      BY <3>3, <3>4, <3>5 DEF WholeBuilds
    <3>7. DirectoryKnown(job[p])'
      <4> HIDE DEF m, j
      <4> QED BY <1>10, <3>1, <3>2, <3>3, <3>6
              DEF DigestFiles, files, DirectoryKnown, Rendering, WholeBuilds, Passes
    <3>8. QED
      BY <1>10, <1>b, <3>7, DirectoryKept DEF DigestFiles, files, EvidenceOfThisBuild
  <2>3. QED
    BY <1>10, <2>1, <2>2 DEF DigestFiles
<1>11. CASE WriteManifest(p)
  <2>1. /\ job[p].seen \in WholeBuilds /\ manifest = NoManifest
        /\ evidence = [c \in Reporting |-> NoManifest]
    BY <1>11, <1>a DEF WriteManifest, At, DirectoryKnown
  <2>2. CASE Exit(p) /\ manifest' \in {manifest, NoManifest}
    BY <1>11, <2>1, <2>2, DirectoryExit DEF WriteManifest
  <2>3. CASE /\ manifest' = job[p].seen
             /\ IF job[p].command = "up" THEN Goto(p, "integrity") ELSE Exit(p)
    <3>1. (manifest \in WholeBuilds)' /\ EvidenceOfThisBuild'
      BY <1>11, <2>1, <2>3 DEF WriteManifest, EvidenceOfThisBuild, WholeBuilds, Passes
    <3>2. CASE Exit(p)
      <4>1. job'[p].step \notin Knowing
        BY <1>0, <3>2, ExitEffect, IdleStep DEF Knowing, Observing, Rendering
      <4>2. DirectoryKnown(job[p])'
        BY <4>1 DEF DirectoryKnown, Knowing, Observing, Rendering
      <4>3. QED
        BY <3>1, <4>2, DirectoryKept
    <3>3. CASE Goto(p, "integrity")
      <4>1. job'[p].step \notin Knowing
        <5>1. job'[p].step = "integrity"
          BY <1>0, <3>3, GotoEffect
        <5>2. QED
          BY <5>1 DEF Knowing, Observing, Rendering
      <4>2. DirectoryKnown(job[p])'
        BY <4>1 DEF DirectoryKnown, Knowing, Observing, Rendering
      <4>3. QED
        BY <3>1, <4>2, DirectoryKept
    <3>4. QED
      BY <2>3, <3>2, <3>3
  <2>4. QED
    BY <1>11, <2>2, <2>3 DEF WriteManifest
<1>12. QED
  BY <1>1, <1>2, <1>3, <1>4, <1>5, <1>6, <1>7, <1>9, <1>10, <1>11 DEF Compiling

LEMMA DirectoryDeploying ==
  ASSUME Solo, TypeOK, DirectoryInv, NEW p \in Procs, Deploying(p) \/ Destroying(p)
  PROVE  DirectoryInv'
<1> USE DEF Knowing, Observing, Rendering
<1>0. job[p] \in JobRecords
  BY DEF TypeOK, Jobs
<1>1. CASE CheckIntegrity(p)
  <2>1. [job[p] EXCEPT !.step = "plan", !.seen = manifest].step = "plan"
    BY <1>0 DEF JobRecords
  <2>2. CASE Exit(p)
    BY <1>1, <2>2, DirectoryExit DEF CheckIntegrity, files
  <2>3. CASE Becomes(p, [job[p] EXCEPT !.step = "plan", !.seen = manifest])
    BY <1>1, <2>1, <2>3, DirectoryBecomes DEF CheckIntegrity, files
  <2>4. QED
    BY <1>1, <2>2, <2>3 DEF CheckIntegrity
<1>2. CASE CheckPlan(p)
  <2> DEFINE names == NamesOf[disk["topology"]]
  <2>1. [job[p] EXCEPT !.step = "before", !.names = names].step = "before"
    BY <1>0 DEF JobRecords
  <2>2. CASE Exit(p)
    BY <1>2, <2>2, DirectoryExit DEF CheckPlan, files
  <2>3. CASE Becomes(p, [job[p] EXCEPT !.step = "before", !.names = names])
    BY <1>2, <2>1, <2>3, DirectoryBecomes DEF CheckPlan, files
  <2>4. QED
    BY <1>2, <2>2, <2>3 DEF CheckPlan
<1>3. CASE CheckBefore(p) \/ CheckAfter(p) \/ WriteStamp(p)
  BY <1>3, DirectoryExit, DirectoryGoto DEF CheckBefore, CheckAfter, WriteStamp, files
<1>4. CASE RunDeploy(p) \/ Abort(p) \/ DropStamp(p)
  BY <1>4, DirectoryGoto, DirectoryBreakOff
     DEF RunDeploy, Abort, DropStamp, StampRemoved, files
<1>5. CASE Cleanup(p) \/ AbortStamp(p) \/ RemoveStamp(p)
  BY <1>5, DirectoryExit, DirectoryBreakOff
     DEF Cleanup, AbortStamp, RemoveStamp, StampRemoved, files
<1>6. CASE Down(p)
  BY <1>6, DirectoryExit, DirectoryGoto DEF Down, files
<1>7. CASE RunDestroy(p) \/ CheckDown(p)
  BY <1>7, DirectoryExit, DirectoryGoto DEF RunDestroy, CheckDown, files
<1>8. QED
  BY <1>1, <1>2, <1>3, <1>4, <1>5, <1>6, <1>7 DEF Deploying, Destroying

\* A report of the present build is a report of this build.
LEMMA EvidenceKept ==
  ASSUME TypeOK, EvidenceOfThisBuild, UNCHANGED manifest, NEW c \in Reporting,
         \/ evidence' = [evidence EXCEPT ![c] = manifest]
         \/ UNCHANGED evidence
  PROVE  EvidenceOfThisBuild'
BY DEF EvidenceOfThisBuild, TypeOK

\* A command that attests and leaves the directory as it is.
LEMMA DirectoryObserving ==
  ASSUME Solo, TypeOK, DirectoryInv, NEW p \in Procs, UNCHANGED <<disk, manifest>>,
         EvidenceOfThisBuild',
         NEW k, k.step \in Observing, DirectoryKnown(k), Becomes(p, k)
  PROVE  DirectoryInv'
<1>1. job'[p] = k
  BY BecomesEffect DEF TypeOK
<1>2. DirectoryKnown(job[p])'
  BY <1>1 DEF DirectoryKnown, Observing, Rendering, Intact
<1>3. QED
  BY <1>2, DirectoryKept DEF DirectoryInv

LEMMA DirectoryAttesting ==
  ASSUME Solo, TypeOK, DirectoryInv, NEW p \in Procs, AttestingStep(p)
  PROVE  DirectoryInv'
<1>0. job[p] \in JobRecords
  BY DEF TypeOK, Jobs
<1>a. DirectoryKnown(job[p]) /\ EvidenceOfThisBuild
  BY DEF DirectoryInv
<1>b. UNCHANGED <<disk, manifest>>
  BY DEF AttestingStep, Attach, CheckIdentity, CheckRuntime, Verify, Baseline, Observe,
     Observed, Conclude, files
<1>c. "verify" \in Reporting /\ "scenario" \in Reporting
  BY DEF Attesting, Reporting
<1>d. UNCHANGED evidence => EvidenceOfThisBuild'
  BY <1>a, <1>b, <1>c, EvidenceKept
<1>1. CASE Attach(p)
  <2> DEFINE k == [job[p] EXCEPT !.step = "identity"]
  <2>1. CASE Exit(p)
    BY <1>1, <1>b, <1>d, <2>1, DirectoryReported DEF Attach, files
  <2>2. CASE Becomes(p, k)
    <3>1. k.step = "identity" /\ k.base = job[p].base /\ k.faulted = job[p].faulted
      BY <1>0 DEF JobRecords
    <3>2. job[p].base = NoManifest /\ ~job[p].faulted
      BY <1>1, <1>a DEF Attach, At, DirectoryKnown
    <3> HIDE DEF k
    <3>3. DirectoryKnown(k)
      BY <3>1, <3>2 DEF DirectoryKnown, Rendering
    <3>4. QED
      BY <1>1, <1>b, <1>d, <2>2, <3>1, <3>3, DirectoryObserving DEF Attach, files, Observing
  <2>3. QED
    BY <1>1, <2>1, <2>2 DEF Attach, Goto
<1>2. ASSUME Refuse(p), job[p].step \in {"identity", "attest"}, UNCHANGED evidence
      PROVE  DirectoryInv'
  <2> DEFINE k == [job[p] EXCEPT !.step = "fault"]
  <2>1. CASE Exit(p)
    BY <1>2, <1>b, <1>d, <2>1, DirectoryReported
  <2>2. CASE job[p].faulted /\ Becomes(p, k)
    <3>1. k.step = "fault" /\ k.base = job[p].base
      BY <1>0 DEF JobRecords
    <3>2. Intact /\ job[p].base = manifest
      BY <1>2, <1>a, <2>2 DEF DirectoryKnown
    <3> HIDE DEF k
    <3>3. DirectoryKnown(k)
      BY <3>1, <3>2 DEF DirectoryKnown, Rendering
    <3>4. QED
      BY <1>2, <1>b, <1>d, <2>2, <3>1, <3>3, DirectoryObserving DEF Observing
  <2>3. QED
    BY <1>2, <2>1, <2>2 DEF Refuse, Goto
<1>3. CASE CheckIdentity(p)
  <2> DEFINE k == [job[p] EXCEPT !.step = "attest", !.seen = manifest,
                                 !.names = stamp.names]
  <2>1. CASE Refuse(p)
    BY <1>2, <1>3, <2>1 DEF CheckIdentity, At, files
  <2>2. CASE Intact /\ Becomes(p, k)
    <3>1. /\ k.step = "attest" /\ k.seen = manifest
          /\ k.base = job[p].base /\ k.faulted = job[p].faulted
      BY <1>0 DEF JobRecords
    <3>2. /\ job[p].base = NoManifest \/ (Intact /\ job[p].base = manifest)
          /\ job[p].faulted => job[p].base # NoManifest
      BY <1>3, <1>a DEF CheckIdentity, At, DirectoryKnown
    <3> HIDE DEF k
    <3>3. DirectoryKnown(k)
      BY <2>2, <3>1, <3>2 DEF DirectoryKnown, Rendering
    <3>4. QED
      BY <1>3, <1>b, <1>d, <2>2, <3>1, <3>3, DirectoryObserving
         DEF CheckIdentity, files, Observing
  <2>3. QED
    BY <1>3, <2>1, <2>2 DEF CheckIdentity
<1>4. CASE CheckRuntime(p)
  <2>0. /\ Intact /\ job[p].seen = manifest
        /\ job[p].base = NoManifest \/ (Intact /\ job[p].base = manifest)
        /\ job[p].faulted => job[p].base # NoManifest
        /\ UNCHANGED evidence
    BY <1>4, <1>a DEF CheckRuntime, At, DirectoryKnown, files
  <2>1. CASE Refuse(p)
    BY <1>2, <1>4, <2>0, <2>1 DEF CheckRuntime, At
  <2>2. CASE Becomes(p, [job[p] EXCEPT !.base = job[p].seen, !.step = "identity"])
    <3> DEFINE k == [job[p] EXCEPT !.base = job[p].seen, !.step = "identity"]
    <3>1. k.step = "identity" /\ k.base = manifest /\ manifest # NoManifest
      BY <1>0, <2>0 DEF JobRecords, Intact
    <3>2. Becomes(p, k)
      BY <2>2
    <3> HIDE DEF k
    <3>3. DirectoryKnown(k)
      BY <2>0, <3>1 DEF DirectoryKnown, Rendering
    <3>4. QED
      BY <1>b, <1>d, <2>0, <3>1, <3>2, <3>3, DirectoryObserving DEF Observing
  <2>3. CASE /\ Goto(p, "collect")
             /\ ~(job[p].command = "scenario" /\ job[p].base = NoManifest)
    <3> DEFINE k == [job[p] EXCEPT !.step = "collect"]
    <3>1. /\ k.step = "collect" /\ k.seen = job[p].seen /\ k.command = job[p].command
          /\ k.base = job[p].base /\ k.faulted = job[p].faulted
      BY <1>0 DEF JobRecords
    <3>2. Becomes(p, k)
      BY <2>3 DEF Goto
    <3> HIDE DEF k
    <3>3. DirectoryKnown(k)
      BY <2>0, <2>3, <3>1 DEF DirectoryKnown, Rendering
    <3>4. QED
      BY <1>b, <1>d, <2>0, <3>1, <3>2, <3>3, DirectoryObserving DEF Observing
  <2>4. QED
    BY <1>4, <2>1, <2>2, <2>3 DEF CheckRuntime
\* At a collection the report that may be left is one of the present build.
<1>5. CASE Verify(p) \/ Baseline(p) \/ Observed(p)
  <2>1. /\ Intact /\ job[p].seen = manifest
        /\ job[p].base = NoManifest \/ (Intact /\ job[p].base = manifest)
        /\ job[p].faulted \/ job[p].command = "scenario" => job[p].base # NoManifest
    BY <1>5, <1>a DEF Verify, Baseline, Observed, At, DirectoryKnown
  <2>2. EvidenceOfThisBuild'
    BY <1>5, <1>a, <1>b, <1>c, <2>1, EvidenceKept DEF Verify, Baseline, Observed, Verified
  <2>3. CASE Exit(p)
    BY <1>b, <2>2, <2>3, DirectoryReported
  <2>4. ASSUME NEW k, Becomes(p, k), k.step = "fault", k.base = manifest
        PROVE  DirectoryInv'
    <3>1. DirectoryKnown(k)
      BY <2>1, <2>4 DEF DirectoryKnown, Rendering
    <3>2. QED
      BY <1>b, <2>2, <2>4, <3>1, DirectoryObserving DEF Observing
  <2>5. CASE Baseline(p) /\ ~Exit(p)
    <3> DEFINE k == [job[p] EXCEPT !.faulted = TRUE, !.step = "fault"]
    <3>1. k.step = "fault" /\ k.base = job[p].base
      BY <1>0 DEF JobRecords
    <3>2. Becomes(p, k) /\ job[p].base = manifest
      BY <2>1, <2>5 DEF Baseline
    <3> HIDE DEF k
    <3>3. QED
      BY <2>4, <3>1, <3>2
  <2>6. CASE Observed(p)
    <3> DEFINE k == [job[p] EXCEPT !.step = "fault"]
    <3>1. k.step = "fault" /\ k.base = job[p].base
      BY <1>0 DEF JobRecords
    <3>2. Becomes(p, k) /\ job[p].base = manifest
      BY <2>1, <2>6 DEF Observed, Goto
    <3> HIDE DEF k
    <3>3. QED
      BY <2>4, <3>1, <3>2
  <2>7. QED
    BY <1>5, <2>3, <2>5, <2>6 DEF Verify
<1>6. CASE Observe(p)
  <2> DEFINE k == [job[p] EXCEPT !.step = "identity"]
  <2>1. k.step = "identity" /\ k.base = job[p].base
    BY <1>0 DEF JobRecords
  <2>2. Becomes(p, k) /\ Intact /\ job[p].base = manifest /\ manifest # NoManifest
    BY <1>6, <1>a DEF Observe, Goto, At, DirectoryKnown, Intact
  <2> HIDE DEF k
  <2>3. DirectoryKnown(k)
    BY <2>1, <2>2 DEF DirectoryKnown, Rendering
  <2>4. QED
    BY <1>6, <1>b, <1>d, <2>1, <2>2, <2>3, DirectoryObserving DEF Observe, files, Observing
<1>7. CASE Conclude(p)
  <2>1. job[p].base = manifest
    BY <1>7, <1>a DEF Conclude, At, DirectoryKnown
  <2>2. EvidenceOfThisBuild'
    BY <1>7, <1>a, <1>b, <1>c, <2>1, EvidenceKept DEF Conclude
  <2>3. QED
    BY <1>7, <1>b, <2>2, DirectoryReported DEF Conclude
<1>8. QED
  BY <1>1, <1>3, <1>4, <1>5, <1>6, <1>7 DEF AttestingStep

LEMMA DirectoryAssuring ==
  ASSUME Solo, TypeOK, DirectoryInv, NEW p \in Procs, Assuring(p)
  PROVE  DirectoryInv'
<1>0. job[p] \in JobRecords
  BY DEF TypeOK, Jobs
<1>a. DirectoryKnown(job[p]) /\ EvidenceOfThisBuild
  BY DEF DirectoryInv
<1>b. UNCHANGED <<disk, manifest>>
  BY DEF Assuring, CheckBuild, Assure, files
<1>1. CASE CheckBuild(p)
  <2> DEFINE k == [job[p] EXCEPT !.step = "answers", !.seen = manifest]
  <2>0. EvidenceOfThisBuild'
    BY <1>1, <1>a DEF CheckBuild, files, EvidenceOfThisBuild
  <2>1. CASE Exit(p)
    BY <1>b, <2>0, <2>1, DirectoryReported
  <2>2. CASE Intact /\ Becomes(p, k)
    <3>1. k.step = "answers" /\ k.seen = manifest
      BY <1>0 DEF JobRecords
    <3>2. Becomes(p, k)
      BY <2>2
    <3> HIDE DEF k
    <3>3. DirectoryKnown(k)
      BY <2>2, <3>1 DEF DirectoryKnown, Rendering
    <3>4. QED
      BY <1>b, <2>0, <3>1, <3>2, <3>3, DirectoryObserving DEF Observing
  <2>3. QED
    BY <1>1, <2>1, <2>2 DEF CheckBuild
<1>2. CASE Assure(p)
  <2>1. job[p].seen = manifest /\ "assure" \in Reporting
    BY <1>2, <1>a DEF Assure, At, DirectoryKnown, Reporting
  <2>2. EvidenceOfThisBuild'
    BY <1>2, <1>a, <1>b, <2>1, EvidenceKept DEF Assure
  <2>3. QED
    BY <1>2, <1>b, <2>2, DirectoryReported DEF Assure
<1>3. QED
  BY <1>1, <1>2 DEF Assuring

LEMMA DirectoryStarting ==
  ASSUME Solo, TypeOK, DirectoryInv, NEW p \in Procs, NEW c \in Menu, Start(p, c)
  PROVE  DirectoryInv'
<1> DEFINE k == [Idle EXCEPT !.command = c, !.step = FirstStep(c)]
<1>1. /\ k.step \in {"guard", "fetch", "integrity", "down", "attach", "assure"}
      /\ k.base = NoManifest /\ ~k.faulted
  BY MenuAssumption DEF Idle, FirstStep, Commands, Attesting
<1>2. Becomes(p, k) /\ UNCHANGED files
  BY DEF Start
<1> HIDE DEF k
<1>3. job'[p] = k
  BY <1>2, BecomesEffect DEF TypeOK
<1>4. DirectoryKnown(job[p])'
  BY <1>1, <1>3 DEF DirectoryKnown, Rendering
<1>5. QED
  BY <1>2, <1>4, DirectoryKept DEF DirectoryInv, EvidenceOfThisBuild, files

LEMMA DirectoryInductive ==
  ASSUME Solo, TypeOK, DirectoryInv, [Next]_vars
  PROVE  DirectoryInv'
<1>1. CASE UNCHANGED <<disk, manifest, evidence, job>>
  BY <1>1 DEF DirectoryInv, DirectoryKnown, EvidenceOfThisBuild, Agrees, Intact, Passes,
     WholeBuilds
<1>2. ASSUME NEW p \in Procs, Kill(p)
      PROVE  DirectoryInv'
  BY <1>2, DirectoryBreakOff DEF Kill
<1>3. QED
  BY <1>1, <1>2, DirectoryStarting, DirectoryCompiling, DirectoryDeploying,
     DirectoryAttesting, DirectoryAssuring DEF Next, Step, vars, ChangeIntent, ContainerExits, files

LEMMA DirectoryInitially == Init => DirectoryInv
BY DEF Init, DirectoryInv, DirectoryKnown, EvidenceOfThisBuild, Idle, Rendering

LEMMA DirectoryMeans ==
  ASSUME DirectoryInv
  PROVE  IntactBuildIsWhole /\ EvidenceOfThisBuild
BY DEF DirectoryInv, IntactBuildIsWhole, Intact, WholeBuilds

\* Manifest integrity, one command at a time: a directory that
\* load_verified_manifest accepts holds one whole build of a validated input.
THEOREM IntactHolds == Solo => (Spec => []IntactBuildIsWhole)
<1> SUFFICES ASSUME Solo PROVE Spec => []IntactBuildIsWhole
  OBVIOUS
<1>1. TypeOK /\ DirectoryInv /\ [Next]_vars => DirectoryInv'
  BY DirectoryInductive
<1>2. DirectoryInv => IntactBuildIsWhole
  BY DirectoryMeans
<1>3. QED
  BY <1>1, <1>2, DirectoryInitially, TypeCorrect, PTL DEF Spec

\* Evidence identity, one command at a time: a report never stands beside the
\* manifest of another build.
THEOREM EvidenceHolds == Solo => (Spec => []EvidenceOfThisBuild)
<1> SUFFICES ASSUME Solo PROVE Spec => []EvidenceOfThisBuild
  OBVIOUS
<1>1. TypeOK /\ DirectoryInv /\ [Next]_vars => DirectoryInv'
  BY DirectoryInductive
<1>2. DirectoryInv => EvidenceOfThisBuild
  BY DirectoryMeans
<1>3. QED
  BY <1>1, <1>2, DirectoryInitially, TypeCorrect, PTL DEF Spec

-----------------------------------------------------------------------------
(* The directory implements SiteContract.                                  *)

\* A step that leaves the manifest and the reports alone publishes what the
\* manifest names, withdraws it, or changes nothing a reader can tell.
LEMMA ContractQuiet ==
  ASSUME TypeOK, DirectoryInv, DirectoryInv', UNCHANGED <<manifest, evidence>>
  PROVE  [Contract!Next]_(Contract!svars)
<1>1. CASE Published' = Published
  BY <1>1 DEF Contract!svars
<1>2. CASE Published' = NoManifest
  BY <1>2 DEF Contract!Next, Contract!Withdraw
<1>3. CASE Published = NoManifest /\ Published' = manifest /\ manifest # NoManifest
  <2>1. manifest \in WholeBuilds
    BY <1>3 DEF DirectoryInv
  <2>2. \A c \in Reporting : evidence[c] \in {NoManifest, manifest}
    BY <1>3 DEF DirectoryInv, EvidenceOfThisBuild
  <2>3. Contract!Publish(manifest)
    BY <1>3, <2>2 DEF Contract!Publish
  <2>4. QED
    BY <2>1, <2>3 DEF Contract!Next
<1>4. QED
  BY <1>1, <1>2, <1>3 DEF Published

LEMMA ContractStep ==
  ASSUME Solo, TypeOK, DirectoryInv, DirectoryInv', [Next]_vars
  PROVE  [Contract!Next]_(Contract!svars)
<1>1. CASE UNCHANGED <<manifest, evidence>>
  BY <1>1, ContractQuiet
<1>2. ASSUME NEW p \in Procs, ClearManifest(p)
      PROVE  [Contract!Next]_(Contract!svars)
  <2>1. CASE UNCHANGED manifest
    BY <1>1, <1>2, <2>1 DEF ClearManifest
  <2>2. CASE manifest' = NoManifest
    <3>1. Published' = NoManifest /\ UNCHANGED evidence
      BY <1>2, <2>2 DEF ClearManifest, Published, Intact
    <3>2. QED
      BY <3>1 DEF Contract!Next, Contract!Withdraw
  <2>3. QED
    BY <1>2, <2>1, <2>2 DEF ClearManifest
<1>3. ASSUME NEW p \in Procs, ClearEvidence(p)
      PROVE  [Contract!Next]_(Contract!svars)
  <2>1. DirectoryKnown(job[p])
    BY DEF DirectoryInv
  <2>2. manifest = NoManifest
    BY <1>3, <2>1 DEF ClearEvidence, At, DirectoryKnown
  <2>3. Published = NoManifest /\ Published' = NoManifest
    BY <1>3, <2>2 DEF ClearEvidence, Published, Intact
  <2>4. PICK gone : evidence' = EvidenceWithout(gone)
    BY <1>3 DEF ClearEvidence
  <2>5. evidence' = [c \in Reporting |-> IF c \in gone \cap Reporting THEN NoManifest
                                        ELSE evidence[c]]
    BY <2>4 DEF EvidenceWithout
  <2>6. QED
    BY <2>3, <2>5 DEF Contract!Next, Contract!Forget
<1>4. ASSUME NEW p \in Procs, WriteManifest(p)
      PROVE  [Contract!Next]_(Contract!svars)
  <2>1. DirectoryKnown(job[p])
    BY DEF DirectoryInv
  <2>2. /\ job[p].seen \in WholeBuilds /\ manifest = NoManifest
        /\ evidence = [c \in Reporting |-> NoManifest]
    BY <1>4, <2>1 DEF WriteManifest, At, DirectoryKnown
  <2>3. /\ Published = NoManifest /\ Published' \in {NoManifest, job[p].seen}
        /\ UNCHANGED evidence
    BY <1>4, <2>2 DEF WriteManifest, Published
  <2>4. CASE Published' = NoManifest
    BY <2>3, <2>4 DEF Contract!svars
  <2>5. CASE Published' = job[p].seen
    BY <2>2, <2>3, <2>5 DEF Contract!Next, Contract!Publish
  <2>6. QED
    BY <2>3, <2>4, <2>5
<1>5. ASSUME NEW p \in Procs,
             Verify(p) \/ Baseline(p) \/ Observed(p) \/ Conclude(p) \/ Assure(p)
      PROVE  [Contract!Next]_(Contract!svars)
  <2>1. DirectoryKnown(job[p]) /\ {"verify", "scenario", "assure"} \subseteq Reporting
    BY DEF DirectoryInv, Attesting, Reporting
  <2>2. Intact /\ UNCHANGED <<disk, manifest>>
    BY <1>5, <2>1 DEF Verify, Baseline, Observed, Conclude, Assure, At, DirectoryKnown
  <2>3. /\ Published = manifest /\ manifest # NoManifest
        /\ Published' = Published
    BY <2>2 DEF Published, Intact
  <2>4. \/ UNCHANGED evidence
        \/ evidence' = [evidence EXCEPT !["verify"] = manifest]
        \/ evidence' = [evidence EXCEPT !["scenario"] = manifest]
        \/ evidence' = [evidence EXCEPT !["assure"] = manifest]
    BY <1>5, <2>1 DEF Verify, Baseline, Observed, Conclude, Assure, Verified, At,
       DirectoryKnown
  <2>5. CASE UNCHANGED evidence
    BY <2>3, <2>5 DEF Contract!svars
  <2>6. ASSUME NEW c \in Reporting, evidence' = [evidence EXCEPT ![c] = manifest]
        PROVE  [Contract!Next]_(Contract!svars)
    BY <2>3, <2>6 DEF Contract!Next, Contract!Report
  <2>7. QED
    BY <2>1, <2>4, <2>5, <2>6
<1>6. ASSUME NEW p \in Procs, Step(p)
      PROVE  [Contract!Next]_(Contract!svars)
  <2>1. CASE Compiling(p)
    BY <2>1, <1>1, <1>2, <1>3, <1>4 DEF Compiling, Guard, Fetch, WriteReport, ClearRest,
       ClearTopology, WriteTopology, WriteRest, Generate, DigestFiles, files
  <2>2. CASE Deploying(p)
    BY <2>2, <1>1 DEF Deploying, CheckIntegrity, CheckPlan, CheckBefore, RunDeploy,
       DropStamp, Cleanup, CheckAfter, Abort, AbortStamp, WriteStamp, StampRemoved,
       BreakOff, files
  <2>3. CASE Destroying(p) \/ AttestingStep(p) \/ Assuring(p)
    BY <2>3, <1>1, <1>5 DEF Destroying, Down, RunDestroy, CheckDown, RemoveStamp,
       AttestingStep, Attach, CheckIdentity, CheckRuntime, Observe, Assuring, CheckBuild,
       StampRemoved, BreakOff, files
  <2>4. QED
    BY <1>6, <2>1, <2>2, <2>3 DEF Step
<1>7. QED
  BY <1>1, <1>6 DEF Next, Start, Kill, BreakOff, ChangeIntent, ContainerExits, files, vars

\* Refinement, one command at a time: the build directory keeps the contract
\* of SiteContract through every failure and kill.
THEOREM ContractHolds == Solo => (Spec => HonoursContract)
<1> SUFFICES ASSUME Solo PROVE Spec => HonoursContract
  OBVIOUS
<1>1. Init => Contract!Init
  BY DEF Init, Contract!Init, Contract!NoReports, Published, Intact
<1>2. TypeOK /\ DirectoryInv /\ [Next]_vars => DirectoryInv'
  BY DirectoryInductive
<1>3. TypeOK /\ DirectoryInv /\ DirectoryInv' /\ [Next]_vars
        => [Contract!Next]_(Contract!svars)
  BY ContractStep
<1>4. QED
  BY <1>1, <1>2, <1>3, DirectoryInitially, TypeCorrect, PTL
     DEF Spec, HonoursContract, Contract!Spec
=============================================================================
