------------------------ MODULE LabLifecycleIdentity ------------------------
(***************************************************************************)
(* The lab in LabLifecycle when commands do not overlap, for every value   *)
(* of the other constants: every command may fail anywhere, Containerlab   *)
(* may do any part of its work, containers exit and inputs come and go.    *)
(* Runtime identity holds if no command is killed and every stamp that is  *)
(* to go goes, or if intent never goes back to an earlier value; the       *)
(* failure paths of a deploy and the compile guard need neither.           *)
(***************************************************************************)
EXTENDS LabLifecycleDirectory

Origin(m) == [topology |-> m.files["topology"], rest |-> m.files["rest"]]

RunsBuild(m) == \A n \in Present : lab[n].from = Origin(m)

\* From the moment Containerlab may have replaced containers until the command
\* has dealt with the stamp, the stamp may be out of date.
Settling == {"after", "stamp", "dropStamp", "abort", "abortStamp"}

LabKnown(j) ==
  /\ j.step \in {"plan", "before", "deploy", "after", "stamp"}
       => Intact /\ j.seen = manifest
  /\ j.step \in {"before", "deploy", "after", "stamp"}
       => j.names = NamesOf[disk["topology"]]
  /\ j.step = "after"
       => \A n \in Present \cap j.names : lab[n].from = Origin(j.seen)
  /\ j.step = "stamp" => RunsBuild(j.seen)
  /\ j.step = "cleanup" => stamp = NoStamp
  /\ j.step \in {"attest", "collect"} => stamp # NoStamp /\ stamp.build = j.seen

LabInv ==
  /\ \A p \in Procs : LabKnown(job[p])
  /\ MaxFaults = 0 /\ (\A p \in Procs : job[p].step \notin Settling) /\ stamp # NoStamp
       => RunsBuild(stamp.build)

-----------------------------------------------------------------------------
(* LabInv is kept by every step.                                           *)

LabKnowing == {"plan", "before", "deploy", "after", "stamp", "cleanup",
               "attest", "collect"}

LEMMA LabKept ==
  ASSUME Solo, NEW p \in Procs, LabKnown(job[p])',
         (MaxFaults = 0 /\ job[p].step \notin Settling /\ stamp # NoStamp
            => RunsBuild(stamp.build))'
  PROVE  LabInv'
<1>1. \A q \in Procs : q = p
  BY DEF Solo
<1>2. QED
  BY <1>1 DEF LabInv

\* A step that leaves lab and stamp alone, between two steps that rely on
\* nothing and leave no stamp behind its lab.
LEMMA LabBecomes ==
  ASSUME Solo, TypeOK, LabInv, NEW p \in Procs, UNCHANGED <<lab, stamp>>,
         job[p].step \notin Settling,
         NEW j, j.step \notin LabKnowing, Becomes(p, j)
  PROVE  LabInv'
<1>1. job'[p] = j
  BY BecomesEffect DEF TypeOK
<1>2. LabKnown(job[p])'
  BY <1>1 DEF LabKnown, LabKnowing
<1>3. MaxFaults = 0 /\ stamp # NoStamp => RunsBuild(stamp.build)
  BY DEF LabInv, Solo
<1>4. QED
  BY <1>2, <1>3, LabKept DEF RunsBuild, Present, Origin

LEMMA LabExit ==
  ASSUME Solo, TypeOK, LabInv, NEW p \in Procs, UNCHANGED <<lab, stamp>>,
         job[p].step \notin Settling, Exit(p)
  PROVE  LabInv'
BY LabBecomes, IdleStep DEF Exit, LabKnowing

LEMMA LabGoto ==
  ASSUME Solo, TypeOK, LabInv, NEW p \in Procs, UNCHANGED <<lab, stamp>>,
         job[p].step \notin Settling, NEW s, s \notin LabKnowing, Goto(p, s)
  PROVE  LabInv'
<1>1. [job[p] EXCEPT !.step = s].step = s
  BY DEF TypeOK, Jobs, JobRecords
<1>2. QED
  BY <1>1, LabBecomes DEF Goto

\* Where a failure is being dealt with nothing is claimed.
LEMMA LabSettling ==
  ASSUME Solo, TypeOK, NEW p \in Procs,
         NEW s \in {"dropStamp", "abort", "abortStamp"}, Goto(p, s)
  PROVE  LabInv'
<1>1. job'[p].step = s
  BY GotoEffect DEF TypeOK
<1>2. QED
  BY <1>1, LabKept DEF LabKnown, Settling

\* Without a stamp there is nothing to be wrong.
LEMMA LabUnstamped ==
  ASSUME Solo, TypeOK, NEW p \in Procs, Exit(p), stamp' = NoStamp
  PROVE  LabInv'
<1>1. job'[p].step = "idle"
  BY ExitEffect, IdleStep DEF TypeOK
<1>2. QED
  BY <1>1, LabKept DEF LabKnown

\* A command that breaks off may leave a stamp behind its lab.
LEMMA LabBreakOff ==
  ASSUME Solo, TypeOK, NEW p \in Procs, BreakOff(p)
  PROVE  LabInv'
<1>1. MaxFaults # 0 /\ job'[p].step = "idle"
  BY ExitEffect, IdleStep DEF BreakOff, TypeOK
<1>2. LabKnown(job[p])'
  BY <1>1 DEF LabKnown
<1>3. QED
  BY <1>1, <1>2, LabKept

\* Removing containers leaves the others as they are.
LEMMA RemovalRuns ==
  ASSUME TypeOK, ContainerlabDestroy, NEW m, RunsBuild(m)
  PROVE  \A n \in Present' : lab'[n].from = Origin(m)
<1>1. CASE UNCHANGED lab
  BY <1>1 DEF RunsBuild, Present
<1>2. ASSUME NEW gone \in SUBSET Present, Place({}, gone)
      PROVE  \A n \in Present' : lab'[n].from = Origin(m)
  <2>1. \A n \in Nodes : lab'[n] \in {lab[n], Absent}
    BY <1>2 DEF Place
  <2>2. QED
    BY <2>1 DEF RunsBuild, Present
<1>3. QED
  BY <1>1, <1>2 DEF ContainerlabDestroy

LEMMA LabCompiling ==
  ASSUME Solo, TypeOK, LabInv, NEW p \in Procs, Compiling(p)
  PROVE  LabInv'
<1> USE DEF Settling, LabKnowing
<1>0. job[p] \in JobRecords
  BY DEF TypeOK, Jobs
<1>1. CASE Guard(p)
  BY <1>1, LabExit, LabGoto DEF Guard, files, At
<1>2. CASE Fetch(p)
  <2>1. [job[p] EXCEPT !.input = intent, !.step = "report"].step = "report"
    BY <1>0 DEF JobRecords
  <2>2. CASE Exit(p)
    BY <1>2, <2>2, LabExit DEF Fetch, At
  <2>3. CASE Becomes(p, [job[p] EXCEPT !.input = intent, !.step = "report"])
    BY <1>2, <2>1, <2>3, LabBecomes DEF Fetch, At
  <2>4. QED
    BY <1>2, <2>2, <2>3 DEF Fetch
<1>3. CASE WriteReport(p)
  BY <1>3, LabExit, LabGoto DEF WriteReport, At
<1>4. CASE ClearRest(p) \/ ClearTopology(p)
  BY <1>4, LabExit, LabGoto DEF ClearRest, ClearTopology, At
<1>5. CASE ClearManifest(p) \/ ClearEvidence(p)
  BY <1>5, LabExit, LabGoto DEF ClearManifest, ClearEvidence, At
<1>6. CASE WriteTopology(p) \/ WriteRest(p)
  BY <1>6, LabExit, LabGoto DEF WriteTopology, WriteRest, Generate, At
<1>7. CASE DigestFiles(p)
  <2> DEFINE m == [input |-> job[p].input, files |-> disk]
  <2>1. [job[p] EXCEPT !.step = "manifest", !.seen = m].step = "manifest"
    BY <1>0 DEF JobRecords
  <2>2. CASE Exit(p)
    BY <1>7, <2>2, LabExit DEF DigestFiles, files, At
  <2>3. CASE Becomes(p, [job[p] EXCEPT !.step = "manifest", !.seen = m])
    BY <1>7, <2>1, <2>3, LabBecomes DEF DigestFiles, files, At
  <2>4. QED
    BY <1>7, <2>2, <2>3 DEF DigestFiles
<1>8. CASE WriteManifest(p)
  BY <1>8, LabExit, LabGoto DEF WriteManifest, At
<1>9. QED
  BY <1>1, <1>2, <1>3, <1>4, <1>5, <1>6, <1>7, <1>8 DEF Compiling

\* A successful deploy creates the nodes of the verified topology from the
\* verified files.
LEMMA DeployedRuns ==
  ASSUME TypeOK, Intact, NEW replace, ContainerlabDeployed(replace)
  PROVE  \A n \in Present' \cap NamesOf[disk["topology"]] :
           lab'[n].from = Origin(manifest)
<1>1. PICK gone \in SUBSET Present : Place(NamesOf[disk["topology"]], gone)
  BY DEF ContainerlabDeployed
<1>2. Fresh.from = Origin(manifest)
  BY DEF Fresh, Origin, Intact
<1>3. QED
  BY <1>1, <1>2 DEF Place, Present

LEMMA LabDeploying ==
  ASSUME Solo, TypeOK, LabInv, NEW p \in Procs, Deploying(p)
  PROVE  LabInv'
<1>0. job \in [Procs -> Jobs] /\ job[p] \in JobRecords
  BY DEF TypeOK, Jobs
<1>a. LabKnown(job[p])
  BY DEF LabInv
<1>b. MaxFaults = 0 /\ job[p].step \notin Settling /\ stamp # NoStamp => RunsBuild(stamp.build)
  BY DEF LabInv, Solo
<1>1. CASE CheckIntegrity(p)
  <2> DEFINE j == [job[p] EXCEPT !.step = "plan", !.seen = manifest]
  <2>1. j.step = "plan" /\ j.seen = manifest
    BY <1>0 DEF JobRecords
  <2>2. CASE Exit(p)
    BY <1>1, <2>2, LabExit DEF CheckIntegrity, files, At, Settling
  <2>3. CASE Intact /\ Becomes(p, j)
    <3>1. job'[p] = j
      BY <1>0, <2>3, BecomesEffect
    <3>2. LabKnown(job[p])'
      <4> HIDE DEF j
      <4> QED BY <1>1, <2>1, <2>3, <3>1 DEF CheckIntegrity, files, LabKnown, Intact
    <3>3. QED
      BY <1>1, <1>b, <3>2, LabKept
         DEF CheckIntegrity, files, At, Settling, RunsBuild, Present, Origin
  <2>4. QED
    BY <1>1, <2>2, <2>3 DEF CheckIntegrity
<1>2. CASE CheckPlan(p)
  <2> DEFINE names == NamesOf[disk["topology"]]
             j == [job[p] EXCEPT !.step = "before", !.names = names]
  <2>1. j.step = "before" /\ j.seen = job[p].seen /\ j.names = names
    BY <1>0 DEF JobRecords
  <2>2. CASE Exit(p)
    BY <1>2, <2>2, LabExit DEF CheckPlan, files, At, Settling
  <2>3. CASE Becomes(p, j)
    <3>1. job'[p] = j
      BY <1>0, <2>3, BecomesEffect
    <3>2. Intact /\ job[p].seen = manifest
      BY <1>2, <1>a DEF CheckPlan, At, LabKnown
    <3>3. LabKnown(job[p])'
      <4> HIDE DEF j
      <4> QED BY <1>2, <2>1, <3>1, <3>2 DEF CheckPlan, files, LabKnown, Intact
    <3>4. QED
      BY <1>2, <1>b, <3>3, LabKept
         DEF CheckPlan, files, At, Settling, RunsBuild, Present, Origin
  <2>4. QED
    BY <1>2, <2>2, <2>3 DEF CheckPlan
<1>3. CASE CheckBefore(p)
  <2>1. CASE Exit(p)
    BY <1>3, <2>1, LabExit DEF CheckBefore, files, At, Settling
  <2>2. CASE Goto(p, "deploy")
    <3>1. /\ job'[p].step = "deploy" /\ job'[p].seen = job[p].seen
          /\ job'[p].names = job[p].names
      BY <1>0, <2>2, GotoEffect
    <3>2. /\ Intact /\ job[p].seen = manifest
          /\ job[p].names = NamesOf[disk["topology"]]
      BY <1>3, <1>a DEF CheckBefore, At, LabKnown
    <3>3. LabKnown(job[p])'
      BY <1>3, <3>1, <3>2 DEF CheckBefore, files, LabKnown, Intact
    <3>4. QED
      BY <1>3, <1>b, <3>3, LabKept
         DEF CheckBefore, files, At, Settling, RunsBuild, Present, Origin
  <2>3. QED
    BY <1>3, <2>1, <2>2 DEF CheckBefore
<1>4. CASE RunDeploy(p)
  <2>1. CASE Goto(p, "dropStamp")
    BY <2>1, LabSettling
  <2>2. CASE Goto(p, "after") /\ ContainerlabDeployed(job[p].command = "reconfigure")
    <3>1. /\ job'[p].step = "after" /\ job'[p].seen = job[p].seen
          /\ job'[p].names = job[p].names
      BY <1>0, <2>2, GotoEffect
    <3>2. /\ Intact /\ job[p].seen = manifest
          /\ job[p].names = NamesOf[disk["topology"]]
      BY <1>4, <1>a DEF RunDeploy, At, LabKnown
    <3>3. \A n \in Present' \cap job[p].names : lab'[n].from = Origin(job[p].seen)
      BY <2>2, <3>2, DeployedRuns
    <3>4. LabKnown(job[p])'
      BY <1>4, <3>1, <3>2, <3>3 DEF RunDeploy, files, LabKnown, Intact, Origin
    <3>5. QED
      BY <3>1, <3>4, LabKept DEF Settling
  <2>3. QED
    BY <1>4, <2>1, <2>2 DEF RunDeploy
<1>5. CASE DropStamp(p)
  <2>1. CASE StampRemoved /\ Goto(p, "cleanup")
    <3>1. job'[p].step = "cleanup" /\ stamp' = NoStamp
      BY <1>0, <2>1, GotoEffect DEF StampRemoved
    <3>2. QED
      BY <3>1, LabKept DEF LabKnown
  <2>2. QED
    BY <1>5, <2>1, LabBreakOff DEF DropStamp
<1>6. CASE Cleanup(p)
  <2>1. stamp' = NoStamp
    BY <1>6, <1>a DEF Cleanup, At, LabKnown, files
  <2>2. QED
    BY <1>6, <2>1, LabUnstamped DEF Cleanup
<1>7. CASE CheckAfter(p)
  <2>1. CASE Goto(p, "abort")
    BY <2>1, LabSettling
  <2>2. CASE Goto(p, "stamp") /\ ExactlyRunning(job[p].names)
    <3>1. /\ job'[p].step = "stamp" /\ job'[p].seen = job[p].seen
          /\ job'[p].names = job[p].names
      BY <1>0, <2>2, GotoEffect
    <3>2. /\ Intact /\ job[p].seen = manifest
          /\ job[p].names = NamesOf[disk["topology"]]
          /\ \A n \in Present \cap job[p].names : lab[n].from = Origin(job[p].seen)
      BY <1>7, <1>a DEF CheckAfter, At, LabKnown
    <3>3. RunsBuild(job[p].seen)
      BY <2>2, <3>2 DEF ExactlyRunning, RunsBuild
    <3>4. LabKnown(job[p])'
      BY <1>7, <3>1, <3>2, <3>3
         DEF CheckAfter, files, LabKnown, Intact, RunsBuild, Present, Origin
    <3>5. QED
      BY <3>1, <3>4, LabKept DEF Settling
  <2>3. QED
    BY <1>7, <2>1, <2>2 DEF CheckAfter
<1>8. CASE Abort(p)
  BY <1>8, LabSettling DEF Abort
<1>9. CASE AbortStamp(p)
  BY <1>9, LabUnstamped, LabBreakOff DEF AbortStamp, StampRemoved
<1>10. CASE WriteStamp(p)
  <2>1. /\ Intact /\ job[p].seen = manifest /\ RunsBuild(job[p].seen)
    BY <1>10, <1>a DEF WriteStamp, At, LabKnown
  <2>2. disk["topology"] # NoFile
    BY <2>1, AbsenceAssumption DEF Intact, TypeOK, Manifests, Artifacts
  <2>3. CASE Goto(p, "abort")
    BY <2>3, LabSettling
  <2>4. CASE /\ stamp' = [topology |-> disk["topology"], build |-> job[p].seen,
                          names |-> NamesOf[disk["topology"]]]
             /\ Exit(p)
    <3>1. job'[p].step = "idle"
      BY <1>0, <2>4, ExitEffect, IdleStep
    <3>2. stamp'.build = job[p].seen
      BY <2>4
    <3>3. RunsBuild(stamp.build)'
      BY <1>10, <2>1, <3>2 DEF WriteStamp, RunsBuild, Present, Origin
    <3>4. LabKnown(job[p])'
      BY <3>1 DEF LabKnown
    <3>5. QED
      BY <3>3, <3>4, LabKept
  <2>5. QED
    BY <1>10, <2>2, <2>3, <2>4 DEF WriteStamp
<1>11. QED
  BY <1>1, <1>2, <1>3, <1>4, <1>5, <1>6, <1>7, <1>8, <1>9, <1>10 DEF Deploying

LEMMA LabDestroying ==
  ASSUME Solo, TypeOK, LabInv, NEW p \in Procs, Destroying(p)
  PROVE  LabInv'
<1> USE DEF Settling, LabKnowing
<1>0. job \in [Procs -> Jobs]
  BY DEF TypeOK
<1>1. CASE Down(p)
  BY <1>1, LabExit, LabGoto DEF Down, files, At
<1>2. CASE RunDestroy(p)
  <2>1. job'[p].step \in {"downAfter", "idle"}
    BY <1>0, <1>2, ExitEffect, GotoEffect, IdleStep DEF RunDestroy
  <2>2. MaxFaults = 0 /\ stamp # NoStamp => RunsBuild(stamp.build)
    BY <1>2 DEF RunDestroy, At, LabInv, Solo
  <2>3. (MaxFaults = 0 /\ stamp # NoStamp => RunsBuild(stamp.build))'
    BY <1>2, <2>2, RemovalRuns DEF RunDestroy, files, RunsBuild, Origin
  <2>4. LabKnown(job[p])'
    BY <2>1 DEF LabKnown
  <2>5. QED
    BY <2>3, <2>4, LabKept
<1>3. CASE CheckDown(p)
  BY <1>3, LabExit, LabGoto DEF CheckDown, files, At
<1>4. CASE RemoveStamp(p)
  BY <1>4, LabUnstamped, LabBreakOff DEF RemoveStamp, StampRemoved
<1>5. QED
  BY <1>1, <1>2, <1>3, <1>4 DEF Destroying

\* A command that attests and leaves the lab and its stamp alone.
LEMMA LabAttends ==
  ASSUME Solo, TypeOK, LabInv, NEW p \in Procs, UNCHANGED <<lab, stamp>>,
         job[p].step \notin Settling,
         NEW k, k.step \notin Settling, Becomes(p, k),
         k.step \in {"attest", "collect"} => stamp # NoStamp /\ stamp.build = k.seen,
         k.step \in LabKnowing => k.step \in {"attest", "collect"}
  PROVE  LabInv'
<1>1. job'[p] = k
  BY BecomesEffect DEF TypeOK
<1>2. LabKnown(job[p])'
  BY <1>1 DEF LabKnown, LabKnowing
<1>3. MaxFaults = 0 /\ stamp # NoStamp => RunsBuild(stamp.build)
  BY DEF LabInv, Solo
<1>4. QED
  BY <1>2, <1>3, LabKept DEF RunsBuild, Present, Origin

LEMMA LabAttesting ==
  ASSUME Solo, TypeOK, LabInv, NEW p \in Procs, AttestingStep(p)
  PROVE  LabInv'
<1>0. job[p] \in JobRecords
  BY DEF TypeOK, Jobs
<1>a. LabKnown(job[p])
  BY DEF LabInv
<1>b. UNCHANGED <<lab, stamp>>
  BY DEF AttestingStep, Attach, CheckIdentity, CheckRuntime, Verify, Baseline, Observe,
     Observed, Conclude, files
<1>c. job[p].step \notin Settling
  BY DEF AttestingStep, Attach, CheckIdentity, CheckRuntime, Verify, Baseline, Observe,
     Observed, Conclude, At, Settling
<1>1. CASE Exit(p)
  BY <1>1, <1>b, <1>c, LabExit
<1>2. ASSUME NEW s \in {"identity", "fault"}, Goto(p, s)
      PROVE  LabInv'
  BY <1>2, <1>b, <1>c, LabGoto DEF LabKnowing
<1>3. CASE CheckIdentity(p)
  <2> DEFINE k == [job[p] EXCEPT !.step = "attest", !.seen = manifest,
                                 !.names = stamp.names]
  <2>1. CASE Refuse(p)
    BY <1>1, <1>2, <2>1 DEF Refuse
  <2>2. CASE StampMatches /\ Becomes(p, k)
    <3>1. k.step = "attest" /\ k.seen = manifest
      BY <1>0 DEF JobRecords
    <3> HIDE DEF k
    <3>2. QED
      BY <1>b, <1>c, <2>2, <3>1, LabAttends DEF StampMatches, Settling
  <2>3. QED
    BY <1>3, <2>1, <2>2 DEF CheckIdentity
<1>4. CASE CheckRuntime(p)
  <2>1. CASE Refuse(p)
    BY <1>1, <1>2, <2>1 DEF Refuse
  <2>2. CASE Becomes(p, [job[p] EXCEPT !.base = job[p].seen, !.step = "identity"])
    <3> DEFINE k == [job[p] EXCEPT !.base = job[p].seen, !.step = "identity"]
    <3>1. k.step = "identity" /\ Becomes(p, k)
      BY <1>0, <2>2 DEF JobRecords
    <3> HIDE DEF k
    <3>2. QED
      BY <1>b, <1>c, <3>1, LabAttends DEF Settling, LabKnowing
  <2>3. CASE Goto(p, "collect")
    <3> DEFINE k == [job[p] EXCEPT !.step = "collect"]
    <3>1. k.step = "collect" /\ k.seen = job[p].seen /\ Becomes(p, k)
      BY <1>0, <2>3 DEF JobRecords, Goto
    <3>2. stamp # NoStamp /\ stamp.build = job[p].seen
      BY <1>4, <1>a DEF CheckRuntime, At, LabKnown
    <3> HIDE DEF k
    <3>3. QED
      BY <1>b, <1>c, <3>1, <3>2, LabAttends DEF Settling
  <2>4. QED
    BY <1>4, <2>1, <2>2, <2>3 DEF CheckRuntime
<1>5. CASE Baseline(p)
  <2> DEFINE k == [job[p] EXCEPT !.faulted = TRUE, !.step = "fault"]
  <2>1. CASE Becomes(p, k)
    <3>1. k.step = "fault"
      BY <1>0 DEF JobRecords
    <3> HIDE DEF k
    <3>2. QED
      BY <1>b, <1>c, <2>1, <3>1, LabAttends DEF Settling, LabKnowing
  <2>2. QED
    BY <1>1, <1>5, <2>1 DEF Baseline
<1>6. QED
  BY <1>1, <1>2, <1>3, <1>4, <1>5
     DEF AttestingStep, Attach, Verify, Observe, Observed, Conclude

LEMMA LabAssuring ==
  ASSUME Solo, TypeOK, LabInv, NEW p \in Procs, Assuring(p)
  PROVE  LabInv'
<1>1. UNCHANGED <<lab, stamp>> /\ job[p].step \notin Settling
  BY DEF Assuring, CheckBuild, Assure, files, At, Settling
<1>2. CASE Exit(p)
  BY <1>1, <1>2, LabExit
<1>3. CASE Becomes(p, [job[p] EXCEPT !.step = "answers", !.seen = manifest])
  <2> DEFINE k == [job[p] EXCEPT !.step = "answers", !.seen = manifest]
  <2>1. k.step \notin LabKnowing /\ Becomes(p, k)
    BY <1>3 DEF TypeOK, Jobs, JobRecords, LabKnowing
  <2> HIDE DEF k
  <2>2. QED
    BY <1>1, <2>1, LabBecomes
<1>4. QED
  BY <1>2, <1>3 DEF Assuring, CheckBuild, Assure

LEMMA LabStarting ==
  ASSUME Solo, TypeOK, LabInv, NEW p \in Procs, NEW c \in Menu, Start(p, c)
  PROVE  LabInv'
<1> DEFINE j == [Idle EXCEPT !.command = c, !.step = FirstStep(c)]
<1>1. j.step \notin LabKnowing
  BY MenuAssumption DEF Idle, FirstStep, Commands, Attesting, LabKnowing
<1>2. Becomes(p, j) /\ UNCHANGED <<lab, stamp>> /\ job[p].step \notin Settling
  BY DEF Start, files, At, Settling
<1>3. QED
  <2> HIDE DEF j
  <2> QED BY <1>1, <1>2, LabBecomes

\* The environment changes neither what a container was created from nor any
\* file.
LEMMA LabEnvironment ==
  ASSUME TypeOK, LabInv, UNCHANGED <<files, job>>, Present' = Present,
         \A n \in Present : lab'[n].from = lab[n].from
  PROVE  LabInv'
BY DEF LabInv, LabKnown, RunsBuild, Origin, Intact, files

LEMMA LabInductive ==
  ASSUME Solo, TypeOK, LabInv, [Next]_vars
  PROVE  LabInv'
<1>1. ASSUME NEW p \in Procs, Kill(p)
      PROVE  LabInv'
  BY <1>1, LabBreakOff DEF Kill
<1>2. CASE UNCHANGED <<files, job, lab>>
  BY <1>2, LabEnvironment DEF Present
<1>3. ASSUME NEW n \in Nodes, ContainerExits(n)
      PROVE  LabInv'
  <2>1. lab' = [lab EXCEPT ![n].running = FALSE] /\ lab[n] # Absent /\ lab[n] \in Containers
    BY <1>3 DEF ContainerExits, TypeOK
  <2>2. lab'[n] \in Containers /\ lab'[n].from = lab[n].from
    BY <2>1 DEF TypeOK, Containers
  <2>3. \A k \in Nodes \ {n} : lab'[k] = lab[k]
    BY <2>1 DEF TypeOK
  <2>4. Present' = Present
    BY <2>1, <2>2, <2>3, AbsenceAssumption DEF Present
  <2>5. QED
    BY <1>3, <2>2, <2>3, <2>4, LabEnvironment DEF ContainerExits, Present
<1>4. QED
  BY <1>1, <1>2, <1>3, LabStarting, LabCompiling, LabDeploying, LabDestroying,
     LabAttesting, LabAssuring DEF Next, Step, vars, files, ChangeIntent

\* Runtime identity, one command at a time, none of them killed and no stamp that
\* could not be removed: once require_deployed_build has accepted, every container
\* of the lab was created from the build whose hash goes into the report.
THEOREM IdentityHolds == Solo /\ MaxFaults = 0 => (Spec => []AttestedLabRunsTheBuild)
<1> SUFFICES ASSUME Solo, MaxFaults = 0 PROVE Spec => []AttestedLabRunsTheBuild
  OBVIOUS
<1>1. Init => LabInv
  BY DEF Init, LabInv, LabKnown, Idle
<1>2. TypeOK /\ LabInv /\ [Next]_vars => LabInv'
  BY LabInductive
<1>3. LabInv => AttestedLabRunsTheBuild
  <2> SUFFICES ASSUME LabInv, NEW p \in Procs, At(p, "collect")
               PROVE  RunsBuild(job[p].seen)
    BY DEF AttestedLabRunsTheBuild, RunsBuild, Origin
  <2>1. stamp # NoStamp /\ stamp.build = job[p].seen
    BY DEF LabInv, LabKnown, At
  <2>2. \A q \in Procs : job[q].step \notin Settling
    BY DEF Solo, At, Settling
  <2>3. QED
    BY <2>1, <2>2 DEF LabInv
<1>4. QED
  BY <1>1, <1>2, <1>3, TypeCorrect, PTL DEF Spec

-----------------------------------------------------------------------------
(* A deploy that returns with an error, with faults anywhere.              *)

\* The cleanup after a failed deploy begins without a stamp.
DropInv == \A p \in Procs : At(p, "cleanup") => stamp = NoStamp

LEMMA DropBecomes ==
  ASSUME Solo, TypeOK, NEW p \in Procs, NEW j, j.step # "cleanup", Becomes(p, j)
  PROVE  DropInv'
<1>1. job'[p] = j
  BY BecomesEffect DEF TypeOK
<1>2. QED
  BY <1>1 DEF DropInv, At, Solo

LEMMA DropExit ==
  ASSUME Solo, TypeOK, NEW p \in Procs, Exit(p)
  PROVE  DropInv'
BY DropBecomes, IdleStep DEF Exit

LEMMA DropGoto ==
  ASSUME Solo, TypeOK, NEW p \in Procs, NEW s, s # "cleanup", Goto(p, s)
  PROVE  DropInv'
<1>1. [job[p] EXCEPT !.step = s].step = s
  BY DEF TypeOK, Jobs, JobRecords
<1>2. QED
  BY <1>1, DropBecomes DEF Goto

LEMMA DropStep ==
  ASSUME Solo, TypeOK, DropInv, NEW p \in Procs, Step(p)
  PROVE  DropInv'
<1>0. job[p] \in JobRecords
  BY DEF TypeOK, Jobs
<1>1. ASSUME NEW s \in Steps, s # "cleanup", NEW j \in
               {[job[p] EXCEPT !.input = intent, !.step = s],
                [job[p] EXCEPT !.step = s, !.seen = manifest],
                [job[p] EXCEPT !.step = s, !.seen = [input |-> job[p].input, files |-> disk]],
                [job[p] EXCEPT !.step = s, !.names = NamesOf[disk["topology"]]],
                [job[p] EXCEPT !.step = s, !.seen = manifest, !.names = stamp.names],
                [job[p] EXCEPT !.base = job[p].seen, !.step = s],
                [job[p] EXCEPT !.faulted = TRUE, !.step = s]},
             Becomes(p, j)
      PROVE  DropInv'
  <2>1. j.step = s
    BY <1>0, <1>1 DEF JobRecords
  <2>2. QED
    BY <1>1, <2>1, DropBecomes
<1>2. CASE Exit(p)
  BY <1>2, DropExit
<1>3. ASSUME NEW s, s # "cleanup", Goto(p, s)
      PROVE  DropInv'
  BY <1>3, DropGoto
<1>4. CASE Compiling(p)
  BY <1>1, <1>2, <1>3, <1>4 DEF Compiling, Guard, Fetch, WriteReport, ClearRest, ClearTopology,
     ClearManifest, ClearEvidence, WriteTopology, WriteRest, Generate, DigestFiles,
     WriteManifest, Steps
<1>5. CASE DropStamp(p)
  BY <1>2, <1>5 DEF DropStamp, StampRemoved, BreakOff, DropInv
<1>6. CASE Deploying(p) /\ ~DropStamp(p)
  BY <1>1, <1>2, <1>3, <1>6 DEF Deploying, CheckIntegrity, CheckPlan, CheckBefore, RunDeploy,
     Cleanup, CheckAfter, Abort, AbortStamp, WriteStamp, BreakOff, Steps
<1>7. CASE Destroying(p)
  BY <1>2, <1>3, <1>7 DEF Destroying, Down, RunDestroy, CheckDown, RemoveStamp, BreakOff
<1>8. CASE AttestingStep(p) \/ Assuring(p)
  BY <1>1, <1>2, <1>3, <1>8 DEF AttestingStep, Attach, CheckIdentity, CheckRuntime, Refuse,
     Verify, Baseline, Observe, Observed, Conclude, Assuring, CheckBuild, Assure, Steps
<1>9. QED
  BY <1>4, <1>5, <1>6, <1>7, <1>8 DEF Step

LEMMA DropInductive ==
  ASSUME Solo, TypeOK, DropInv, [Next]_vars
  PROVE  DropInv'
<1>1. CASE UNCHANGED <<stamp, job>>
  BY <1>1 DEF DropInv, At
<1>2. ASSUME NEW p \in Procs, NEW c \in Menu, Start(p, c)
      PROVE  DropInv'
  <2> DEFINE k == [Idle EXCEPT !.command = c, !.step = FirstStep(c)]
  <2>1. k.step # "cleanup"
    BY MenuAssumption DEF Idle, FirstStep, Commands, Attesting
  <2>2. Becomes(p, k)
    BY <1>2 DEF Start
  <2> HIDE DEF k
  <2>3. QED
    BY <2>1, <2>2, DropBecomes
<1>3. ASSUME NEW p \in Procs, Kill(p)
      PROVE  DropInv'
  BY <1>3, DropExit DEF Kill, BreakOff
<1>4. QED
  BY <1>1, <1>2, <1>3, DropStep DEF Next, vars, files, ChangeIntent, ContainerExits

\* A command in one of its failure paths that returns now, and not for the sake of
\* the stamp, has left no stamp.
LEMMA DropReturns ==
  ASSUME Solo, TypeOK, DropInv, [Next]_vars
  PROVE  [\A p \in Procs :
            /\ job[p].step \in {"dropStamp", "cleanup", "abort", "abortStamp"}
            /\ job'[p].step = "idle"
            /\ faults' = faults
            => stamp' = NoStamp]_vars
<1> SUFFICES ASSUME NEW p \in Procs,
                    job[p].step \in {"dropStamp", "cleanup", "abort", "abortStamp"},
                    job'[p].step = "idle", faults' = faults
             PROVE  stamp' = NoStamp
  OBVIOUS
<1>1. job' # job
  OBVIOUS
<1>2. PICK q \in Procs : (\E c \in Menu : Start(q, c)) \/ Step(q) \/ Kill(q)
  BY <1>1 DEF Next, vars, ChangeIntent, ContainerExits
<1>3. q = p
  BY DEF Solo
<1>4. ~BreakOff(p) /\ ~Kill(p) /\ \A c \in Menu : ~Start(p, c)
  <2>1. faults + 1 # faults
    BY BoundsAssumption DEF TypeOK
  <2>2. QED
    BY <2>1 DEF BreakOff, Kill, Start, At
<1>5. ~Compiling(p) /\ ~Destroying(p) /\ ~AttestingStep(p) /\ ~Assuring(p)
  BY DEF Compiling, Guard, Fetch, WriteReport, ClearRest, ClearTopology, ClearManifest,
     ClearEvidence, WriteTopology, WriteRest, Generate, DigestFiles, WriteManifest, Destroying,
     Down, RunDestroy, CheckDown, RemoveStamp, AttestingStep, Attach, CheckIdentity,
     CheckRuntime, Verify, Baseline, Observe, Observed, Conclude, Assuring, CheckBuild,
     Assure, At
<1>6. DropStamp(p) \/ Cleanup(p) \/ Abort(p) \/ AbortStamp(p)
  BY <1>2, <1>3, <1>4, <1>5 DEF Step, Deploying, CheckIntegrity, CheckPlan, CheckBefore,
     RunDeploy, CheckAfter, WriteStamp, At
<1>7. ASSUME NEW s, Goto(p, s)
      PROVE  s = "idle"
  <2>1. job'[p].step = s
    BY <1>7, GotoEffect DEF TypeOK
  <2>2. QED
    BY <2>1
<1>8. CASE Cleanup(p)
  BY <1>8 DEF Cleanup, DropInv, files
<1>9. QED
  BY <1>4, <1>6, <1>7, <1>8 DEF DropStamp, Abort, AbortStamp, StampRemoved

\* Failed deployment, one command at a time: a deploy that returns with an error
\* after Containerlab was started has taken the stamp back, on each of its four
\* failure paths and whatever faults there were before, unless the removal of
\* the stamp is the very step that failed.
THEOREM FailedDeployHolds == Solo => (Spec => FailedDeployLeavesNoStamp)
<1> SUFFICES ASSUME Solo PROVE Spec => FailedDeployLeavesNoStamp
  OBVIOUS
<1>1. Init => DropInv
  BY DEF Init, DropInv, At, Idle
<1>2. TypeOK /\ DropInv /\ [Next]_vars => DropInv'
  BY DropInductive
<1>3. TypeOK /\ DropInv /\ [Next]_vars =>
        [\A p \in Procs :
            /\ job[p].step \in {"dropStamp", "cleanup", "abort", "abortStamp"}
            /\ job'[p].step = "idle"
            /\ faults' = faults
            => stamp' = NoStamp]_vars
  BY DropReturns
<1>4. QED
  BY <1>1, <1>2, <1>3, TypeCorrect, PTL DEF Spec, FailedDeployLeavesNoStamp

-----------------------------------------------------------------------------
(* The compile guard, for an operator who compiles through lab up only.    *)

Replacing == Rendering \cup {"manifest"}

\* Only lab up gets as far as replacing artifacts, and only without a lab.
GuardKnown(j) ==
  /\ j.step \in {"guard"} \cup Replacing => j.command = "up"
  /\ j.step \in {"fetch", "report"} => j.command \in {"validate", "up"}
  /\ j.step \in {"fetch", "report"} \cup Replacing /\ j.command = "up" => ~LabRunning

\* Hence a lab always has its topology file, which is what the guard asks for
\* before it looks at the runtime.
GuardInv ==
  /\ \A p \in Procs : GuardKnown(job[p])
  /\ LabRunning => disk["topology"] # NoFile

LEMMA GuardBecomes ==
  ASSUME Solo, TypeOK, GuardInv, NEW p \in Procs, NEW j, Becomes(p, j),
         j.step \notin {"guard", "fetch", "report"} \cup Replacing,
         LabRunning' => disk'["topology"] # NoFile
  PROVE  GuardInv'
<1>1. job'[p] = j
  BY BecomesEffect DEF TypeOK
<1>2. GuardKnown(job[p])'
  BY <1>1 DEF GuardKnown, Replacing, Rendering
<1>3. QED
  BY <1>2 DEF GuardInv, Solo

LEMMA GuardExit ==
  ASSUME Solo, TypeOK, GuardInv, NEW p \in Procs, Exit(p),
         LabRunning' => disk'["topology"] # NoFile
  PROVE  GuardInv'
BY GuardBecomes, IdleStep DEF Exit, Replacing, Rendering

LEMMA GuardGoto ==
  ASSUME Solo, TypeOK, GuardInv, NEW p \in Procs, NEW s, Goto(p, s),
         s \notin {"guard", "fetch", "report"} \cup Replacing,
         LabRunning' => disk'["topology"] # NoFile
  PROVE  GuardInv'
<1>1. [job[p] EXCEPT !.step = s].step = s
  BY DEF TypeOK, Jobs, JobRecords
<1>2. QED
  BY <1>1, GuardBecomes DEF Goto

\* lab up goes on replacing artifacts while there is no lab.
LEMMA GuardGoes ==
  ASSUME Solo, TypeOK, GuardInv, NEW p \in Procs, NEW j, Becomes(p, j),
         j.command = "up", ~LabRunning, UNCHANGED lab
  PROVE  GuardInv'
<1>1. job'[p] = j
  BY BecomesEffect DEF TypeOK
<1>2. ~LabRunning'
  BY DEF LabRunning, Present
<1>3. GuardKnown(job[p])'
  BY <1>1, <1>2 DEF GuardKnown, Replacing, Rendering
<1>4. QED
  BY <1>2, <1>3 DEF GuardInv, Solo

LEMMA GuardCompiling ==
  ASSUME Solo, TypeOK, GuardInv, NEW p \in Procs, Compiling(p)
  PROVE  GuardInv'
<1>0. job[p] \in JobRecords /\ UNCHANGED lab
  BY DEF TypeOK, Jobs, Compiling, Guard, Fetch, WriteReport, ClearRest, ClearTopology,
     ClearManifest, ClearEvidence, WriteTopology, WriteRest, Generate, DigestFiles,
     WriteManifest
<1>1. GuardKnown(job[p])
  BY DEF GuardInv
<1>2. LabRunning' = LabRunning
  BY <1>0 DEF LabRunning, Present
<1>3. CASE Guard(p)
  <2>1. job[p].command = "up"
    BY <1>1, <1>3 DEF Guard, At, GuardKnown
  <2>2. CASE Exit(p)
    BY <1>2, <1>3, <2>2, GuardExit DEF Guard, files, GuardInv
  <2>3. CASE ~LabRunning /\ Goto(p, "fetch")
    <3>1. [job[p] EXCEPT !.step = "fetch"].command = "up"
      BY <1>0, <2>1 DEF JobRecords
    <3>2. QED
      BY <1>0, <2>3, <3>1, GuardGoes DEF Goto
  <2>4. QED
    BY <1>3, <2>2, <2>3 DEF Guard, GuardInv
<1>4. CASE Fetch(p) \/ WriteReport(p)
  <2>0. (LabRunning => disk["topology"] # NoFile)' /\ job[p].command \in {"validate", "up"}
    BY <1>1, <1>2, <1>4 DEF Fetch, WriteReport, GuardInv, GuardKnown, TypeOK, Artifacts, At
  <2>1. CASE Exit(p)
    BY <2>0, <2>1, GuardExit
  <2>2. CASE job[p].command = "up" /\ Fetch(p) /\ ~Exit(p)
    <3> DEFINE k == [job[p] EXCEPT !.input = intent, !.step = "report"]
    <3>1. k.command = "up" /\ Becomes(p, k) /\ ~LabRunning
      BY <1>0, <1>1, <2>2 DEF JobRecords, Fetch, At, GuardKnown
    <3> HIDE DEF k
    <3>2. QED
      BY <1>0, <3>1, GuardGoes
  <2>3. CASE job[p].command = "up" /\ WriteReport(p) /\ ~Exit(p)
    <3> DEFINE k == [job[p] EXCEPT !.step = "clear"]
    <3>1. k.command = "up" /\ Becomes(p, k) /\ ~LabRunning
      BY <1>0, <1>1, <2>3 DEF JobRecords, WriteReport, At, GuardKnown, Goto
    <3> HIDE DEF k
    <3>2. QED
      BY <1>0, <3>1, GuardGoes
  <2>4. CASE job[p].command = "validate" /\ Fetch(p) /\ ~Exit(p)
    <3> DEFINE k == [job[p] EXCEPT !.input = intent, !.step = "report"]
    <3>1. k.step = "report" /\ k.command = "validate" /\ Becomes(p, k)
      BY <1>0, <2>4 DEF JobRecords, Fetch
    <3> HIDE DEF k
    <3>2. job'[p] = k
      BY <3>1, BecomesEffect DEF TypeOK
    <3>3. GuardKnown(job[p])'
      BY <3>1, <3>2 DEF GuardKnown, Replacing, Rendering
    <3>4. QED
      BY <2>0, <3>3 DEF GuardInv, Solo
  <2>5. QED
    BY <1>4, <2>0, <2>1, <2>2, <2>3, <2>4 DEF WriteReport
<1>5. ASSUME job[p].step \in Replacing
      PROVE  GuardInv'
  <2>1. job[p].command = "up" /\ ~LabRunning
    BY <1>1, <1>5 DEF GuardKnown
  <2>2. CASE Exit(p)
    BY <1>2, <2>1, <2>2, GuardExit
  <2>3. ASSUME NEW s, Goto(p, s)
        PROVE  GuardInv'
    <3>1. [job[p] EXCEPT !.step = s].command = "up"
      BY <1>0, <2>1 DEF JobRecords
    <3>2. QED
      BY <1>0, <2>1, <2>3, <3>1, GuardGoes DEF Goto
  <2>4. CASE DigestFiles(p) /\ ~Exit(p)
    <3> DEFINE k == [job[p] EXCEPT !.step = "manifest",
                                   !.seen = [input |-> job[p].input, files |-> disk]]
    <3>1. k.command = "up" /\ Becomes(p, k)
      BY <1>0, <2>1, <2>4 DEF JobRecords, DigestFiles
    <3> HIDE DEF k
    <3>2. QED
      BY <1>0, <2>1, <3>1, GuardGoes
  <2>5. ~Guard(p) /\ ~Fetch(p) /\ ~WriteReport(p)
    BY <1>5 DEF Guard, Fetch, WriteReport, At, Replacing, Rendering
  <2>6. QED
    BY <2>2, <2>3, <2>4, <2>5 DEF Compiling, ClearRest, ClearTopology, ClearManifest,
       ClearEvidence, WriteTopology, WriteRest, Generate, DigestFiles, WriteManifest
<1>6. QED
  BY <1>3, <1>4, <1>5 DEF Compiling, ClearRest, ClearTopology, ClearManifest, ClearEvidence,
     WriteTopology, WriteRest, Generate, DigestFiles, WriteManifest, At, Replacing, Rendering

\* Containerlab creates nothing without a topology file.
LEMMA GuardPlaces ==
  ASSUME GuardInv, NEW replace, UNCHANGED disk,
         \/ ContainerlabDeployed(replace)
         \/ ContainerlabDeployFailed(replace)
         \/ ContainerlabDestroy
         \/ UNCHANGED lab
  PROVE  LabRunning' => disk'["topology"] # NoFile
<1>1. CASE UNCHANGED lab
  BY <1>1 DEF GuardInv, LabRunning, Present
<1>2. QED
  BY <1>1 DEF ContainerlabDeployed, ContainerlabDeployFailed, ContainerlabDestroy, Deployable

LEMMA GuardOther ==
  ASSUME Solo, TypeOK, GuardInv, NEW p \in Procs,
         Deploying(p) \/ Destroying(p) \/ AttestingStep(p) \/ Assuring(p)
  PROVE  GuardInv'
<1> USE DEF Replacing, Rendering
<1>0. job[p] \in JobRecords
  BY DEF TypeOK, Jobs
<1>a. UNCHANGED disk
  BY DEF Deploying, CheckIntegrity, CheckPlan, CheckBefore, RunDeploy, DropStamp, Cleanup,
     CheckAfter, Abort, AbortStamp, WriteStamp, Destroying, Down, RunDestroy, CheckDown,
     RemoveStamp, AttestingStep, Attach, CheckIdentity, CheckRuntime, Verify, Baseline,
     Observe, Observed, Conclude, Assuring, CheckBuild, Assure,
     StampRemoved, BreakOff, files
<1>b. \E replace : \/ ContainerlabDeployed(replace) \/ ContainerlabDeployFailed(replace)
                   \/ ContainerlabDestroy \/ UNCHANGED lab
  BY DEF Deploying, CheckIntegrity, CheckPlan, CheckBefore, RunDeploy, DropStamp, Cleanup,
     CheckAfter, Abort, AbortStamp, WriteStamp, Destroying, Down, RunDestroy, CheckDown,
     RemoveStamp, AttestingStep, Attach, CheckIdentity, CheckRuntime, Verify, Baseline,
     Observe, Observed, Conclude, Assuring, CheckBuild, Assure,
     StampRemoved, BreakOff
<1>c. LabRunning' => disk'["topology"] # NoFile
  BY <1>a, <1>b, GuardPlaces
<1>1. ASSUME NEW s \in Steps, s \notin {"guard", "fetch", "report"} \cup Replacing, NEW j \in
               {[job[p] EXCEPT !.step = s, !.seen = manifest],
                [job[p] EXCEPT !.step = s, !.names = NamesOf[disk["topology"]]],
                [job[p] EXCEPT !.step = s, !.seen = manifest, !.names = stamp.names],
                [job[p] EXCEPT !.base = job[p].seen, !.step = s],
                [job[p] EXCEPT !.faulted = TRUE, !.step = s]},
             Becomes(p, j)
      PROVE  GuardInv'
  <2>1. j.step = s
    BY <1>0, <1>1 DEF JobRecords
  <2>2. QED
    BY <1>1, <1>c, <2>1, GuardBecomes
<1>2. CASE Exit(p)
  BY <1>2, <1>c, GuardExit
<1>3. ASSUME NEW s, s \notin {"guard", "fetch", "report"} \cup Replacing, Goto(p, s)
      PROVE  GuardInv'
  BY <1>3, <1>c, GuardGoto
<1>4. CASE Deploying(p)
  BY <1>1, <1>2, <1>3, <1>4 DEF Deploying, CheckIntegrity, CheckPlan, CheckBefore, RunDeploy,
     DropStamp, Cleanup, CheckAfter, Abort, AbortStamp, WriteStamp, StampRemoved,
     BreakOff, Steps
<1>5. CASE Destroying(p)
  BY <1>2, <1>3, <1>5 DEF Destroying, Down, RunDestroy, CheckDown, RemoveStamp, StampRemoved,
     BreakOff
<1>6. CASE AttestingStep(p) \/ Assuring(p)
  BY <1>1, <1>2, <1>3, <1>6 DEF AttestingStep, Attach, CheckIdentity, CheckRuntime, Refuse,
     Verify, Baseline, Observe, Observed, Conclude, Assuring, CheckBuild, Assure, Steps
<1>7. QED
  BY <1>4, <1>5, <1>6

LEMMA GuardInductive ==
  ASSUME Solo, "compile" \notin Menu, TypeOK, GuardInv, [Next]_vars
  PROVE  GuardInv'
<1>1. CASE UNCHANGED <<disk, job>> /\ LabRunning' = LabRunning
  BY <1>1 DEF GuardInv, GuardKnown
<1>2. ASSUME NEW p \in Procs, NEW c \in Menu, Start(p, c)
      PROVE  GuardInv'
  <2> DEFINE k == [Idle EXCEPT !.command = c, !.step = FirstStep(c)]
  <2>1. /\ k.command = c /\ k.step = FirstStep(c) /\ c \in Commands \ {"compile"}
        /\ Becomes(p, k)
    BY <1>2, MenuAssumption DEF Idle, Start
  <2> HIDE DEF k
  <2>2. LabRunning' => disk'["topology"] # NoFile
    BY <1>2 DEF Start, GuardInv, LabRunning, Present, files
  <2>3. job'[p] = k
    BY <2>1, BecomesEffect DEF TypeOK
  <2>4. GuardKnown(job[p])'
    BY <2>1, <2>3 DEF GuardKnown, Replacing, Rendering, FirstStep, Commands, Attesting
  <2>5. QED
    BY <2>2, <2>4 DEF GuardInv, Solo
<1>3. ASSUME NEW p \in Procs, Kill(p)
      PROVE  GuardInv'
  BY <1>3, GuardExit DEF Kill, BreakOff, files, GuardInv, LabRunning, Present
<1>4. ASSUME NEW n \in Nodes, ContainerExits(n)
      PROVE  GuardInv'
  <2>1. lab[n] # Absent
    BY <1>4 DEF ContainerExits
  <2>2. LabRunning
    BY <2>1 DEF LabRunning, Present
  <2>3. UNCHANGED <<disk, job>>
    BY <1>4 DEF ContainerExits, files
  <2>4. QED
    BY <2>2, <2>3 DEF GuardInv, GuardKnown
<1>5. CASE UNCHANGED <<disk, job, lab>>
  BY <1>1, <1>5 DEF LabRunning, Present
<1>6. QED
  BY <1>2, <1>3, <1>4, <1>5, GuardCompiling, GuardOther DEF Next, Step, vars, files, ChangeIntent

\* Compile guard, one command at a time and no plain compile: whatever fails or
\* is killed, lab up replaces artifacts only while no container of the lab
\* exists.
THEOREM GuardHolds ==
  Solo /\ "compile" \notin Menu => (Spec => []GuardProtectsLab)
<1> SUFFICES ASSUME Solo, "compile" \notin Menu PROVE Spec => []GuardProtectsLab
  OBVIOUS
<1>1. Init => GuardInv
  BY DEF Init, GuardInv, GuardKnown, Idle, LabRunning, Present, Replacing, Rendering
<1>2. TypeOK /\ GuardInv /\ [Next]_vars => GuardInv'
  BY GuardInductive
<1>3. GuardInv => GuardProtectsLab
  BY DEF GuardInv, GuardKnown, GuardProtectsLab, Replacing, Rendering
<1>4. QED
  BY <1>1, <1>2, <1>3, TypeCorrect, PTL DEF Spec
-----------------------------------------------------------------------------
(* Runtime identity with faults.                                           *)

\* A killed deploy, or one that cannot remove its stamp, may leave a stamp behind
\* its lab.  That does no harm as long as the build the stamp names cannot come
\* back, and it can only come back with the input it was compiled from.

\* The steps at which a compiler run holds the input it has fetched.
Fetched == Rendering \cup {"report", "manifest"}

Past(i) == i \in retired \cup {intent}

\* An input that intent has left is not fetched again.
InputInv ==
  /\ intent \notin retired
  /\ manifest # NoManifest => Past(manifest.input)
  /\ \A p \in Procs : job[p].step \in Fetched => Past(job[p].input)
  /\ \A p \in Procs : job[p].step = "manifest" => job[p].seen.input = job[p].input

\* Neither is m in the directory nor is it being compiled, nor will it ever be.
Outdated(m) ==
  /\ m.input \in retired
  /\ manifest # NoManifest => manifest.input # m.input
  /\ \A p \in Procs : job[p].step \in Fetched => job[p].input # m.input

\* Where another input than the stamped one has got to, the stamped one is gone.
Superseded(m) ==
  /\ manifest # NoManifest /\ manifest.input # m.input => m.input \in retired
  /\ \A p \in Procs :
       job[p].step \in Fetched /\ job[p].input # m.input => m.input \in retired

\* The lab runs the build of the stamp, or the stamp can match no more.
StampInv ==
  stamp # NoStamp =>
    /\ stamp.build \in WholeBuilds /\ Past(stamp.build.input) /\ Superseded(stamp.build)
    /\ RunsBuild(stamp.build) \/ Outdated(stamp.build)

\* A command that has not just fetched holds the input it held.
Holds(p) ==
  /\ job'[p].step \in Fetched => job[p].step \in Fetched /\ job'[p].input = job[p].input
  /\ job'[p].step = "manifest" => job'[p].seen.input = job'[p].input

LEMMA HoldsWhenDone ==
  ASSUME TypeOK, NEW p \in Procs, NEW j, j.step \notin Fetched, Becomes(p, j)
  PROVE  Holds(p)
BY BecomesEffect DEF TypeOK, Holds, Fetched

LEMMA StepHolds ==
  ASSUME TypeOK, NEW p \in Procs, Step(p), ~Fetch(p)
  PROVE  Holds(p)
<1> USE DEF Fetched, Rendering
<1>0. job[p] \in JobRecords /\ job \in [Procs -> Jobs]
  BY DEF TypeOK, Jobs
<1>1. CASE Exit(p)
  BY <1>1, HoldsWhenDone, IdleStep DEF Exit
<1>2. ASSUME NEW s, s \notin Fetched, Goto(p, s)
      PROVE  Holds(p)
  BY <1>0, <1>2, GotoEffect DEF Holds
<1>3. ASSUME NEW s, s # "manifest", job[p].step \in Fetched, Goto(p, s)
      PROVE  Holds(p)
  BY <1>0, <1>3, GotoEffect DEF Holds
<1>4. ASSUME NEW s \in Steps, s \notin Fetched, NEW j \in
               {[job[p] EXCEPT !.step = s, !.seen = manifest],
                [job[p] EXCEPT !.step = s, !.names = NamesOf[disk["topology"]]],
                [job[p] EXCEPT !.step = s, !.seen = manifest, !.names = stamp.names],
                [job[p] EXCEPT !.base = job[p].seen, !.step = s],
                [job[p] EXCEPT !.faulted = TRUE, !.step = s]},
             Becomes(p, j)
      PROVE  Holds(p)
  <2>1. j.step = s
    BY <1>0, <1>4 DEF JobRecords
  <2>2. QED
    BY <1>4, <2>1, HoldsWhenDone
<1>5. CASE DigestFiles(p)
  <2> DEFINE m == [input |-> job[p].input, files |-> disk]
             j == [job[p] EXCEPT !.step = "manifest", !.seen = m]
  <2>1. CASE Becomes(p, j)
    <3>1. j.step = "manifest" /\ j.input = job[p].input /\ j.seen = m
      BY <1>0 DEF JobRecords
    <3>2. job[p].step = "digest"
      BY <1>5 DEF DigestFiles, At
    <3>3. job'[p] = j
      BY <1>0, <2>1, BecomesEffect
    <3>4. j.seen.input = j.input
      BY <3>1
    <3> HIDE DEF j
    <3>5. QED
      BY <3>1, <3>2, <3>3, <3>4 DEF Holds
  <2>2. QED
    BY <1>1, <1>5, <2>1 DEF DigestFiles
<1>6. CASE Compiling(p) /\ ~DigestFiles(p)
  <2>1. CASE Guard(p)
    BY <1>1, <1>2, <2>1 DEF Guard
  <2>2. CASE WriteReport(p) \/ ClearRest(p) \/ ClearTopology(p) \/ ClearManifest(p)
    BY <1>1, <1>3, <2>2 DEF WriteReport, ClearRest, ClearTopology, ClearManifest, At
  <2>3. CASE ClearEvidence(p) \/ WriteTopology(p) \/ WriteRest(p)
    BY <1>1, <1>3, <2>3 DEF ClearEvidence, WriteTopology, WriteRest, Generate, At
  <2>4. CASE WriteManifest(p)
    BY <1>1, <1>2, <2>4 DEF WriteManifest
  <2>5. QED
    BY <1>6, <2>1, <2>2, <2>3, <2>4 DEF Compiling
<1>7. CASE Deploying(p)
  BY <1>1, <1>2, <1>4, <1>7 DEF Deploying, CheckIntegrity, CheckPlan, CheckBefore, RunDeploy,
     DropStamp, Cleanup, CheckAfter, Abort, AbortStamp, WriteStamp, StampRemoved,
     BreakOff, Steps
<1>8. CASE Destroying(p)
  BY <1>1, <1>2, <1>8 DEF Destroying, Down, RunDestroy, CheckDown, RemoveStamp, StampRemoved,
     BreakOff
<1>9. CASE AttestingStep(p) \/ Assuring(p)
  BY <1>1, <1>2, <1>4, <1>9 DEF AttestingStep, Attach, CheckIdentity, CheckRuntime, Refuse,
     Verify, Baseline, Observe, Observed, Conclude, Assuring, CheckBuild, Assure, Steps
<1>10. QED
  BY <1>5, <1>6, <1>7, <1>8, <1>9 DEF Step

\* Holding on to an input changes nothing in the order of the inputs.
LEMMA InputHeld ==
  ASSUME Solo, InputInv, NEW p \in Procs, Holds(p), UNCHANGED <<intent, retired>>,
         manifest' \in {manifest, NoManifest}
  PROVE  InputInv'
<1>1. \A q \in Procs : q = p
  BY DEF Solo
<1>2. QED
  BY <1>1 DEF InputInv, Holds, Past

LEMMA InputStep ==
  ASSUME Solo, TypeOK, InputInv, NEW p \in Procs, Step(p)
  PROVE  InputInv'
<1>0. job[p] \in JobRecords /\ job \in [Procs -> Jobs] /\ \A q \in Procs : q = p
  BY DEF TypeOK, Jobs, Solo
<1>1. UNCHANGED <<intent, retired>>
  BY DEF Step, Compiling, Guard, Fetch, WriteReport, ClearRest, ClearTopology, ClearManifest,
     ClearEvidence, WriteTopology, WriteRest, Generate, DigestFiles, WriteManifest, Deploying,
     CheckIntegrity, CheckPlan, CheckBefore, RunDeploy, DropStamp, Cleanup, CheckAfter, Abort,
     AbortStamp, WriteStamp, Destroying, Down, RunDestroy, CheckDown, RemoveStamp,
     AttestingStep, Attach, CheckIdentity, CheckRuntime, Verify, Baseline, Observe, Observed,
     Conclude, Assuring, CheckBuild, Assure, StampRemoved, BreakOff, world
<1>2. CASE Fetch(p)
  <2> DEFINE j == [job[p] EXCEPT !.input = intent, !.step = "report"]
  <2>1. UNCHANGED manifest
    BY <1>2 DEF Fetch
  <2>2. CASE Exit(p)
    <3>1. Holds(p)
      BY <2>2, HoldsWhenDone, IdleStep DEF Exit, Fetched, Rendering
    <3>2. QED
      BY <1>1, <2>1, <3>1, InputHeld
  <2>3. CASE Becomes(p, j)
    <3>1. j.step = "report" /\ j.input = intent
      BY <1>0 DEF JobRecords
    <3>2. job'[p] = j
      BY <1>0, <2>3, BecomesEffect
    <3> HIDE DEF j
    <3>3. QED
      BY <1>0, <1>1, <2>1, <3>1, <3>2 DEF InputInv, Past
  <2>4. QED
    BY <1>2, <2>2, <2>3 DEF Fetch
<1>3. CASE WriteManifest(p)
  <2>1. manifest' \in {job[p].seen, manifest, NoManifest} /\ job[p].step = "manifest"
    BY <1>3 DEF WriteManifest, At
  <2>2. job[p].seen.input = job[p].input /\ Past(job[p].input)
    BY <2>1 DEF InputInv, Fetched
  <2>3. job'[p].step \in {"integrity", "idle"}
    BY <1>0, <1>3, ExitEffect, GotoEffect, IdleStep DEF WriteManifest
  <2>4. QED
    BY <1>0, <1>1, <2>1, <2>2, <2>3 DEF InputInv, Past, Fetched, Rendering
<1>4. CASE ~Fetch(p) /\ ~WriteManifest(p)
  <2>1. manifest' \in {manifest, NoManifest}
    BY <1>4 DEF Step, Compiling, Guard, WriteReport, ClearRest, ClearTopology, ClearManifest,
       ClearEvidence, WriteTopology, WriteRest, Generate, DigestFiles, Deploying,
       CheckIntegrity, CheckPlan, CheckBefore, RunDeploy, DropStamp, Cleanup, CheckAfter, Abort,
       AbortStamp, WriteStamp, Destroying, Down, RunDestroy, CheckDown, RemoveStamp,
       AttestingStep, Attach, CheckIdentity, CheckRuntime, Verify, Baseline, Observe, Observed,
       Conclude, Assuring, CheckBuild, Assure, StampRemoved, BreakOff, files
  <2>2. QED
    BY <1>1, <1>4, <2>1, StepHolds, InputHeld
<1>5. QED
  BY <1>2, <1>3, <1>4

\* What changes neither the lab nor the stamp changes nothing between them.
LEMMA StampHeld ==
  ASSUME Solo, StampInv, NEW p \in Procs, Holds(p), UNCHANGED <<retired, intent, stamp, lab>>,
         manifest' \in {manifest, NoManifest}
  PROVE  StampInv'
<1>1. \A q \in Procs : q = p
  BY DEF Solo
<1>2. \A m : /\ RunsBuild(m)' <=> RunsBuild(m)
             /\ Past(m.input)' <=> Past(m.input)
  BY DEF RunsBuild, Present, Past, Origin
<1>3. \A m : (Superseded(m) => Superseded(m)') /\ (Outdated(m) => Outdated(m)')
  BY <1>1 DEF Superseded, Outdated, Holds
<1>4. QED
  BY <1>2, <1>3 DEF StampInv

\* A command that moves containers holds no input.  What remains of the lab runs
\* the stamped build, or another build is verified in the directory.
LEMMA StampMoved ==
  ASSUME Solo, StampInv, NEW p \in Procs, job'[p].step \notin Fetched,
         UNCHANGED <<retired, intent, stamp, manifest>>,
         stamp # NoStamp /\ RunsBuild(stamp.build) =>
           RunsBuild(stamp.build)' \/ (manifest # NoManifest /\ manifest.input # stamp.build.input)
  PROVE  StampInv'
<1>1. \A q \in Procs : q = p
  BY DEF Solo
<1>2. SUFFICES ASSUME stamp # NoStamp
               PROVE  /\ stamp.build \in WholeBuilds /\ Past(stamp.build.input)'
                      /\ Superseded(stamp.build)'
                      /\ RunsBuild(stamp.build)' \/ Outdated(stamp.build)'
  BY DEF StampInv, WholeBuilds, Passes
<1>3. stamp.build \in WholeBuilds /\ Past(stamp.build.input)' /\ Superseded(stamp.build)'
  BY <1>1, <1>2 DEF StampInv, Past, Superseded
<1>4. CASE Outdated(stamp.build)
  BY <1>1, <1>3, <1>4 DEF Outdated
<1>5. CASE RunsBuild(stamp.build)
  <2>1. CASE manifest # NoManifest /\ manifest.input # stamp.build.input
    <3>1. stamp.build.input \in retired
      BY <1>2, <2>1 DEF StampInv, Superseded
    <3>2. \A q \in Procs : job'[q].step \notin Fetched
      BY <1>1
    <3>3. Outdated(stamp.build)'
      BY <2>1, <3>1, <3>2 DEF Outdated
    <3>4. QED
      BY <1>3, <3>3
  <2>2. QED
    BY <1>2, <1>3, <1>5, <2>1
<1>6. QED
  BY <1>2, <1>3, <1>4, <1>5 DEF StampInv

\* Containers are created from the build in the directory.
LEMMA PlacedRuns ==
  ASSUME TypeOK, Intact, NEW made, NEW gone, Place(made, gone), RunsBuild(manifest)
  PROVE  \A n \in Present' : lab'[n].from = Origin(manifest)
<1>1. Fresh.from = Origin(manifest)
  BY DEF Fresh, Origin, Intact
<1>2. QED
  BY <1>1 DEF Place, Present, RunsBuild

LEMMA StampDeploying ==
  ASSUME Solo, TypeOK, DirectoryInv, LabInv, StampInv, NEW p \in Procs, RunDeploy(p)
  PROVE  StampInv'
<1>1. /\ UNCHANGED <<retired, intent, stamp, manifest, disk>> /\ job'[p].step \notin Fetched
      /\ Intact /\ manifest \in WholeBuilds
  <2>1. UNCHANGED <<retired, intent, stamp, manifest, disk>> /\ job[p].step = "deploy"
    BY DEF RunDeploy, files, world, At
  <2>2. job'[p].step \in {"after", "dropStamp"}
    BY GotoEffect DEF RunDeploy, TypeOK
  <2>3. Intact
    BY <2>1 DEF LabInv, LabKnown
  <2>4. QED
    BY <2>1, <2>2, <2>3 DEF Fetched, Rendering, DirectoryInv, Intact
<1>2. ASSUME stamp # NoStamp, RunsBuild(stamp.build)
      PROVE  \/ RunsBuild(stamp.build)'
             \/ manifest # NoManifest /\ manifest.input # stamp.build.input
  <2>1. CASE stamp.build # manifest
    BY <1>1, <1>2, <2>1 DEF StampInv, WholeBuilds, Intact
  <2>2. CASE stamp.build = manifest
    <3>1. UNCHANGED lab \/ \E made, gone : Place(made, gone)
      BY DEF RunDeploy, ContainerlabDeployed, ContainerlabDeployFailed
    <3>2. \A n \in Present' : lab'[n].from = Origin(manifest)
      BY <1>1, <1>2, <2>2, <3>1, PlacedRuns DEF RunsBuild, Present
    <3>3. QED
      BY <1>1, <2>2, <3>2 DEF RunsBuild, Origin
  <2>3. QED
    BY <2>1, <2>2
<1>3. QED
  BY <1>1, <1>2, StampMoved

LEMMA StampRemoving ==
  ASSUME Solo, TypeOK, StampInv, NEW p \in Procs, job'[p].step \notin Fetched,
         UNCHANGED <<retired, intent, stamp, manifest>>, ContainerlabDestroy
  PROVE  StampInv'
<1>1. ASSUME stamp # NoStamp, RunsBuild(stamp.build)
      PROVE  RunsBuild(stamp.build)'
  BY <1>1, RemovalRuns DEF RunsBuild, Origin
<1>2. QED
  BY <1>1, StampMoved

\* The new stamp names the build that was verified and deployed.
LEMMA StampWriting ==
  ASSUME Solo, TypeOK, DirectoryInv, LabInv, InputInv, StampInv, NEW p \in Procs, WriteStamp(p)
  PROVE  StampInv'
<1>0. job \in [Procs -> Jobs] /\ \A q \in Procs : q = p
  BY DEF TypeOK, Solo
<1>1. /\ UNCHANGED <<retired, intent, lab, manifest>> /\ job'[p].step \notin Fetched
      /\ Intact /\ manifest \in WholeBuilds /\ job[p].seen = manifest /\ RunsBuild(manifest)
      /\ Past(manifest.input)
  <2>1. UNCHANGED <<retired, intent, lab, manifest>> /\ job[p].step = "stamp"
    BY DEF WriteStamp, world, At
  <2>2. job'[p].step \in {"abort", "idle"}
    BY <1>0, GotoEffect, ExitEffect, IdleStep DEF WriteStamp
  <2>3. Intact /\ job[p].seen = manifest /\ RunsBuild(job[p].seen)
    BY <2>1 DEF LabInv, LabKnown
  <2>4. QED
    BY <2>1, <2>2, <2>3 DEF Fetched, Rendering, DirectoryInv, InputInv, Intact
<1>2. CASE UNCHANGED stamp
  <2>1. RunsBuild(stamp.build)' <=> RunsBuild(stamp.build)
    BY <1>1, <1>2 DEF RunsBuild, Present, Origin
  <2>2. QED
    BY <1>1, <1>2, <2>1, StampMoved
<1>3. CASE stamp' = [topology |-> disk["topology"], build |-> job[p].seen,
                     names |-> NamesOf[disk["topology"]]]
  <2>1. stamp'.build = manifest
    BY <1>1, <1>3
  <2>2. RunsBuild(stamp.build)'
    BY <1>1, <2>1 DEF RunsBuild, Present, Origin
  <2>3. stamp'.build \in WholeBuilds /\ Past(stamp.build.input)' /\ Superseded(stamp.build)'
    BY <1>0, <1>1, <2>1 DEF Past, Superseded
  <2>4. QED
    BY <2>2, <2>3 DEF StampInv, WholeBuilds, Passes
<1>4. QED
  BY <1>2, <1>3 DEF WriteStamp

LEMMA StampFetching ==
  ASSUME Solo, TypeOK, InputInv, StampInv, NEW p \in Procs, Fetch(p)
  PROVE  StampInv'
<1>0. job[p] \in JobRecords /\ job \in [Procs -> Jobs] /\ \A q \in Procs : q = p
  BY DEF TypeOK, Jobs, Solo
<1>1. UNCHANGED <<retired, intent, stamp, lab, manifest>>
  BY DEF Fetch, world
<1>2. CASE Exit(p)
  <2>1. Holds(p)
    BY <1>2, HoldsWhenDone, IdleStep DEF Exit, Fetched, Rendering
  <2>2. QED
    BY <1>1, <2>1, StampHeld
<1>3. CASE Becomes(p, [job[p] EXCEPT !.input = intent, !.step = "report"])
  <2> DEFINE j == [job[p] EXCEPT !.input = intent, !.step = "report"]
  <2>1. j.input = intent
    BY <1>0 DEF JobRecords
  <2>2. job'[p] = j
    BY <1>0, <1>3, BecomesEffect
  <2> HIDE DEF j
  <2>3. ASSUME stamp # NoStamp
        PROVE  Superseded(stamp.build)' /\ (Outdated(stamp.build) => Outdated(stamp.build)')
    BY <1>0, <1>1, <2>1, <2>2, <2>3 DEF StampInv, Superseded, Outdated, Past, InputInv
  <2>4. RunsBuild(stamp.build)' <=> RunsBuild(stamp.build)
    BY <1>1 DEF RunsBuild, Present, Origin
  <2>5. QED
    BY <1>1, <2>3, <2>4 DEF StampInv, Past, WholeBuilds, Passes
<1>4. QED
  BY <1>2, <1>3 DEF Fetch

LEMMA StampPublishing ==
  ASSUME Solo, TypeOK, InputInv, StampInv, NEW p \in Procs, WriteManifest(p)
  PROVE  StampInv'
<1>0. job \in [Procs -> Jobs] /\ \A q \in Procs : q = p
  BY DEF TypeOK, Solo
<1>1. /\ UNCHANGED <<retired, intent, stamp, lab>> /\ job[p].step \in Fetched
      /\ manifest' \in {manifest, NoManifest} \/ manifest'.input = job[p].input
  BY DEF WriteManifest, world, At, InputInv, Fetched
<1>2. job'[p].step \notin Fetched
  <2>1. job'[p].step \in {"integrity", "idle"}
    BY <1>0, ExitEffect, GotoEffect, IdleStep DEF WriteManifest
  <2>2. QED
    BY <2>1 DEF Fetched, Rendering
<1>3. ASSUME stamp # NoStamp
      PROVE  Superseded(stamp.build)' /\ (Outdated(stamp.build) => Outdated(stamp.build)')
  BY <1>0, <1>1, <1>2, <1>3 DEF StampInv, Superseded, Outdated
<1>4. RunsBuild(stamp.build)' <=> RunsBuild(stamp.build)
  BY <1>1 DEF RunsBuild, Present, Origin
<1>5. QED
  BY <1>1, <1>3, <1>4 DEF StampInv, Past, WholeBuilds, Passes

LEMMA StampStep ==
  ASSUME Solo, TypeOK, DirectoryInv, LabInv, InputInv, StampInv, NEW p \in Procs, Step(p)
  PROVE  StampInv'
<1>0. job \in [Procs -> Jobs]
  BY DEF TypeOK
<1>1. CASE Fetch(p) \/ WriteManifest(p) \/ RunDeploy(p) \/ WriteStamp(p)
  BY <1>1, StampFetching, StampPublishing, StampDeploying, StampWriting
<1>2. CASE Cleanup(p) \/ Abort(p) \/ RunDestroy(p)
  <2>1. job'[p].step \in {"idle", "abortStamp", "downAfter"}
    BY <1>0, <1>2, ExitEffect, GotoEffect, IdleStep DEF Cleanup, Abort, RunDestroy
  <2>2. UNCHANGED <<retired, intent, stamp, manifest>> /\ ContainerlabDestroy
    BY <1>2 DEF Cleanup, Abort, RunDestroy, files, world
  <2>3. QED
    BY <2>1, <2>2, StampRemoving DEF Fetched, Rendering
<1>3. CASE DropStamp(p) \/ AbortStamp(p) \/ RemoveStamp(p)
  <2>1. CASE BreakOff(p)
    <3>1. Holds(p)
      BY <2>1, HoldsWhenDone, IdleStep DEF BreakOff, Exit, Fetched, Rendering
    <3>2. QED
      BY <2>1, <3>1, StampHeld DEF BreakOff, files
  <2>2. QED
    BY <1>3, <2>1 DEF DropStamp, AbortStamp, RemoveStamp, StampRemoved, StampInv
<1>4. CASE Compiling(p) /\ ~Fetch(p) /\ ~WriteManifest(p)
  <2>1. UNCHANGED <<retired, intent, stamp, lab>> /\ manifest' \in {manifest, NoManifest}
    BY <1>4 DEF Compiling, Guard, WriteReport, ClearRest, ClearTopology, ClearManifest,
       ClearEvidence, WriteTopology, WriteRest, Generate, DigestFiles, files, world
  <2>2. Holds(p)
    BY <1>4, StepHolds DEF Step
  <2>3. QED
    BY <2>1, <2>2, StampHeld
<1>5. CASE CheckIntegrity(p) \/ CheckPlan(p) \/ CheckBefore(p) \/ CheckAfter(p) \/ Down(p)
           \/ CheckDown(p) \/ AttestingStep(p) \/ Assuring(p)
  <2>1. UNCHANGED <<retired, intent, stamp, lab, manifest>> /\ ~Fetch(p)
    BY <1>5 DEF CheckIntegrity, CheckPlan, CheckBefore, CheckAfter, Down, CheckDown,
       AttestingStep, Attach, CheckIdentity, CheckRuntime, Verify, Baseline, Observe, Observed,
       Conclude, Assuring, CheckBuild, Assure, files, world, Fetch, At
  <2>2. Holds(p)
    BY <2>1, StepHolds
  <2>3. QED
    BY <2>1, <2>2, StampHeld
<1>6. QED
  BY <1>1, <1>2, <1>3, <1>4, <1>5 DEF Step, Deploying, Destroying

\* The identity invariant for an intent that does not go back.
KilledInv == DirectoryInv /\ LabInv /\ InputInv /\ StampInv

LEMMA KilledInductive ==
  ASSUME Solo, ~Reverts, TypeOK, KilledInv, [Next]_vars
  PROVE  KilledInv'
<1> USE DEF KilledInv
<1>1. DirectoryInv' /\ LabInv'
  BY DirectoryInductive, LabInductive
<1>2. ASSUME NEW p \in Procs, NEW c \in Menu, Start(p, c)
      PROVE  InputInv' /\ StampInv'
  <2> DEFINE j == [Idle EXCEPT !.command = c, !.step = FirstStep(c)]
  <2>1. j.step \notin Fetched
    BY MenuAssumption DEF Idle, FirstStep, Commands, Attesting, Fetched, Rendering
  <2>2. Becomes(p, j) /\ UNCHANGED <<retired, intent, stamp, lab, manifest>>
    BY <1>2 DEF Start, files, world
  <2> HIDE DEF j
  <2>3. QED
    BY <2>1, <2>2, HoldsWhenDone, InputHeld, StampHeld
<1>3. ASSUME NEW p \in Procs, Step(p)
      PROVE  InputInv' /\ StampInv'
  BY <1>3, InputStep, StampStep
<1>4. ASSUME NEW p \in Procs, Kill(p)
      PROVE  InputInv' /\ StampInv'
  <2>1. Holds(p)
    BY <1>4, HoldsWhenDone, IdleStep DEF Kill, BreakOff, Exit, Fetched, Rendering
  <2>2. QED
    BY <1>4, <2>1, InputHeld, StampHeld DEF Kill, BreakOff, files
<1>5. ASSUME NEW i \in Inputs, ChangeIntent(i)
      PROVE  InputInv' /\ StampInv'
  <2>1. /\ UNCHANGED <<stamp, lab, manifest, job>> /\ retired' = retired \cup {intent}
        /\ intent' = i /\ i # intent /\ i \notin retired
    BY <1>5 DEF ChangeIntent, files
  <2>2. \A k : Past(k) => Past(k)'
    BY <2>1 DEF Past
  <2>3. InputInv'
    BY <2>1, <2>2 DEF InputInv
  <2>4. \A m : (Superseded(m) => Superseded(m)') /\ (Outdated(m) => Outdated(m)')
    BY <2>1 DEF Superseded, Outdated
  <2>5. \A m : RunsBuild(m)' <=> RunsBuild(m)
    BY <2>1 DEF RunsBuild, Present, Origin
  <2>6. QED
    BY <2>1, <2>2, <2>3, <2>4, <2>5 DEF StampInv, WholeBuilds, Passes
<1>6. ASSUME NEW n \in Nodes, ContainerExits(n)
      PROVE  InputInv' /\ StampInv'
  <2>1. /\ UNCHANGED <<intent, retired, stamp, manifest, job>>
        /\ lab' = [lab EXCEPT ![n].running = FALSE] /\ lab[n] # Absent /\ lab[n] \in Containers
    BY <1>6 DEF ContainerExits, TypeOK, files, world
  <2>2. \A k \in Nodes : lab'[k] # Absent => lab[k] # Absent /\ lab'[k].from = lab[k].from
    BY <2>1 DEF TypeOK, Containers
  <2>3. \A m : RunsBuild(m) => RunsBuild(m)'
    BY <2>2 DEF RunsBuild, Present, Origin
  <2>4. InputInv'
    BY <2>1 DEF InputInv, Past
  <2>5. \A m : /\ Superseded(m) => Superseded(m)'
               /\ Outdated(m) => Outdated(m)'
               /\ Past(m.input) => Past(m.input)'
    BY <2>1 DEF Superseded, Outdated, Past
  <2>6. QED
    BY <2>1, <2>3, <2>4, <2>5 DEF StampInv, WholeBuilds, Passes
<1>7. CASE UNCHANGED vars
  <2>1. /\ UNCHANGED <<intent, retired, stamp, lab, manifest>>
        /\ UNCHANGED job
    BY <1>7 DEF vars
  <2>2. \A m : /\ Superseded(m) => Superseded(m)'
               /\ Outdated(m) => Outdated(m)'
               /\ RunsBuild(m) => RunsBuild(m)'
               /\ Past(m.input) => Past(m.input)'
    BY <2>1 DEF Superseded, Outdated, Past, RunsBuild, Present, Origin
  <2>3. InputInv'
    BY <2>1 DEF InputInv, Past
  <2>4. StampInv'
    BY <2>1, <2>2 DEF StampInv, WholeBuilds, Passes
  <2>5. QED
    BY <1>1, <2>3, <2>4
<1>8. QED
  BY <1>1, <1>2, <1>3, <1>4, <1>5, <1>6, <1>7 DEF Next

\* Runtime identity, one command at a time and an intent that does not go back:
\* whatever commands are killed or cannot remove the stamp, once
\* require_deployed_build has accepted, every container of the lab was created
\* from the build whose hash goes into the report.
THEOREM KilledIdentityHolds == Solo /\ ~Reverts => (Spec => []AttestedLabRunsTheBuild)
<1> SUFFICES ASSUME Solo, ~Reverts PROVE Spec => []AttestedLabRunsTheBuild
  OBVIOUS
<1>1. Init => KilledInv
  <2>1. Init => LabInv
    BY DEF Init, LabInv, LabKnown, Idle
  <2>2. Init => InputInv /\ StampInv
    BY DEF Init, InputInv, StampInv, Past, Idle, Fetched, Rendering
  <2>3. QED
    BY <2>1, <2>2, DirectoryInitially DEF KilledInv
<1>2. TypeOK /\ KilledInv /\ [Next]_vars => KilledInv'
  BY KilledInductive
<1>3. KilledInv => AttestedLabRunsTheBuild
  <2> SUFFICES ASSUME KilledInv, NEW p \in Procs, At(p, "collect")
               PROVE  RunsBuild(job[p].seen)
    BY DEF AttestedLabRunsTheBuild, RunsBuild, Origin
  <2>1. stamp # NoStamp /\ stamp.build = job[p].seen
    BY DEF KilledInv, LabInv, LabKnown, At
  <2>2. Intact /\ job[p].seen = manifest
    BY DEF KilledInv, DirectoryInv, DirectoryKnown, At
  <2>3. ~Outdated(stamp.build)
    BY <2>1, <2>2 DEF Outdated, Intact
  <2>4. QED
    BY <2>1, <2>3 DEF KilledInv, StampInv
<1>4. QED
  BY <1>1, <1>2, <1>3, TypeCorrect, PTL DEF Spec

=============================================================================
