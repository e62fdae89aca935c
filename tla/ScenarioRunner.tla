--------------------------- MODULE ScenarioRunner ---------------------------
(***************************************************************************)
(* aftwin scenario run: verify a healthy baseline, take the target         *)
(* interfaces down, watch connectivity survive, take the interfaces up     *)
(* again from a finally block, verify recovery and write the report.       *)
(*                                                                         *)
(* Every command inside a container is one step that may succeed, fail, or *)
(* fail with its effect done, and the runtime verifier reads the BGP       *)
(* sessions before it sends the pings.  Runners may overlap: the code      *)
(* takes no lock.  The identity gate in front of every verification is     *)
(* modelled in LabLifecycle; here its refusal is one of the failures.      *)
(***************************************************************************)
EXTENDS Naturals, Sequences

CONSTANTS
  Runners,       \* scenario runs that may overlap
  Links,         \* interfaces of the fabric
  Target,        \* Target[r]: the interfaces r takes down, in order
  NoReport,      \* the scenario report does not exist
  MaxInterrupts  \* bound: keyboard interrupts in a behaviour

Reports == [during : BOOLEAN, restored : BOOLEAN, recovered : BOOLEAN]

ASSUME TargetAssumption ==
  \A r \in Runners : Target[r] \in Seq(Links) /\ Target[r] # << >>

ASSUME ReportAssumption == NoReport \notin Reports

ASSUME InterruptAssumption == MaxInterrupts \in Nat

VARIABLES
  admin,     \* whether the interface is administratively up
  session,   \* whether the BGP session over the interface is established
  run,       \* the local variables of every runner
  reports,   \* the scenario report every runner wrote last
  interrupts \* keyboard interrupts so far

vars == <<admin, session, run, reports, interrupts>>

Steps == {"idle", "baseline", "baselinePings", "down", "checkDown", "survive",
          "sleep", "up", "checkUp", "recover", "recoverPings", "report"}

TargetSet(r) == {Target[r][i] : i \in 1..Len(Target[r])}

\* at: index of the interface in hand; active: faults observed; faults:
\* injection findings; survival: the accepted poll; restored and broken: the
\* interfaces observed up again and the restore findings; raising: an exception
\* waits for the finally block to end.
Runs == [step : Steps, at : Nat, active : Nat, faults : Nat,
         survival : {"none", "passed", "failed"}, expired : BOOLEAN,
         restored : Nat, broken : Nat, recovered : BOOLEAN, raising : BOOLEAN]

TypeOK ==
  /\ admin \in [Links -> BOOLEAN]
  /\ session \in [Links -> BOOLEAN]
  /\ run \in [Runners -> Runs]
  /\ \A r \in Runners :
       run[r].step \in {"down", "checkDown", "up", "checkUp"}
         => run[r].at \in 1..Len(Target[r])
  /\ reports \in [Runners -> Reports \cup {NoReport}]
  /\ interrupts \in 0..MaxInterrupts

-----------------------------------------------------------------------------
(* The phases of the report and their validators.                          *)

\* ScenarioPhaseState.successful, and require_actionable_failure.
Successful(phase) == phase.passed = phase.expected /\ phase.findings = 0
Valid(phase) ==
  /\ phase.passed <= phase.expected
  /\ phase.passed # phase.expected => phase.findings > 0

\* The survival sections count as one probe; without them the phase consists
\* of the interfaces alone.
During(r) ==
  LET j == run[r]
      ran == j.survival # "none"
      survived == j.survival = "passed"
  IN [expected |-> Len(Target[r]) + IF ran THEN 1 ELSE 0,
      passed   |-> j.active + IF survived THEN 1 ELSE 0,
      findings |-> j.faults + IF ran /\ ~survived THEN 1 ELSE 0]

After(r) == [expected |-> Len(Target[r]), passed |-> run[r].restored,
             findings |-> run[r].broken]

\* ScenarioReport.passed; the baseline is successful by then.
Passing(r) ==
  Successful(During(r)) /\ Successful(After(r)) /\ run[r].recovered

\* Every phase can be constructed, and so can the report.
Writable(r) ==
  /\ Valid(During(r)) /\ Valid(After(r))
  /\ run[r].recovered => Successful(After(r))

-----------------------------------------------------------------------------
Fresh == [step |-> "idle", at |-> 0, active |-> 0, faults |-> 0,
          survival |-> "none", expired |-> FALSE, restored |-> 0, broken |-> 0,
          recovered |-> FALSE, raising |-> FALSE]

Init ==
  /\ admin = [l \in Links |-> TRUE]
  /\ session = [l \in Links |-> TRUE]
  /\ run = [r \in Runners |-> Fresh]
  /\ reports = [r \in Runners |-> NoReport]
  /\ interrupts = 0

At(r, step) == run[r].step = step
Becomes(r, j) == run' = [run EXCEPT ![r] = j]
Goto(r, step) == Becomes(r, [run[r] EXCEPT !.step = step])
Exit(r) == Becomes(r, Fresh)

Interface(r) == Target[r][run[r].at]

\* ip link set; containerlab exec.  A command that is reported as failed or
\* timed out may have been carried out all the same.
SetDone(l, up) == admin' = [admin EXCEPT ![l] = up]
SetFailed(l, up) == admin' \in {admin, [admin EXCEPT ![l] = up]}

\* The verifier finds every expected session established.
Established == \A l \in Links : session[l]

Start(r) ==
  /\ At(r, "idle")
  /\ Goto(r, "baseline")
  /\ UNCHANGED <<admin, session, reports, interrupts>>

\* A refused gate, an unknown probe or an unhealthy baseline ends the run.
Baseline(r) ==
  /\ At(r, "baseline")
  /\ (Established /\ Goto(r, "baselinePings")) \/ Exit(r)
  /\ UNCHANGED <<admin, session, reports, interrupts>>

BaselinePings(r) ==
  /\ At(r, "baselinePings")
  /\ \/ Becomes(r, [run[r] EXCEPT !.step = "down", !.at = 1])
     \/ Exit(r)
  /\ UNCHANGED <<admin, session, reports, interrupts>>

\* Mutant: survival is polled whatever was injected.
InjectedAnyhow(r, j) ==
  IF j.at < Len(Target[r])
    THEN [j EXCEPT !.step = "down", !.at = @ + 1]
    ELSE [j EXCEPT !.step = "survive"]

\* The run j with its present interface dealt with: the next one, or the
\* survival check if every fault was observed, or else the finally block.
Injected(r, j) ==
  CASE j.at < Len(Target[r])       -> [j EXCEPT !.step = "down", !.at = @ + 1]
    [] /\ j.at = Len(Target[r])
       /\ j.active = Len(Target[r]) -> [j EXCEPT !.step = "survive"]
    [] OTHER                       -> [j EXCEPT !.step = "up", !.at = Len(Target[r])]

\* Mutant: a failed command leaves no finding.
SetDownSilent(r) ==
  /\ At(r, "down")
  /\ \/ SetDone(Interface(r), FALSE) /\ Goto(r, "checkDown")
     \/ SetFailed(Interface(r), FALSE) /\ Becomes(r, Injected(r, run[r]))
  /\ UNCHANGED <<session, reports, interrupts>>

SetDown(r) ==
  /\ At(r, "down")
  /\ \/ SetDone(Interface(r), FALSE) /\ Goto(r, "checkDown")
     \/ /\ SetFailed(Interface(r), FALSE)
        /\ Becomes(r, Injected(r, [run[r] EXCEPT !.faults = @ + 1]))
  /\ UNCHANGED <<session, reports, interrupts>>

\* Inspect the interface: observed down, still up, or the command failed.
CheckDown(r) ==
  /\ At(r, "checkDown")
  /\ \/ /\ ~admin[Interface(r)]
        /\ Becomes(r, Injected(r, [run[r] EXCEPT !.active = @ + 1]))
     \/ Becomes(r, Injected(r, [run[r] EXCEPT !.faults = @ + 1]))
  /\ UNCHANGED <<admin, session, reports, interrupts>>

\* Mutant: a poll that raises is swallowed.
PollSilent(r) ==
  /\ At(r, "survive")
  /\ \/ Becomes(r, [run[r] EXCEPT !.survival = "passed", !.step = "up"])
     \/ Goto(r, IF run[r].expired THEN "up" ELSE "sleep")
  /\ UNCHANGED <<admin, session, reports, interrupts>>

\* Mutant: no deadline.
PollForever(r) ==
  /\ At(r, "survive")
  /\ \/ Becomes(r, [run[r] EXCEPT !.survival = "passed", !.step = "up"])
     \/ Goto(r, "sleep")
  /\ UNCHANGED <<admin, session, reports, interrupts>>

\* _wait_for_survival polls until a poll succeeds or is taken behind the
\* deadline; a poll that raises ends the wait with a finding.
Poll(r) ==
  /\ At(r, "survive")
  /\ \/ Becomes(r, [run[r] EXCEPT !.survival = "passed", !.step = "up"])
     \/ IF run[r].expired
          THEN Becomes(r, [run[r] EXCEPT !.survival = "failed", !.step = "up"])
          ELSE Goto(r, "sleep")
     \/ Becomes(r, [run[r] EXCEPT !.faults = @ + 1, !.step = "up"])
  /\ UNCHANGED <<admin, session, reports, interrupts>>

Sleep(r) ==
  /\ At(r, "sleep")
  /\ Goto(r, "survive")
  /\ UNCHANGED <<admin, session, reports, interrupts>>

\* The deadline passes.
Expire(r) ==
  /\ run[r].step \in {"survive", "sleep"}
  /\ ~run[r].expired
  /\ Becomes(r, [run[r] EXCEPT !.expired = TRUE])
  /\ UNCHANGED <<admin, session, reports, interrupts>>

\* Mutant: one interface too many.
RestoredBelow(r, j) ==
  CASE j.at > 0  -> [j EXCEPT !.step = "up", !.at = @ - 1]
    [] j.at <= 0 -> [j EXCEPT !.step = "recover"]

\* The finally block goes through the interfaces backwards; then the
\* exception that is waiting, if any, ends the run without a report.
Restored(r, j) ==
  CASE j.at > 1             -> [j EXCEPT !.step = "up", !.at = @ - 1]
    [] j.at <= 1 /\ j.raising -> Fresh
    [] OTHER                -> [j EXCEPT !.step = "recover"]

\* Mutant: the return code is not looked at.
SetUpTrusting(r) ==
  /\ At(r, "up")
  /\ SetFailed(Interface(r), TRUE)
  /\ Becomes(r, Restored(r, [run[r] EXCEPT !.restored = @ + 1]))
  /\ UNCHANGED <<session, reports, interrupts>>

SetUp(r) ==
  /\ At(r, "up")
  /\ \/ SetDone(Interface(r), TRUE) /\ Goto(r, "checkUp")
     \/ /\ SetFailed(Interface(r), TRUE)
        /\ Becomes(r, Restored(r, [run[r] EXCEPT !.broken = @ + 1]))
  /\ UNCHANGED <<session, reports, interrupts>>

CheckUp(r) ==
  /\ At(r, "checkUp")
  /\ \/ /\ admin[Interface(r)]
        /\ Becomes(r, Restored(r, [run[r] EXCEPT !.restored = @ + 1]))
     \/ Becomes(r, Restored(r, [run[r] EXCEPT !.broken = @ + 1]))
  /\ UNCHANGED <<admin, session, reports, interrupts>>

\* _recovery_state: skipped with a finding unless everything was restored;
\* otherwise the full verifier, whose failure is a finding too.
Recover(r) ==
  /\ At(r, "recover")
  /\ \/ Successful(After(r)) /\ Established /\ Goto(r, "recoverPings")
     \/ Goto(r, "report")
  /\ UNCHANGED <<admin, session, reports, interrupts>>

RecoverPings(r) ==
  /\ At(r, "recoverPings")
  /\ \E recovered \in BOOLEAN :
       Becomes(r, [run[r] EXCEPT !.recovered = recovered, !.step = "report"])
  /\ UNCHANGED <<admin, session, reports, interrupts>>

\* A report whose phases do not satisfy the validators is not written.
WriteReport(r) ==
  /\ At(r, "report")
  /\ IF Writable(r)
       THEN reports' = [reports EXCEPT ![r] =
              [during    |-> Successful(During(r)),
               restored  |-> Successful(After(r)),
               recovered |-> run[r].recovered]]
       ELSE UNCHANGED reports
  /\ Exit(r)
  /\ UNCHANGED <<admin, session, interrupts>>

Step(r) ==
  \/ Baseline(r) \/ BaselinePings(r) \/ SetDown(r) \/ CheckDown(r) \/ Poll(r)
  \/ Sleep(r) \/ SetUp(r) \/ CheckUp(r) \/ Recover(r) \/ RecoverPings(r) \/ WriteReport(r)

\* KeyboardInterrupt.  Between the first fault and the survival check it runs
\* the finally block; anywhere else, the finally block included, it ends the
\* run.  A command in flight may still be carried out.
Interrupt(r) ==
  /\ interrupts < MaxInterrupts
  /\ interrupts' = interrupts + 1
  /\ \/ /\ run[r].step \in {"down", "checkDown", "survive", "sleep"}
        /\ IF At(r, "down") THEN SetFailed(Interface(r), FALSE) ELSE UNCHANGED admin
        /\ Becomes(r, [run[r] EXCEPT !.raising = TRUE, !.step = "up",
                                     !.at = Len(Target[r])])
     \/ /\ run[r].step \notin {"idle", "down", "checkDown", "survive", "sleep"}
        /\ IF At(r, "up") THEN SetFailed(Interface(r), TRUE) ELSE UNCHANGED admin
        /\ Exit(r)
  /\ UNCHANGED <<session, reports>>

\* BGP follows the interface.
Converge(l) ==
  /\ session[l] # admin[l]
  /\ session' = [session EXCEPT ![l] = admin[l]]
  /\ UNCHANGED <<admin, run, reports, interrupts>>

Next ==
  \/ \E r \in Runners : Start(r) \/ Step(r) \/ Expire(r) \/ Interrupt(r)
  \/ \E l \in Links : Converge(l)

Spec == Init /\ [][Next]_vars

FairSpec == Spec /\ \A r \in Runners : WF_vars(Step(r)) /\ WF_vars(Expire(r))

-----------------------------------------------------------------------------
(* Properties.                                                             *)

\* The report is always written: whatever subset of the commands, polls and
\* verifications fails, the counts and findings a run has gathered satisfy the
\* validators of ScenarioPhaseState and ScenarioReport, so that constructing
\* the report cannot raise and lose the evidence.
ReportWritable == \A r \in Runners : At(r, "report") => Writable(r)

\* "A scenario passes only if the fault was observed, connectivity survived,
\* all interfaces were restored, and the complete runtime verifier recovered":
\* a passing report rests on an accepted poll, and the targets are up.
PassedMeansProven ==
  \A r \in Runners : At(r, "report") /\ Passing(r) =>
    run[r].survival = "passed" /\ \A l \in TargetSet(r) : admin[l]

\* Survival is proved under the fault: at the moment a poll is accepted every
\* target interface is down.
SurvivalUnderFault ==
  [][\A r \in Runners :
       At(r, "survive") /\ run'[r].survival = "passed"
         => \A l \in TargetSet(r) : ~admin[l]]_vars

\* No interface is left down in silence: when no scenario is running, a target
\* that is down is one whose latest report says it was not restored.
LeftDownIsReported ==
  (\A r \in Runners : At(r, "idle")) =>
    \A l \in Links : ~admin[l] =>
      \E r \in Runners : /\ l \in TargetSet(r)
                        /\ reports[r] # NoReport
                        /\ ~reports[r].restored

\* The wait for survival is bounded: a scenario that was started ends.
RunEnds == \A r \in Runners : ~At(r, "idle") ~> At(r, "idle")
=============================================================================
