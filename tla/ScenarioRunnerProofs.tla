------------------------ MODULE ScenarioRunnerProofs ------------------------
(***************************************************************************)
(* Type correctness of ScenarioRunner, and the report it always writes, for *)
(* any number of runners, targets of any length and any interrupts.        *)
(***************************************************************************)
EXTENDS ScenarioRunner, TLAPS

\* What the counters of a run amount to at each step, for a target of n
\* interfaces.
Counted(n, j) ==
  /\ j.step \in {"idle", "baseline", "baselinePings"} => j = [Fresh EXCEPT !.step = j.step]
  /\ j.step \in {"down", "checkDown"}
       => j.at \in 1..n /\ j.active + j.faults = j.at - 1
  /\ j.step \in {"survive", "sleep"} => j.at = n /\ j.active = n /\ j.faults = 0
  /\ j.step \in {"down", "checkDown", "survive", "sleep"}
       => /\ j.survival = "none" /\ j.restored = 0 /\ j.broken = 0
          /\ ~j.recovered /\ ~j.raising
  /\ j.step \in {"up", "checkUp"}
       => /\ j.at \in 1..n /\ j.active <= n /\ ~j.recovered
          /\ j.raising \/ j.active = n \/ j.faults > 0
          /\ j.restored + j.broken = n - j.at
  /\ j.step \in {"recover", "recoverPings", "report"}
       => /\ j.active <= n /\ ~j.raising
          /\ j.active = n \/ j.faults > 0
          /\ j.restored + j.broken = n
  /\ j.step = "recoverPings" \/ j.recovered => j.restored = n /\ j.broken = 0

Sound(r, j) == j \in Runs /\ Counted(Len(Target[r]), j)

Inv == TypeOK /\ \A r \in Runners : Counted(Len(Target[r]), run[r])

LEMMA TargetLength ==
  ASSUME NEW r \in Runners
  PROVE  Len(Target[r]) \in Nat /\ Len(Target[r]) > 0
BY TargetAssumption

LEMMA InterfaceIsLink ==
  ASSUME NEW r \in Runners, run[r].at \in 1..Len(Target[r])
  PROVE  Interface(r) \in Links
BY TargetAssumption DEF Interface

\* A step that leaves its run sound and the interfaces well typed keeps Inv.
LEMMA SoundStep ==
  ASSUME Inv, NEW r \in Runners, NEW j, Sound(r, j), Becomes(r, j),
         admin' \in [Links -> BOOLEAN], UNCHANGED session,
         reports' \in [Runners -> Reports \cup {NoReport}],
         interrupts' \in 0..MaxInterrupts
  PROVE  Inv'
<1>1. run' \in [Runners -> Runs] /\ run'[r] = j /\ \A q \in Runners \ {r} : run'[q] = run[q]
  BY DEF Inv, TypeOK, Becomes, Sound
<1>2. Counted(Len(Target[r]), j)
  BY DEF Sound
<1>3. \A q \in Runners : Counted(Len(Target[q]), run'[q])
  BY <1>1, <1>2 DEF Inv
<1>4. \A q \in Runners : run'[q].step \in {"down", "checkDown", "up", "checkUp"}
                           => run'[q].at \in 1..Len(Target[q])
  BY <1>3 DEF Counted
<1>5. QED
  BY <1>1, <1>3, <1>4 DEF Inv, TypeOK

LEMMA FreshSound ==
  ASSUME NEW r \in Runners
  PROVE  Sound(r, Fresh)
BY TargetLength DEF Sound, Runs, Steps, Fresh, Counted

-----------------------------------------------------------------------------
(* Runs that move on to another step.                                      *)

\* The fields that a change of step and interface leaves alone.
SameCounts(j, k) ==
  /\ k.active = j.active /\ k.faults = j.faults /\ k.survival = j.survival
  /\ k.restored = j.restored /\ k.broken = j.broken
  /\ k.recovered = j.recovered /\ k.raising = j.raising

\* Injecting: every interface behind the one in hand is counted.
LEMMA InjectingCounted ==
  ASSUME NEW n, NEW k, k.step \in {"down", "checkDown"},
         k.at \in 1..n, k.active + k.faults = k.at - 1,
         k.survival = "none", k.restored = 0, k.broken = 0, ~k.recovered, ~k.raising
  PROVE  Counted(n, k)
BY DEF Counted

LEMMA WaitingCounted ==
  ASSUME NEW n, NEW k, k.step \in {"survive", "sleep"},
         k.at = n, k.active = n, k.faults = 0,
         k.survival = "none", k.restored = 0, k.broken = 0, ~k.recovered, ~k.raising
  PROVE  Counted(n, k)
BY DEF Counted

LEMMA RestoringCounted ==
  ASSUME NEW n, NEW k, k.step \in {"up", "checkUp"},
         k.at \in 1..n, k.active <= n, ~k.recovered,
         k.raising \/ k.active = n \/ k.faults > 0,
         k.restored + k.broken = n - k.at
  PROVE  Counted(n, k)
BY DEF Counted

LEMMA RecoveringCounted ==
  ASSUME NEW n, NEW k, k.step \in {"recover", "recoverPings", "report"},
         k.active <= n, ~k.raising, k.active = n \/ k.faults > 0,
         k.restored + k.broken = n,
         k.step = "recoverPings" \/ k.recovered => k.restored = n /\ k.broken = 0
  PROVE  Counted(n, k)
BY DEF Counted

\* Injected leads to a sound run once the interface in hand is counted.
LEMMA InjectedSound ==
  ASSUME NEW r \in Runners, NEW j \in Runs,
         j.at \in 1..Len(Target[r]), j.active + j.faults = j.at,
         j.survival = "none", j.restored = 0, j.broken = 0, ~j.recovered, ~j.raising,
         NEW k, k = Injected(r, j)
  PROVE  Sound(r, k)
<1> DEFINE n == Len(Target[r])
<1>0. n \in Nat /\ n > 0 /\ j.at \in Nat /\ j.active \in Nat /\ j.faults \in Nat
  BY TargetLength DEF Runs
<1>1. CASE j.at < n
  <2>1. k = [j EXCEPT !.step = "down", !.at = j.at + 1]
    BY <1>1 DEF Injected
  <2>2. "down" \in Steps /\ j.at + 1 \in Nat /\ j.at + 1 \in 1..n
    BY <1>0, <1>1 DEF Steps
  <2>3. k \in Runs /\ k.step = "down" /\ k.at = j.at + 1 /\ SameCounts(j, k)
    BY <2>1, <2>2 DEF Runs, SameCounts
  <2>4. k.active + k.faults = k.at - 1
    BY <1>0, <2>3 DEF SameCounts
  <2>5. Counted(n, k)
    BY <2>2, <2>3, <2>4, InjectingCounted DEF SameCounts
  <2>6. QED
    BY <2>3, <2>5 DEF Sound
<1>2. CASE j.at = n /\ j.active = n
  <2>1. k = [j EXCEPT !.step = "survive"] /\ "survive" \in Steps
    BY <1>0, <1>2 DEF Injected, Steps
  <2>2. k \in Runs /\ k.step = "survive" /\ SameCounts(j, k)
    BY <2>1 DEF Runs, SameCounts
  <2>3. k.at = n /\ k.active = n /\ k.faults = 0
    BY <1>0, <1>2, <2>1, <2>2 DEF SameCounts, Runs
  <2>4. Counted(n, k)
    BY <2>2, <2>3, WaitingCounted DEF SameCounts
  <2>5. QED
    BY <2>2, <2>4 DEF Sound
<1>3. CASE j.at = n /\ j.active # n
  <2>1. k = [j EXCEPT !.step = "up", !.at = n] /\ "up" \in Steps
    BY <1>0, <1>3 DEF Injected, Steps
  <2>2. k \in Runs /\ k.step = "up" /\ k.at = n /\ SameCounts(j, k)
    BY <1>0, <2>1 DEF Runs, SameCounts
  <2>3. /\ k.at \in 1..n /\ k.active <= n /\ k.faults > 0
        /\ k.restored + k.broken = n - k.at /\ ~k.recovered
    BY <1>0, <1>3, <2>2 DEF SameCounts
  <2>4. Counted(n, k)
    BY <2>2, <2>3, RestoringCounted
  <2>5. QED
    BY <2>2, <2>4 DEF Sound
<1>4. QED
  BY <1>0, <1>1, <1>2, <1>3

\* And so does Restored.
LEMMA RestoredSound ==
  ASSUME NEW r \in Runners, NEW j \in Runs,
         j.at \in 1..Len(Target[r]), j.active <= Len(Target[r]), ~j.recovered,
         j.raising \/ j.active = Len(Target[r]) \/ j.faults > 0,
         j.restored + j.broken = Len(Target[r]) - j.at + 1,
         NEW k, k = Restored(r, j)
  PROVE  Sound(r, k)
<1> DEFINE n == Len(Target[r])
<1>0. n \in Nat /\ n > 0 /\ j.at \in Nat /\ j.restored \in Nat /\ j.broken \in Nat
  BY TargetLength DEF Runs
<1>1. CASE j.at > 1
  <2>1. k = [j EXCEPT !.step = "up", !.at = j.at - 1]
    BY <1>1 DEF Restored
  <2>2. "up" \in Steps /\ j.at - 1 \in Nat /\ j.at - 1 \in 1..n
    BY <1>0, <1>1 DEF Steps
  <2>3. k \in Runs /\ k.step = "up" /\ k.at = j.at - 1 /\ SameCounts(j, k)
    BY <2>1, <2>2 DEF Runs, SameCounts
  <2>4. k.restored + k.broken = n - k.at
    BY <1>0, <2>3 DEF SameCounts
  <2>5. Counted(n, k)
    BY <2>2, <2>3, <2>4, RestoringCounted DEF SameCounts
  <2>6. QED
    BY <2>3, <2>5 DEF Sound
<1>2. CASE j.at = 1 /\ j.raising
  <2>1. k = Fresh
    BY <1>2 DEF Restored
  <2>2. QED
    BY <2>1, FreshSound
<1>3. CASE j.at = 1 /\ ~j.raising
  <2>1. k = [j EXCEPT !.step = "recover"] /\ "recover" \in Steps
    BY <1>3 DEF Restored, Steps
  <2>2. k \in Runs /\ k.step = "recover" /\ SameCounts(j, k)
    BY <2>1 DEF Runs, SameCounts
  <2>3. k.restored + k.broken = n
    BY <1>0, <1>3, <2>2 DEF SameCounts
  <2>4. Counted(n, k)
    BY <1>3, <2>2, <2>3, RecoveringCounted DEF SameCounts
  <2>5. QED
    BY <2>2, <2>4 DEF Sound
<1>4. QED
  BY <1>0, <1>1, <1>2, <1>3

-----------------------------------------------------------------------------
(* Inv is kept by every step.                                              *)

\* Steps that only move the run on.
LEMMA GotoSound ==
  ASSUME Inv, NEW r \in Runners, NEW s \in Steps, Goto(r, s),
         admin' \in [Links -> BOOLEAN], UNCHANGED <<session, reports, interrupts>>,
         NEW k, k = [run[r] EXCEPT !.step = s],
         k \in Runs /\ k.step = s /\ k.at = run[r].at /\ SameCounts(run[r], k)
           => Counted(Len(Target[r]), k)
  PROVE  Inv'
<1>1. run[r] \in Runs
  BY DEF Inv, TypeOK
<1>2. k \in Runs /\ k.step = s /\ k.at = run[r].at /\ SameCounts(run[r], k)
  BY <1>1 DEF Runs, SameCounts
<1>3. Sound(r, k) /\ Becomes(r, k)
  BY <1>2 DEF Sound, Goto
<1>4. QED
  BY <1>3, SoundStep DEF Inv, TypeOK

\* Steps that leave the session, the reports and the interrupts alone.
LEMMA QuietSound ==
  ASSUME Inv, NEW r \in Runners, NEW k, k \in Runs, Counted(Len(Target[r]), k),
         Becomes(r, k), admin' \in [Links -> BOOLEAN],
         UNCHANGED <<session, reports, interrupts>>
  PROVE  Inv'
BY SoundStep DEF Sound, Inv, TypeOK

LEMMA ExitSound ==
  ASSUME Inv, NEW r \in Runners, Exit(r),
         admin' \in [Links -> BOOLEAN], UNCHANGED session,
         reports' \in [Runners -> Reports \cup {NoReport}],
         interrupts' \in 0..MaxInterrupts
  PROVE  Inv'
BY FreshSound, SoundStep DEF Exit

LEMMA StartingInv ==
  ASSUME Inv, NEW r \in Runners, Start(r) \/ Baseline(r) \/ BaselinePings(r)
  PROVE  Inv'
<1> DEFINE n == Len(Target[r])
<1>0. n \in Nat /\ n > 0 /\ run[r] \in Runs /\ Counted(n, run[r])
      /\ admin \in [Links -> BOOLEAN]
  BY TargetLength DEF Inv, TypeOK
<1>1. run[r] = [Fresh EXCEPT !.step = run[r].step]
  BY <1>0 DEF Counted, Start, Baseline, BaselinePings, At
<1>2. CASE Exit(r) /\ (Baseline(r) \/ BaselinePings(r))
  BY <1>2, ExitSound DEF Baseline, BaselinePings, Inv, TypeOK
<1>u. UNCHANGED <<admin, session, reports, interrupts>>
  BY DEF Start, Baseline, BaselinePings
<1>3. ASSUME NEW s \in {"baseline", "baselinePings"}, Goto(r, s)
      PROVE  Inv'
  <2> DEFINE k == [run[r] EXCEPT !.step = s]
  <2>1. k = [Fresh EXCEPT !.step = s]
    BY <1>1, <1>3 DEF Fresh
  <2>2. k.step = s /\ k.recovered = FALSE /\ s \in Steps
    BY <2>1, <1>3 DEF Fresh, Steps
  <2>3. Counted(n, k)
    <3> HIDE DEF k
    <3> QED BY <2>1, <2>2, <1>3 DEF Counted
  <2>4. QED
    BY <1>0, <1>3, <1>u, <2>2, <2>3, GotoSound
<1>4. CASE Becomes(r, [run[r] EXCEPT !.step = "down", !.at = 1])
  <2> DEFINE k == [run[r] EXCEPT !.step = "down", !.at = 1]
  <2>1. k \in Runs
    BY <1>0 DEF Runs, Steps
  <2>2. k = [Fresh EXCEPT !.step = "down", !.at = 1]
    BY <1>1 DEF Fresh
  <2>3. /\ k.step = "down" /\ k.at = 1 /\ k.active = 0 /\ k.faults = 0
        /\ k.survival = "none" /\ k.restored = 0 /\ k.broken = 0
        /\ ~k.recovered /\ ~k.raising
    BY <2>2 DEF Fresh
  <2>4. Becomes(r, k)
    BY <1>4
  <2> HIDE DEF k
  <2>5. k.at \in 1..n /\ k.active + k.faults = k.at - 1
    BY <1>0, <2>3
  <2>6. Counted(n, k)
    BY <2>3, <2>5 DEF Counted
  <2>7. QED
    BY <1>0, <1>u, <2>1, <2>4, <2>6, QuietSound
<1>5. QED
  BY <1>2, <1>3, <1>4 DEF Start, Baseline, BaselinePings

\* A command on the interface in hand keeps the interfaces well typed.
LEMMA SetTyped ==
  ASSUME admin \in [Links -> BOOLEAN], NEW l \in Links, NEW up \in BOOLEAN,
         SetDone(l, up) \/ SetFailed(l, up)
  PROVE  admin' \in [Links -> BOOLEAN]
BY DEF SetDone, SetFailed

LEMMA InjectingInv ==
  ASSUME Inv, NEW r \in Runners, SetDown(r) \/ CheckDown(r)
  PROVE  Inv'
<1> DEFINE n == Len(Target[r])
<1>0. n \in Nat /\ n > 0 /\ run[r] \in Runs /\ Counted(n, run[r])
      /\ admin \in [Links -> BOOLEAN]
  BY TargetLength DEF Inv, TypeOK
<1>1. /\ run[r].step \in {"down", "checkDown"} /\ run[r].at \in 1..n
      /\ run[r].active + run[r].faults = run[r].at - 1
      /\ run[r].survival = "none" /\ run[r].restored = 0 /\ run[r].broken = 0
      /\ ~run[r].recovered /\ ~run[r].raising
  BY <1>0 DEF SetDown, CheckDown, At, Counted
<1>2. admin' \in [Links -> BOOLEAN] /\ UNCHANGED <<session, reports, interrupts>>
  <2>1. Interface(r) \in Links
    BY <1>1, InterfaceIsLink
  <2>2. QED
    BY <1>0, <2>1, SetTyped DEF SetDown, CheckDown
<1>3. CASE Goto(r, "checkDown")
  <2> DEFINE k == [run[r] EXCEPT !.step = "checkDown"]
  <2>1. ASSUME k.step = "checkDown", k.at = run[r].at, SameCounts(run[r], k)
        PROVE  Counted(n, k)
    <3> HIDE DEF k
    <3>1. k.active + k.faults = k.at - 1
      BY <1>1, <2>1 DEF SameCounts
    <3>2. QED
      BY <1>1, <2>1, <3>1, InjectingCounted DEF SameCounts
  <2>2. "checkDown" \in Steps
    BY DEF Steps
  <2>3. QED
    BY <1>2, <1>3, <2>1, <2>2, GotoSound
<1>4. ASSUME NEW j, Becomes(r, Injected(r, j)),
             \/ j = [run[r] EXCEPT !.faults = run[r].faults + 1]
             \/ j = [run[r] EXCEPT !.active = run[r].active + 1]
      PROVE  Inv'
  <2>1. j \in Runs
    BY <1>0, <1>4 DEF Runs
  <2>2. /\ j.at = run[r].at /\ j.survival = "none" /\ j.restored = 0 /\ j.broken = 0
        /\ ~j.recovered /\ ~j.raising
    BY <1>0, <1>1, <1>4 DEF Runs
  <2>3. j.active + j.faults = run[r].active + run[r].faults + 1
    BY <1>0, <1>4 DEF Runs
  <2>4. j.at \in 1..n /\ j.active + j.faults = j.at
    BY <1>0, <1>1, <2>2, <2>3 DEF Runs
  <2>5. Sound(r, Injected(r, j))
    BY <2>1, <2>2, <2>4, InjectedSound
  <2>6. QED
    BY <1>2, <1>4, <2>5, QuietSound DEF Sound
<1>5. QED
  BY <1>3, <1>4 DEF SetDown, CheckDown

LEMMA WaitingInv ==
  ASSUME Inv, NEW r \in Runners, Poll(r) \/ Sleep(r) \/ Expire(r)
  PROVE  Inv'
<1> DEFINE n == Len(Target[r])
<1>0. n \in Nat /\ n > 0 /\ run[r] \in Runs /\ Counted(n, run[r])
      /\ admin \in [Links -> BOOLEAN]
  BY TargetLength DEF Inv, TypeOK
<1>1. /\ run[r].step \in {"survive", "sleep"} /\ run[r].at = n
      /\ run[r].active = n /\ run[r].faults = 0
      /\ run[r].survival = "none" /\ run[r].restored = 0 /\ run[r].broken = 0
      /\ ~run[r].recovered /\ ~run[r].raising
  BY <1>0 DEF Poll, Sleep, Expire, At, Counted
<1>2. UNCHANGED <<admin, session, reports, interrupts>>
  BY DEF Poll, Sleep, Expire
<1>3. ASSUME NEW s \in {"survive", "sleep"}, Goto(r, s)
      PROVE  Inv'
  <2> DEFINE k == [run[r] EXCEPT !.step = s]
  <2>1. ASSUME k.step = s, k.at = run[r].at, SameCounts(run[r], k)
        PROVE  Counted(n, k)
    <3> HIDE DEF k
    <3> QED BY <1>1, <1>3, <2>1, WaitingCounted DEF SameCounts
  <2>2. s \in Steps
    BY <1>3 DEF Steps
  <2>3. QED
    BY <1>0, <1>2, <1>3, <2>1, <2>2, GotoSound
<1>4. CASE Becomes(r, [run[r] EXCEPT !.expired = TRUE])
  <2> DEFINE k == [run[r] EXCEPT !.expired = TRUE]
  <2>1. k \in Runs /\ k.step = run[r].step /\ k.at = run[r].at /\ SameCounts(run[r], k)
    BY <1>0 DEF Runs, SameCounts
  <2>2. Counted(n, k) /\ Becomes(r, k)
    <3>1. Becomes(r, k)
      BY <1>4
    <3> HIDE DEF k
    <3> QED BY <1>1, <2>1, <3>1, WaitingCounted DEF SameCounts
  <2>3. QED
    BY <1>0, <1>2, <2>1, <2>2, QuietSound
\* The wait is over: back to the interfaces.
<1>5. ASSUME NEW k, Becomes(r, k), k \in Runs, k.step = "up", k.at = n, k.active = n,
             k.restored = 0, k.broken = 0, ~k.recovered
      PROVE  Inv'
  <2>1. k.at \in 1..n /\ k.active <= n /\ k.restored + k.broken = n - k.at
    BY <1>0, <1>5
  <2>2. Counted(n, k)
    BY <1>5, <2>1 DEF Counted
  <2>3. QED
    BY <1>0, <1>2, <1>5, <2>2, QuietSound
<1>6. ASSUME NEW s \in {"passed", "failed"},
             Becomes(r, [run[r] EXCEPT !.survival = s, !.step = "up"])
      PROVE  Inv'
  <2> DEFINE k == [run[r] EXCEPT !.survival = s, !.step = "up"]
  <2>1. /\ k \in Runs /\ k.step = "up" /\ k.at = n /\ k.active = n
        /\ k.restored = 0 /\ k.broken = 0 /\ ~k.recovered
    BY <1>0, <1>1 DEF Runs, Steps
  <2>2. Becomes(r, k)
    BY <1>6
  <2> HIDE DEF k
  <2>3. QED
    BY <1>5, <2>1, <2>2
<1>7. CASE Becomes(r, [run[r] EXCEPT !.faults = run[r].faults + 1, !.step = "up"])
  <2> DEFINE k == [run[r] EXCEPT !.faults = run[r].faults + 1, !.step = "up"]
  <2>1. run[r].faults + 1 \in Nat /\ "up" \in Steps
    BY <1>0 DEF Runs, Steps
  <2>2. k \in Runs
    BY <1>0, <2>1 DEF Runs
  <2>3. /\ k.step = "up" /\ k.at = run[r].at /\ k.active = run[r].active
        /\ k.restored = run[r].restored /\ k.broken = run[r].broken
        /\ k.recovered = run[r].recovered
    BY <1>0 DEF Runs
  <2>4. Becomes(r, k)
    BY <1>7
  <2> HIDE DEF k
  <2>5. QED
    BY <1>1, <1>5, <2>2, <2>3, <2>4
<1>8. QED
  BY <1>3, <1>4, <1>6, <1>7 DEF Poll, Sleep, Expire
LEMMA RestoringInv ==
  ASSUME Inv, NEW r \in Runners, SetUp(r) \/ CheckUp(r)
  PROVE  Inv'
<1> DEFINE n == Len(Target[r])
<1>0. n \in Nat /\ n > 0 /\ run[r] \in Runs /\ Counted(n, run[r])
      /\ admin \in [Links -> BOOLEAN]
  BY TargetLength DEF Inv, TypeOK
<1>1. /\ run[r].step \in {"up", "checkUp"} /\ run[r].at \in 1..n
      /\ run[r].active <= n /\ ~run[r].recovered
      /\ run[r].raising \/ run[r].active = n \/ run[r].faults > 0
      /\ run[r].restored + run[r].broken = n - run[r].at
  BY <1>0 DEF SetUp, CheckUp, At, Counted
<1>2. admin' \in [Links -> BOOLEAN] /\ UNCHANGED <<session, reports, interrupts>>
  <2>1. Interface(r) \in Links
    BY <1>1, InterfaceIsLink
  <2>2. QED
    BY <1>0, <2>1, SetTyped DEF SetUp, CheckUp
<1>3. CASE Goto(r, "checkUp")
  <2> DEFINE k == [run[r] EXCEPT !.step = "checkUp"]
  <2>1. ASSUME k.step = "checkUp", k.at = run[r].at, SameCounts(run[r], k)
        PROVE  Counted(n, k)
    <3> HIDE DEF k
    <3> QED BY <1>1, <2>1, RestoringCounted DEF SameCounts
  <2>2. "checkUp" \in Steps
    BY DEF Steps
  <2>3. QED
    BY <1>2, <1>3, <2>1, <2>2, GotoSound
<1>4. ASSUME NEW j, Becomes(r, Restored(r, j)),
             \/ j = [run[r] EXCEPT !.broken = run[r].broken + 1]
             \/ j = [run[r] EXCEPT !.restored = run[r].restored + 1]
      PROVE  Inv'
  <2>1. j \in Runs
    BY <1>0, <1>4 DEF Runs
  <2>2. /\ j.at = run[r].at /\ j.active = run[r].active /\ j.faults = run[r].faults
        /\ j.recovered = run[r].recovered /\ j.raising = run[r].raising
    BY <1>0, <1>4 DEF Runs
  <2>3. j.restored + j.broken = run[r].restored + run[r].broken + 1
    BY <1>0, <1>4 DEF Runs
  <2>4. j.restored + j.broken = n - j.at + 1
    BY <1>0, <1>1, <2>2, <2>3 DEF Runs
  <2>5. Sound(r, Restored(r, j))
    BY <1>1, <2>1, <2>2, <2>4, RestoredSound
  <2>6. QED
    BY <1>2, <1>4, <2>5, QuietSound DEF Sound
<1>5. QED
  BY <1>3, <1>4 DEF SetUp, CheckUp

LEMMA RecoveringInv ==
  ASSUME Inv, NEW r \in Runners, Recover(r) \/ RecoverPings(r)
  PROVE  Inv'
<1> DEFINE n == Len(Target[r])
<1>0. n \in Nat /\ n > 0 /\ run[r] \in Runs /\ Counted(n, run[r])
      /\ admin \in [Links -> BOOLEAN]
  BY TargetLength DEF Inv, TypeOK
<1>1. /\ run[r].step \in {"recover", "recoverPings"}
      /\ run[r].active <= n /\ ~run[r].raising
      /\ run[r].active = n \/ run[r].faults > 0
      /\ run[r].restored + run[r].broken = n
      /\ run[r].step = "recoverPings" \/ run[r].recovered
           => run[r].restored = n /\ run[r].broken = 0
  BY <1>0 DEF Recover, RecoverPings, At, Counted
<1>2. UNCHANGED <<admin, session, reports, interrupts>>
  BY DEF Recover, RecoverPings
<1>3. ASSUME NEW s \in {"recoverPings", "report"}, Goto(r, s),
             s = "recoverPings" => Successful(After(r))
      PROVE  Inv'
  <2>1. s = "recoverPings" => run[r].restored = n /\ run[r].broken = 0
    BY <1>3 DEF Successful, After
  <2> DEFINE k == [run[r] EXCEPT !.step = s]
  <2>2. ASSUME k.step = s, k.at = run[r].at, SameCounts(run[r], k)
        PROVE  Counted(n, k)
    <3> HIDE DEF k
    <3> QED BY <1>1, <1>3, <2>1, <2>2, RecoveringCounted DEF SameCounts
  <2>3. s \in Steps
    BY <1>3 DEF Steps
  <2>4. QED
    BY <1>0, <1>2, <1>3, <2>2, <2>3, GotoSound
<1>4. ASSUME NEW b \in BOOLEAN, At(r, "recoverPings"),
             Becomes(r, [run[r] EXCEPT !.recovered = b, !.step = "report"])
      PROVE  Inv'
  <2> DEFINE k == [run[r] EXCEPT !.recovered = b, !.step = "report"]
  <2>1. k \in Runs /\ k.step = "report"
    BY <1>0 DEF Runs, Steps
  <2>2. /\ k.active = run[r].active /\ k.faults = run[r].faults
        /\ k.restored = run[r].restored /\ k.broken = run[r].broken
        /\ k.raising = run[r].raising
    BY <1>0 DEF Runs
  <2>3. Becomes(r, k)
    BY <1>4
  <2> HIDE DEF k
  <2>4. Counted(n, k)
    BY <1>1, <1>4, <2>1, <2>2 DEF Counted, At
  <2>5. QED
    BY <1>0, <1>2, <2>1, <2>3, <2>4, QuietSound
<1>5. QED
  BY <1>3, <1>4 DEF Recover, RecoverPings

LEMMA WriteReportInv ==
  ASSUME Inv, NEW r \in Runners, WriteReport(r)
  PROVE  Inv'
<1>1. reports' \in [Runners -> Reports \cup {NoReport}]
  <2>1. [during |-> Successful(During(r)), restored |-> Successful(After(r)),
         recovered |-> run[r].recovered] \in Reports
    BY DEF Inv, TypeOK, Runs, Reports, Successful
  <2>2. QED
    BY <2>1 DEF WriteReport, Inv, TypeOK
<1>2. QED
  BY <1>1, ExitSound DEF WriteReport, Inv, TypeOK

LEMMA InterruptInv ==
  ASSUME Inv, NEW r \in Runners, Interrupt(r)
  PROVE  Inv'
<1> DEFINE n == Len(Target[r])
<1>0. n \in Nat /\ n > 0 /\ run[r] \in Runs /\ Counted(n, run[r])
      /\ admin \in [Links -> BOOLEAN]
  BY TargetLength DEF Inv, TypeOK
<1>1. interrupts' \in 0..MaxInterrupts /\ UNCHANGED <<session, reports>>
  BY InterruptAssumption DEF Interrupt, Inv, TypeOK
<1>2. admin' \in [Links -> BOOLEAN]
  <2>1. run[r].step \in {"down", "up"} => Interface(r) \in Links
    BY InterfaceIsLink DEF Inv, TypeOK
  <2>2. QED
    BY <1>0, <2>1, SetTyped DEF Interrupt, At
<1>3. ASSUME run[r].step \in {"down", "checkDown", "survive", "sleep"},
             Becomes(r, [run[r] EXCEPT !.raising = TRUE, !.step = "up", !.at = n])
      PROVE  Inv'
  <2>1. /\ run[r].active <= n /\ ~run[r].recovered
        /\ run[r].restored = 0 /\ run[r].broken = 0
    BY <1>0, <1>3 DEF Counted, Runs
  <2> DEFINE k == [run[r] EXCEPT !.raising = TRUE, !.step = "up", !.at = n]
  <2>2. k \in Runs
    BY <1>0 DEF Runs, Steps
  <2>3. /\ k.step = "up" /\ k.at = n /\ k.active = run[r].active /\ k.raising
        /\ k.restored = run[r].restored /\ k.broken = run[r].broken
        /\ k.recovered = run[r].recovered
    BY <1>0 DEF Runs
  <2>4. Becomes(r, k)
    BY <1>3
  <2> HIDE DEF k
  <2>5. Counted(n, k)
    BY <1>0, <2>1, <2>3 DEF Counted
  <2>6. QED
    BY <1>1, <1>2, <2>2, <2>4, <2>5, SoundStep DEF Sound, Inv, TypeOK
<1>4. CASE Exit(r)
  BY <1>1, <1>2, <1>4, ExitSound DEF Inv, TypeOK
<1>5. QED
  BY <1>3, <1>4 DEF Interrupt

LEMMA ConvergeInv ==
  ASSUME Inv, NEW l \in Links, Converge(l)
  PROVE  Inv'
<1>1. UNCHANGED <<admin, run, reports, interrupts>> /\ session' \in [Links -> BOOLEAN]
  BY DEF Converge, Inv, TypeOK
<1>2. QED
  BY <1>1 DEF Inv, TypeOK

-----------------------------------------------------------------------------
(* The theorems.                                                           *)

LEMMA InvInductive == Spec => []Inv
<1>1. Init => Inv
  <2> SUFFICES ASSUME Init PROVE Inv
    OBVIOUS
  <2>1. \A r \in Runners : run[r] = Fresh /\ Sound(r, Fresh)
    BY FreshSound DEF Init
  <2>2. \A r \in Runners : Fresh.step = "idle"
    BY DEF Fresh
  <2>3. run \in [Runners -> Runs] /\ \A r \in Runners : Counted(Len(Target[r]), run[r])
    BY <2>1 DEF Init, Sound
  <2>4. QED
    BY <2>1, <2>2, <2>3, InterruptAssumption DEF Init, Inv, TypeOK
<1>2. Inv /\ [Next]_vars => Inv'
  <2> SUFFICES ASSUME Inv, [Next]_vars PROVE Inv'
    OBVIOUS
  <2>1. ASSUME NEW r \in Runners, Start(r) \/ Step(r) \/ Expire(r) \/ Interrupt(r)
        PROVE  Inv'
    BY <2>1, StartingInv, InjectingInv, WaitingInv, RestoringInv, RecoveringInv,
       WriteReportInv, InterruptInv DEF Step
  <2>2. CASE UNCHANGED vars
    BY <2>2 DEF vars, Inv, TypeOK
  <2>3. QED
    BY <2>1, <2>2, ConvergeInv DEF Next
<1>3. QED
  BY <1>1, <1>2, PTL DEF Spec

\* Every reachable state is well typed; in particular a runner never has an
\* interface in hand that its target does not have.
THEOREM TypeHolds == Spec => []TypeOK
<1>1. Inv => TypeOK
  BY DEF Inv
<1>2. QED
  BY <1>1, InvInductive, PTL

\* The report can always be constructed, whatever failed and whenever the run
\* was interrupted: an interface that is not counted as active or restored has
\* left a finding, and recovery is claimed only for a complete restoration.
THEOREM ReportHolds == Spec => []ReportWritable
<1>1. Inv => ReportWritable
  <2> SUFFICES ASSUME Inv, NEW r \in Runners, At(r, "report") PROVE Writable(r)
    BY DEF ReportWritable
  <2> DEFINE n == Len(Target[r])
             j == run[r]
  <2>1. n \in Nat /\ j \in Runs /\ Counted(n, j)
    BY TargetLength DEF Inv, TypeOK
  <2>2. /\ j.active <= n
        /\ j.active = n \/ j.faults > 0
        /\ j.restored + j.broken = n
        /\ j.recovered => j.restored = n /\ j.broken = 0
    BY <2>1 DEF Counted, At
  <2>3. /\ j.active \in Nat /\ j.faults \in Nat /\ j.restored \in Nat /\ j.broken \in Nat
        /\ j.survival \in {"none", "passed", "failed"}
    BY <2>1 DEF Runs
  <2>4. Valid(During(r))
    <3> DEFINE d == During(r)
    <3>1. CASE j.survival = "none"
      <4>1. d.expected = n /\ d.passed = j.active /\ d.findings = j.faults
        BY <2>1, <2>3, <3>1 DEF During
      <4> HIDE DEF d, n, j
      <4>2. QED
        BY <2>1, <2>2, <2>3, <4>1 DEF Valid, d
    <3>2. CASE j.survival = "passed"
      <4>1. d.expected = n + 1 /\ d.passed = j.active + 1 /\ d.findings = j.faults
        BY <2>1, <2>3, <3>2 DEF During
      <4> HIDE DEF d, n, j
      <4>2. QED
        BY <2>1, <2>2, <2>3, <4>1 DEF Valid, d
    <3>3. CASE j.survival = "failed"
      <4>1. d.expected = n + 1 /\ d.passed = j.active /\ d.findings = j.faults + 1
        BY <2>1, <2>3, <3>3 DEF During
      <4> HIDE DEF d, n, j
      <4>2. QED
        BY <2>1, <2>2, <2>3, <4>1 DEF Valid, d
    <3>4. QED
      BY <2>3, <3>1, <3>2, <3>3
  <2> HIDE DEF n, j
  <2>5. Valid(After(r)) /\ (j.recovered => Successful(After(r)))
    BY <2>1, <2>2, <2>3 DEF Valid, After, Successful, n, j
  <2>6. QED
    BY <2>4, <2>5 DEF Writable, j
<1>2. QED
  BY <1>1, InvInductive, PTL
=============================================================================
