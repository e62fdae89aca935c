------------------------ MODULE ScenarioRunnerFault -------------------------
(***************************************************************************)
(* What is known of the target interfaces, for targets of any length and   *)
(* any failures: a scenario that runs alone, interrupted or not, observes  *)
(* survival under the whole fault, and its pass means that the fault is    *)
(* lifted; scenarios that overlap, without interrupts, leave nothing down  *)
(* in silence.                                                             *)
(***************************************************************************)
EXTENDS ScenarioRunnerProofs

\* No two runs overlap.
Alone == \A q, r \in Runners : q = r

\* The first k targets are down; the targets from k on are up.
Downed(r, up, k) == \A i \in 1..Len(Target[r]) : i <= k => ~up[Target[r][i]]
Lifted(r, up, k) == \A i \in 1..Len(Target[r]) : i >= k => up[Target[r][i]]

Returning == {"up", "checkUp", "recover", "recoverPings", "report"}

\* The counters of a run vouch for the interfaces they have counted: those
\* behind the one in hand are down while nothing has gone wrong in injecting,
\* and up again while nothing has gone wrong in restoring.  And a run in which
\* nothing has gone wrong has polled.
Holds(r, up, j) ==
  /\ j.step \in {"down", "checkDown"} /\ j.active = j.at - 1 => Downed(r, up, j.at - 1)
  /\ j.step \in {"survive", "sleep"} => Downed(r, up, Len(Target[r]))
  /\ j.step \in {"up", "checkUp"} /\ j.broken = 0 => Lifted(r, up, j.at + 1)
  /\ j.step \in {"recover", "recoverPings", "report"} /\ j.broken = 0 => Lifted(r, up, 1)
  /\ j.step \in Returning /\ ~j.raising /\ j.active = Len(Target[r]) /\ j.faults = 0
       => j.survival # "none"

FaultInv == \A r \in Runners : Holds(r, admin, run[r])

-----------------------------------------------------------------------------
(* Runs of which Holds is plain.                                           *)

LEMMA BecomesHolds ==
  ASSUME Alone, Inv, NEW r \in Runners, NEW k, Becomes(r, k), Holds(r, admin', k)
  PROVE  FaultInv'
<1>1. run'[r] = k
  BY DEF Becomes, Inv, TypeOK
<1>2. \A q \in Runners : q = r
  BY DEF Alone
<1>3. QED
  BY <1>1, <1>2 DEF FaultInv

\* A run that has not taken anything down yet.
LEMMA FreshHolds ==
  ASSUME NEW r \in Runners, NEW up, NEW k, k.step \in {"idle", "baseline", "baselinePings"}
  PROVE  Holds(r, up, k)
BY DEF Holds, Returning

LEMMA ExitHolds ==
  ASSUME Alone, Inv, NEW r \in Runners, Exit(r)
  PROVE  FaultInv'
<1>1. Fresh.step = "idle"
  BY DEF Fresh
<1>2. QED
  BY <1>1, FreshHolds, BecomesHolds DEF Exit

\* A run that still takes interfaces down, or watches.
LEMMA FaultyHolds ==
  ASSUME NEW r \in Runners, NEW up, NEW k,
         \/ k.step \in {"down", "checkDown"} /\ (k.active = k.at - 1 => Downed(r, up, k.at - 1))
         \/ k.step \in {"survive", "sleep"} /\ Downed(r, up, Len(Target[r]))
  PROVE  Holds(r, up, k)
BY DEF Holds, Returning

\* A run that brings interfaces back, and knows how its poll went.
Vouched(r, k) ==
  ~k.raising /\ k.active = Len(Target[r]) /\ k.faults = 0 => k.survival # "none"

LEMMA LiftingHolds ==
  ASSUME NEW r \in Runners, NEW up, NEW k, Vouched(r, k),
         \/ k.step \in {"up", "checkUp"} /\ (k.broken = 0 => Lifted(r, up, k.at + 1))
         \/ k.step \in {"recover", "recoverPings", "report"} /\ (k.broken = 0 => Lifted(r, up, 1))
  PROVE  Holds(r, up, k)
BY DEF Holds, Returning, Vouched

\* At the last target nothing is behind.
LEMMA LastLifted ==
  ASSUME NEW r \in Runners, NEW up, NEW k, k = Len(Target[r])
  PROVE  Lifted(r, up, k + 1)
BY TargetLength DEF Lifted

\* Setting an interface leaves all interfaces that already are that way.
LEMMA SetKeeps ==
  ASSUME admin \in [Links -> BOOLEAN], NEW l \in Links, NEW up \in BOOLEAN,
         SetDone(l, up) \/ SetFailed(l, up), NEW m \in Links, admin[m] = up
  PROVE  admin'[m] = up
BY DEF SetDone, SetFailed

LEMMA DownedKept ==
  ASSUME NEW r \in Runners, NEW k, Downed(r, admin, k), NEW l \in Links,
         admin \in [Links -> BOOLEAN], SetDone(l, FALSE) \/ SetFailed(l, FALSE)
  PROVE  Downed(r, admin', k)
<1>1. \A i \in 1..Len(Target[r]) : Target[r][i] \in Links
  BY TargetAssumption
<1>2. SUFFICES ASSUME NEW i \in 1..Len(Target[r]), i <= k PROVE ~admin'[Target[r][i]]
  BY DEF Downed
<1>3. ~admin[Target[r][i]]
  BY <1>2 DEF Downed
<1>4. admin[Target[r][i]] = FALSE
  BY <1>1, <1>3
<1>5. QED
  BY <1>1, <1>4, SetKeeps

LEMMA LiftedKept ==
  ASSUME NEW r \in Runners, NEW k, Lifted(r, admin, k), NEW l \in Links,
         admin \in [Links -> BOOLEAN], SetDone(l, TRUE) \/ SetFailed(l, TRUE)
  PROVE  Lifted(r, admin', k)
<1>1. \A i \in 1..Len(Target[r]) : Target[r][i] \in Links
  BY TargetAssumption
<1>2. SUFFICES ASSUME NEW i \in 1..Len(Target[r]), i >= k PROVE admin'[Target[r][i]]
  BY DEF Lifted
<1>3. admin[Target[r][i]]
  BY <1>2 DEF Lifted
<1>4. admin[Target[r][i]] = TRUE
  BY <1>1, <1>3
<1>5. QED
  BY <1>1, <1>4, SetKeeps

-----------------------------------------------------------------------------
(* FaultInv is kept by every step.                                         *)

LEMMA StartingHolds ==
  ASSUME Alone, Inv, NEW r \in Runners, Start(r) \/ Baseline(r) \/ BaselinePings(r)
  PROVE  FaultInv'
<1>0. run[r] \in Runs
  BY DEF Inv, TypeOK
<1>1. ASSUME NEW s \in {"baseline", "baselinePings"}, Goto(r, s)
      PROVE  FaultInv'
  <2> DEFINE k == [run[r] EXCEPT !.step = s]
  <2>1. k.step = s /\ Becomes(r, k)
    BY <1>0, <1>1 DEF Goto, Runs
  <2> HIDE DEF k
  <2>2. QED
    BY <1>1, <2>1, FreshHolds, BecomesHolds
<1>2. CASE Becomes(r, [run[r] EXCEPT !.step = "down", !.at = 1])
  <2> DEFINE k == [run[r] EXCEPT !.step = "down", !.at = 1]
  <2>1. k.step = "down" /\ k.at = 1 /\ Becomes(r, k)
    BY <1>0, <1>2 DEF Runs
  <2> HIDE DEF k
  <2>2. Downed(r, admin', k.at - 1)
    BY <2>1, TargetLength DEF Downed
  <2>3. Holds(r, admin', k)
    BY <2>1, <2>2, FaultyHolds
  <2>4. QED
    BY <2>1, <2>3, BecomesHolds
<1>3. QED
  BY <1>1, <1>2, ExitHolds DEF Start, Baseline, BaselinePings

\* Injected, once the interface in hand is counted.
LEMMA InjectedHolds ==
  ASSUME NEW r \in Runners, NEW up, NEW j \in Runs,
         j.at \in 1..Len(Target[r]), j.active + j.faults = j.at,
         j.active = j.at => Downed(r, up, j.at),
         NEW k, k = Injected(r, j)
  PROVE  Holds(r, up, k)
<1> DEFINE n == Len(Target[r])
<1>0. n \in Nat /\ j.at \in Nat /\ j.active \in Nat /\ j.faults \in Nat
  BY TargetLength DEF Runs
<1>1. CASE j.at < n
  <2>1. k.step = "down" /\ k.at = j.at + 1 /\ k.active = j.active
    BY <1>1 DEF Injected, Runs
  <2>2. k.at - 1 = j.at
    BY <1>0, <2>1
  <2>3. QED
    BY <2>1, <2>2, FaultyHolds
<1>2. CASE j.at = n /\ j.active = n
  <2>1. k.step = "survive"
    BY <1>0, <1>2 DEF Injected, Runs
  <2>2. QED
    BY <1>2, <2>1, FaultyHolds
<1>3. CASE j.at = n /\ j.active # n
  <2>1. k.step = "up" /\ k.at = n /\ k.active = j.active
    BY <1>0, <1>3 DEF Injected, Runs
  <2>2. Lifted(r, up, k.at + 1)
    BY <2>1, LastLifted
  <2>3. QED
    BY <1>3, <2>1, <2>2, LiftingHolds DEF Vouched
<1>4. QED
  BY <1>0, <1>1, <1>2, <1>3

LEMMA InjectingHolds ==
  ASSUME Alone, Inv, FaultInv, NEW r \in Runners, SetDown(r) \/ CheckDown(r)
  PROVE  FaultInv'
<1> DEFINE n == Len(Target[r])
           j == run[r]
<1>0. n \in Nat /\ j \in Runs /\ admin \in [Links -> BOOLEAN] /\ Holds(r, admin, j)
      /\ Counted(n, j)
  BY TargetLength DEF Inv, TypeOK, FaultInv
<1>1. /\ j.step \in {"down", "checkDown"} /\ j.at \in 1..n
      /\ j.active + j.faults = j.at - 1
      /\ j.at \in Nat /\ j.active \in Nat /\ j.faults \in Nat
  BY <1>0 DEF SetDown, CheckDown, At, Counted, Runs
<1>2. Interface(r) \in Links
  BY <1>1, InterfaceIsLink
<1>3. UNCHANGED admin \/ SetDone(Interface(r), FALSE) \/ SetFailed(Interface(r), FALSE)
  BY DEF SetDown, CheckDown
<1>4. ASSUME j.active = j.at - 1 PROVE Downed(r, admin', j.at - 1)
  <2>1. Downed(r, admin, j.at - 1)
    BY <1>0, <1>1, <1>4 DEF Holds
  <2>2. CASE UNCHANGED admin
    BY <2>1, <2>2
  <2>3. CASE SetDone(Interface(r), FALSE) \/ SetFailed(Interface(r), FALSE)
    BY <1>0, <1>2, <2>1, <2>3, DownedKept
  <2>4. QED
    BY <1>3, <2>2, <2>3
<1>5. CASE SetDone(Interface(r), FALSE) /\ Goto(r, "checkDown")
  <2> DEFINE k == [j EXCEPT !.step = "checkDown"]
  <2>1. k.step = "checkDown" /\ k.at = j.at /\ k.active = j.active /\ Becomes(r, k)
    BY <1>0, <1>5 DEF Goto, Runs
  <2> HIDE DEF k
  <2>2. Holds(r, admin', k)
    BY <1>4, <2>1, FaultyHolds
  <2>3. QED
    BY <2>1, <2>2, BecomesHolds
<1>6. CASE Becomes(r, Injected(r, [j EXCEPT !.faults = @ + 1]))
  <2> DEFINE i == [j EXCEPT !.faults = @ + 1]
             k == Injected(r, i)
  <2>0. i \in Runs /\ i.at = j.at /\ i.active = j.active /\ i.faults = j.faults + 1
    BY <1>0 DEF Runs
  <2> HIDE DEF i
  <2>1. i.at \in 1..n /\ i.active + i.faults = i.at
    <3>1. i.active + i.faults = (j.active + j.faults) + 1
      BY <1>1, <2>0
    <3>2. QED
      BY <1>1, <2>0, <3>1
  <2>5. i.active # i.at
    BY <1>1, <2>0
  <2>2. Holds(r, admin', k)
    BY <2>0, <2>1, <2>5, InjectedHolds
  <2>3. Becomes(r, k)
    BY <1>6 DEF i
  <2>4. QED
    BY <2>2, <2>3, BecomesHolds
<1>7. CASE UNCHANGED admin /\ ~admin[Interface(r)]
           /\ Becomes(r, Injected(r, [j EXCEPT !.active = @ + 1]))
  <2> DEFINE i == [j EXCEPT !.active = @ + 1]
             k == Injected(r, i)
  <2>0. i \in Runs /\ i.at = j.at /\ i.active = j.active + 1 /\ i.faults = j.faults
    BY <1>0 DEF Runs
  <2>2. Becomes(r, k)
    BY <1>7
  <2> HIDE DEF i
  <2>1. i.at \in 1..n /\ i.active + i.faults = i.at
    BY <1>1, <2>0
  <2>3. ASSUME i.active = i.at PROVE Downed(r, admin', i.at)
    <3>1. Downed(r, admin', j.at - 1)
      BY <1>1, <1>4, <2>0, <2>1, <2>3
    <3>2. ~admin'[Target[r][j.at]]
      BY <1>7 DEF Interface
    <3>3. QED
      BY <1>0, <1>1, <2>0, <2>1, <3>1, <3>2 DEF Downed
  <2>4. Holds(r, admin', k)
    BY <2>0, <2>1, <2>3, InjectedHolds
  <2>5. QED
    BY <2>2, <2>4, BecomesHolds
<1>8. QED
  BY <1>5, <1>6, <1>7 DEF SetDown, CheckDown

LEMMA WaitingHolds ==
  ASSUME Alone, Inv, FaultInv, NEW r \in Runners, Poll(r) \/ Sleep(r) \/ Expire(r)
  PROVE  FaultInv'
<1> DEFINE n == Len(Target[r])
           j == run[r]
<1>0. n \in Nat /\ j \in Runs /\ Counted(n, j) /\ Holds(r, admin, j) /\ UNCHANGED admin
  BY TargetLength DEF Inv, TypeOK, FaultInv, Poll, Sleep, Expire
<1>1. /\ j.step \in {"survive", "sleep"} /\ j.at = n /\ j.active = n /\ j.faults = 0
      /\ Downed(r, admin', n)
  BY <1>0 DEF Poll, Sleep, Expire, At, Counted, Holds
<1>2. ASSUME NEW k, k.step \in {"survive", "sleep"}, Becomes(r, k)
      PROVE  FaultInv'
  BY <1>1, <1>2, FaultyHolds, BecomesHolds
<1>3. ASSUME NEW k, k.step = "up", k.at = n, k.survival # "none" \/ k.faults # 0,
             Becomes(r, k)
      PROVE  FaultInv'
  <2>1. Lifted(r, admin', k.at + 1)
    BY <1>3, LastLifted
  <2>2. Holds(r, admin', k)
    BY <1>3, <2>1, LiftingHolds DEF Vouched
  <2>3. QED
    BY <1>3, <2>2, BecomesHolds
<1>4. CASE Sleep(r) \/ Expire(r) \/ (Poll(r) /\ Goto(r, "sleep"))
  <2>1. CASE \E s \in {"survive", "sleep"} : Goto(r, s)
    <3>1. PICK s \in {"survive", "sleep"} : Goto(r, s)
      BY <2>1
    <3> DEFINE k == [j EXCEPT !.step = s]
    <3>2. k.step \in {"survive", "sleep"} /\ Becomes(r, k)
      BY <1>0, <3>1 DEF Goto, Runs
    <3> HIDE DEF k
    <3>3. QED
      BY <1>2, <3>2
  <2>2. CASE Expire(r)
    <3> DEFINE k == [j EXCEPT !.expired = TRUE]
    <3>1. k.step \in {"survive", "sleep"} /\ Becomes(r, k)
      BY <1>0, <1>1, <2>2 DEF Expire, Runs
    <3> HIDE DEF k
    <3>2. QED
      BY <1>2, <3>1
  <2>3. QED
    BY <1>4, <2>1, <2>2 DEF Sleep
<1>5. ASSUME NEW k, Becomes(r, k),
             \/ k = [j EXCEPT !.survival = "passed", !.step = "up"]
             \/ k = [j EXCEPT !.survival = "failed", !.step = "up"]
             \/ k = [j EXCEPT !.faults = @ + 1, !.step = "up"]
      PROVE  FaultInv'
  <2>1. k.step = "up" /\ k.at = n /\ (k.survival # "none" \/ k.faults # 0)
    <3>1. CASE k = [j EXCEPT !.survival = "passed", !.step = "up"]
      BY <1>0, <1>1, <3>1 DEF Runs
    <3>2. CASE k = [j EXCEPT !.survival = "failed", !.step = "up"]
      BY <1>0, <1>1, <3>2 DEF Runs
    <3>3. CASE k = [j EXCEPT !.faults = @ + 1, !.step = "up"]
      <4>1. k.step = "up" /\ k.at = j.at /\ k.faults = j.faults + 1
        BY <1>0, <3>3 DEF Runs
      <4>2. k.faults # 0
        BY <1>1, <4>1
      <4>3. QED
        BY <1>1, <4>1, <4>2
    <3>4. QED
      BY <1>5, <3>1, <3>2, <3>3
  <2>2. QED
    BY <1>3, <1>5, <2>1
<1>6. QED
  BY <1>4, <1>5 DEF Poll

\* Restored, once the interface in hand is counted.
LEMMA RestoredHolds ==
  ASSUME NEW r \in Runners, NEW up, NEW j \in Runs,
         j.at \in 1..Len(Target[r]), Vouched(r, j),
         j.broken = 0 => Lifted(r, up, j.at),
         NEW k, k = Restored(r, j)
  PROVE  Holds(r, up, k)
<1>0. j.at \in Nat
  BY DEF Runs
<1>1. CASE j.at > 1
  <2>1. /\ k.step = "up" /\ k.at = j.at - 1 /\ k.broken = j.broken
        /\ k.raising = j.raising /\ k.active = j.active /\ k.faults = j.faults
        /\ k.survival = j.survival
    BY <1>1 DEF Restored, Runs
  <2>2. k.at + 1 = j.at
    BY <1>0, <2>1
  <2>3. Vouched(r, k)
    BY <2>1 DEF Vouched
  <2>4. QED
    BY <2>1, <2>2, <2>3, LiftingHolds
<1>2. CASE j.at = 1 /\ j.raising
  <2>1. k.step = "idle"
    BY <1>2 DEF Restored, Fresh
  <2>2. QED
    BY <2>1, FreshHolds
<1>3. CASE j.at = 1 /\ ~j.raising
  <2>1. /\ k.step = "recover" /\ k.broken = j.broken
        /\ k.raising = j.raising /\ k.active = j.active /\ k.faults = j.faults
        /\ k.survival = j.survival
    BY <1>3 DEF Restored, Runs
  <2>2. Vouched(r, k)
    BY <2>1 DEF Vouched
  <2>3. QED
    BY <1>3, <2>1, <2>2, LiftingHolds
<1>4. QED
  BY <1>0, <1>1, <1>2, <1>3

LEMMA RestoringHolds ==
  ASSUME Alone, Inv, FaultInv, NEW r \in Runners, SetUp(r) \/ CheckUp(r)
  PROVE  FaultInv'
<1> DEFINE n == Len(Target[r])
           j == run[r]
<1>0. n \in Nat /\ j \in Runs /\ admin \in [Links -> BOOLEAN] /\ Holds(r, admin, j)
      /\ Counted(n, j)
  BY TargetLength DEF Inv, TypeOK, FaultInv
<1>1. /\ j.step \in {"up", "checkUp"} /\ j.at \in 1..n /\ j.at \in Nat /\ j.broken \in Nat
  BY <1>0 DEF SetUp, CheckUp, At, Counted, Runs
<1>2. Interface(r) \in Links
  BY <1>1, InterfaceIsLink
<1>v. Vouched(r, j)
  BY <1>0, <1>1 DEF Holds, Returning, Vouched
<1>3. UNCHANGED admin \/ SetDone(Interface(r), TRUE) \/ SetFailed(Interface(r), TRUE)
  BY DEF SetUp, CheckUp
<1>4. ASSUME j.broken = 0 PROVE Lifted(r, admin', j.at + 1)
  <2>1. Lifted(r, admin, j.at + 1)
    BY <1>0, <1>1, <1>4 DEF Holds
  <2>2. CASE UNCHANGED admin
    BY <2>1, <2>2
  <2>3. CASE SetDone(Interface(r), TRUE) \/ SetFailed(Interface(r), TRUE)
    BY <1>0, <1>2, <2>1, <2>3, LiftedKept
  <2>4. QED
    BY <1>3, <2>2, <2>3
<1>5. CASE SetDone(Interface(r), TRUE) /\ Goto(r, "checkUp")
  <2> DEFINE k == [j EXCEPT !.step = "checkUp"]
  <2>1. /\ k.step = "checkUp" /\ k.at = j.at /\ k.broken = j.broken
        /\ k.raising = j.raising /\ k.active = j.active /\ k.faults = j.faults
        /\ k.survival = j.survival
    BY <1>0 DEF Runs
  <2>2. Becomes(r, k)
    BY <1>5 DEF Goto
  <2> HIDE DEF k
  <2>3. Vouched(r, k)
    BY <1>v, <2>1 DEF Vouched
  <2>4. Holds(r, admin', k)
    BY <1>4, <2>1, <2>3, LiftingHolds
  <2>5. QED
    BY <2>2, <2>4, BecomesHolds
<1>6. ASSUME NEW i \in Runs, Becomes(r, Restored(r, i)), i.at = j.at, Vouched(r, i),
             i.broken = 0 => Lifted(r, admin', j.at)
      PROVE  FaultInv'
  <2>1. Holds(r, admin', Restored(r, i))
    BY <1>1, <1>6, RestoredHolds
  <2>2. QED
    BY <1>6, <2>1, BecomesHolds
<1>7. CASE Becomes(r, Restored(r, [j EXCEPT !.broken = @ + 1]))
  <2> DEFINE i == [j EXCEPT !.broken = @ + 1]
  <2>1. /\ i \in Runs /\ i.at = j.at /\ i.broken = j.broken + 1
        /\ i.raising = j.raising /\ i.active = j.active /\ i.faults = j.faults
        /\ i.survival = j.survival
    BY <1>0 DEF Runs
  <2>2. Becomes(r, Restored(r, i))
    BY <1>7
  <2> HIDE DEF i
  <2>3. i.broken # 0 /\ Vouched(r, i)
    BY <1>1, <1>v, <2>1 DEF Vouched
  <2>4. QED
    BY <1>6, <2>1, <2>2, <2>3
<1>8. CASE UNCHANGED admin /\ admin[Interface(r)]
           /\ Becomes(r, Restored(r, [j EXCEPT !.restored = @ + 1]))
  <2> DEFINE i == [j EXCEPT !.restored = @ + 1]
  <2>1. /\ i \in Runs /\ i.at = j.at /\ i.broken = j.broken
        /\ i.raising = j.raising /\ i.active = j.active /\ i.faults = j.faults
        /\ i.survival = j.survival
    BY <1>0 DEF Runs
  <2>2. Becomes(r, Restored(r, i))
    BY <1>8
  <2> HIDE DEF i
  <2>3. Vouched(r, i)
    BY <1>v, <2>1 DEF Vouched
  <2>4. ASSUME i.broken = 0 PROVE Lifted(r, admin', j.at)
    <3>1. Lifted(r, admin', j.at + 1)
      BY <1>4, <2>1, <2>4
    <3>2. admin'[Target[r][j.at]]
      BY <1>8 DEF Interface
    <3>3. QED
      BY <1>0, <1>1, <3>1, <3>2 DEF Lifted
  <2>5. QED
    BY <1>6, <2>1, <2>2, <2>3, <2>4
<1>9. QED
  BY <1>5, <1>7, <1>8 DEF SetUp, CheckUp

LEMMA RecoveringHolds ==
  ASSUME Alone, Inv, FaultInv, NEW r \in Runners, Recover(r) \/ RecoverPings(r)
  PROVE  FaultInv'
<1> DEFINE j == run[r]
<1>0. j \in Runs /\ Holds(r, admin, j) /\ UNCHANGED admin
  BY DEF Inv, TypeOK, FaultInv, Recover, RecoverPings
<1>1. j.step \in {"recover", "recoverPings"}
  BY DEF Recover, RecoverPings, At
<1>2. Vouched(r, j) /\ (j.broken = 0 => Lifted(r, admin', 1))
  BY <1>0, <1>1 DEF Holds, Returning, Vouched
<1>3. ASSUME NEW k, Becomes(r, k),
             \/ k = [j EXCEPT !.step = "recoverPings"]
             \/ k = [j EXCEPT !.step = "report"]
             \/ \E b \in BOOLEAN : k = [j EXCEPT !.recovered = b, !.step = "report"]
      PROVE  FaultInv'
  <2>1. /\ k.step \in {"recoverPings", "report"} /\ k.broken = j.broken
        /\ k.raising = j.raising /\ k.active = j.active /\ k.faults = j.faults
        /\ k.survival = j.survival
    BY <1>0, <1>3 DEF Runs
  <2>2. Vouched(r, k)
    BY <1>2, <2>1 DEF Vouched
  <2>3. Holds(r, admin', k)
    BY <1>2, <2>1, <2>2, LiftingHolds
  <2>4. QED
    BY <1>3, <2>3, BecomesHolds
<1>4. CASE Recover(r)
  BY <1>3, <1>4 DEF Recover, Goto
<1>5. CASE RecoverPings(r)
  <2>1. PICK b \in BOOLEAN : Becomes(r, [j EXCEPT !.recovered = b, !.step = "report"])
    BY <1>5 DEF RecoverPings
  <2>2. QED
    BY <1>3, <2>1
<1>6. QED
  BY <1>4, <1>5

LEMMA InterruptHolds ==
  ASSUME Alone, Inv, FaultInv, NEW r \in Runners, Interrupt(r)
  PROVE  FaultInv'
<1> DEFINE n == Len(Target[r])
           k == [run[r] EXCEPT !.raising = TRUE, !.step = "up", !.at = n]
<1>0. run[r] \in Runs
  BY DEF Inv, TypeOK
<1>1. CASE Becomes(r, k)
  <2>1. k.step = "up" /\ k.at = n /\ k.raising
    BY <1>0 DEF Runs
  <2>2. Becomes(r, k)
    BY <1>1
  <2> HIDE DEF k
  <2>3. Lifted(r, admin', k.at + 1)
    BY <2>1, LastLifted
  <2>4. Holds(r, admin', k)
    BY <2>1, <2>3, LiftingHolds DEF Vouched
  <2>5. QED
    BY <2>2, <2>4, BecomesHolds
<1>2. CASE Exit(r)
  BY <1>2, ExitHolds
<1>3. QED
  BY <1>1, <1>2 DEF Interrupt

LEMMA FaultInductive ==
  ASSUME Alone
  PROVE  Spec => []FaultInv
<1>1. Init => FaultInv
  <2>1. SUFFICES ASSUME Init, NEW r \in Runners PROVE Holds(r, admin, run[r])
    BY DEF FaultInv
  <2>2. run[r].step = "idle"
    BY <2>1 DEF Init, Fresh
  <2>3. QED
    BY <2>2, FreshHolds
<1>2. ASSUME Inv, FaultInv, [Next]_vars
      PROVE  FaultInv'
  <2>1. CASE \E r \in Runners : Start(r) \/ Step(r) \/ Expire(r) \/ Interrupt(r)
    <3>1. PICK r \in Runners : Start(r) \/ Step(r) \/ Expire(r) \/ Interrupt(r)
      BY <2>1
    <3>2. CASE WriteReport(r)
      BY <1>2, <3>2, ExitHolds DEF WriteReport
    <3>3. QED
      BY <1>2, <3>1, <3>2, StartingHolds, InjectingHolds, WaitingHolds, RestoringHolds,
         RecoveringHolds, InterruptHolds DEF Step
  <2>2. CASE (\E l \in Links : Converge(l)) \/ UNCHANGED vars
    <3>1. UNCHANGED <<admin, run>>
      BY <2>2 DEF Converge, vars
    <3>2. QED
      BY <1>2, <3>1 DEF FaultInv
  <2>3. QED
    BY <1>2, <2>1, <2>2 DEF Next
<1>3. Spec => []Inv
  BY InvInductive
<1>4. QED
  BY <1>1, <1>2, <1>3, PTL DEF Spec

-----------------------------------------------------------------------------
(* The theorems.                                                           *)

\* Survival is proved under the fault: when a scenario that runs alone accepts
\* a poll, each of its target interfaces is down.
THEOREM SurvivalHolds ==
  ASSUME Alone
  PROVE  Spec => SurvivalUnderFault
<1> DEFINE Accepted(r) == At(r, "survive") /\ run'[r].survival = "passed"
                            => \A l \in TargetSet(r) : ~admin[l]
<1>1. ASSUME Inv, FaultInv, [Next]_vars, NEW r \in Runners
      PROVE  Accepted(r)
  <2>1. SUFFICES ASSUME At(r, "survive") PROVE \A l \in TargetSet(r) : ~admin[l]
    OBVIOUS
  <2>2. Downed(r, admin, Len(Target[r]))
    BY <1>1, <2>1 DEF FaultInv, Holds, At
  <2>3. QED
    BY <2>2, TargetLength DEF Downed, TargetSet
<1>2. ASSUME Inv, FaultInv, [Next]_vars
      PROVE  [\A r \in Runners : Accepted(r)]_vars
  BY <1>1, <1>2
<1>3. Spec => []Inv
  BY InvInductive
<1>4. QED
  BY <1>2, <1>3, FaultInductive, PTL DEF Spec, SurvivalUnderFault

\* A passing report of a scenario that runs alone rests on an accepted poll,
\* and leaves each of its target interfaces up.
THEOREM PassedHolds ==
  ASSUME Alone
  PROVE  Spec => []PassedMeansProven
<1>1. ASSUME Inv, FaultInv, NEW r \in Runners, At(r, "report"), Passing(r)
      PROVE  run[r].survival = "passed" /\ \A l \in TargetSet(r) : admin[l]
  <2> DEFINE n == Len(Target[r])
             j == run[r]
  <2>0. n \in Nat /\ j \in Runs /\ Counted(n, j) /\ Holds(r, admin, j) /\ j.step = "report"
        /\ j.active \in Nat /\ j.faults \in Nat /\ j.restored \in Nat /\ j.broken \in Nat
    BY <1>1, TargetLength DEF Inv, TypeOK, FaultInv, At, Runs
  <2>1. ~j.raising /\ (j.active = n \/ j.faults > 0) /\ j.active <= n
    BY <2>0 DEF Counted
  <2>2. j.broken = 0
    BY <1>1 DEF Passing, Successful, After
  <2>3. CASE j.survival = "none"
    <3>1. During(r).expected = n + 0 /\ During(r).passed = j.active + 0
          /\ During(r).findings = j.faults + 0
      BY <2>3 DEF During
    <3>2. j.active = n /\ j.faults = 0
      BY <1>1, <2>0, <3>1 DEF Passing, Successful
    <3>3. QED
      BY <2>0, <2>1, <2>3, <3>2 DEF Holds, Returning
  <2>4. CASE j.survival = "failed"
    <3>1. During(r).findings = j.faults + 1
      BY <2>4 DEF During
    <3>2. QED
      BY <1>1, <2>0, <3>1 DEF Passing, Successful
  <2>5. j.survival = "passed"
    BY <2>0, <2>3, <2>4 DEF Runs
  <2>6. Lifted(r, admin, 1)
    BY <2>0, <2>2 DEF Holds
  <2>7. QED
    BY <2>5, <2>6 DEF Lifted, TargetSet
<1>2. Inv /\ FaultInv => PassedMeansProven
  BY <1>1 DEF PassedMeansProven
<1>3. Spec => []Inv
  BY InvInductive
<1>4. QED
  BY <1>2, <1>3, FaultInductive, PTL

-----------------------------------------------------------------------------
(* Runs that may overlap, and are not interrupted.                         *)

\* What a run, or its report, has to say of a target that is down: it still
\* has to lift it, or has counted that it could not.
Owes(r, l, j, report) ==
  /\ j.step \in {"idle", "baseline", "baselinePings"} => report # NoReport /\ ~report.restored
  /\ j.step \in {"up", "checkUp"} => j.broken # 0 \/ \E i \in 1..j.at : Target[r][i] = l
  /\ j.step \in {"recover", "recoverPings", "report"} => j.broken # 0

\* Whatever is down is some run's to speak of.
DebtInv ==
  /\ \A r \in Runners : ~run[r].raising
  /\ \A l \in Links : ~admin[l] =>
       \E r \in Runners : l \in TargetSet(r) /\ Owes(r, l, run[r], reports[r])

\* A step of r that goes on owing what r owed, and what it takes down.
LEMMA DebtStep ==
  ASSUME Inv, DebtInv, NEW r \in Runners, NEW k, Becomes(r, k), ~k.raising,
         \A q \in Runners \ {r} : reports'[q] = reports[q],
         \A l \in TargetSet(r) : ~admin'[l] /\ (admin[l] \/ Owes(r, l, run[r], reports[r]))
                                   => Owes(r, l, k, reports'[r]),
         \A l \in Links \ TargetSet(r) : ~admin'[l] => ~admin[l]
  PROVE  DebtInv'
<1>1. run'[r] = k /\ \A q \in Runners \ {r} : run'[q] = run[q]
  BY DEF Becomes, Inv, TypeOK
<1>2. ASSUME NEW l \in Links, ~admin'[l]
      PROVE  \E q \in Runners : l \in TargetSet(q) /\ Owes(q, l, run'[q], reports'[q])
  <2>1. CASE admin[l]
    BY <1>1, <1>2, <2>1
  <2>2. CASE ~admin[l]
    <3>1. PICK q \in Runners : l \in TargetSet(q) /\ Owes(q, l, run[q], reports[q])
      BY <2>2 DEF DebtInv
    <3>2. CASE q = r
      BY <1>1, <1>2, <3>1, <3>2
    <3>3. CASE q # r
      BY <1>1, <3>1, <3>3
    <3>4. QED
      BY <3>2, <3>3
  <2>3. QED
    BY <2>1, <2>2
<1>3. \A q \in Runners : ~run'[q].raising
  BY <1>1 DEF DebtInv
<1>4. QED
  BY <1>2, <1>3 DEF DebtInv, TargetSet

\* A run that still has all its targets to lift owes each of them.
Loaded(r, k) ==
  \/ k.step \in {"down", "checkDown", "survive", "sleep"}
  \/ k.step \in {"up", "checkUp"} /\ k.at = Len(Target[r])

LEMMA LoadedOwes ==
  ASSUME NEW r \in Runners, NEW k, Loaded(r, k), NEW l \in TargetSet(r), NEW report
  PROVE  Owes(r, l, k, report)
BY DEF Loaded, TargetSet, Owes

LEMMA LoadedDebt ==
  ASSUME Inv, DebtInv, NEW r \in Runners, NEW k, Becomes(r, k), ~k.raising, Loaded(r, k),
         UNCHANGED reports,
         \A l \in Links \ TargetSet(r) : ~admin'[l] => ~admin[l]
  PROVE  DebtInv'
BY LoadedOwes, DebtStep

LEMMA StartingDebt ==
  ASSUME Inv, DebtInv, NEW r \in Runners, Start(r) \/ Baseline(r) \/ BaselinePings(r)
  PROVE  DebtInv'
<1>0. /\ run[r] \in Runs /\ ~run[r].raising /\ UNCHANGED <<admin, reports>>
      /\ run[r].step \in {"idle", "baseline", "baselinePings"}
  BY DEF Inv, TypeOK, DebtInv, Start, Baseline, BaselinePings, At
<1>1. ASSUME NEW k, Becomes(r, k), ~k.raising, k.step \in {"idle", "baseline", "baselinePings"}
      PROVE  DebtInv'
  <2>1. ASSUME NEW l \in TargetSet(r), Owes(r, l, run[r], reports[r])
        PROVE  Owes(r, l, k, reports'[r])
    BY <1>0, <1>1, <2>1 DEF Owes
  <2>2. QED
    BY <1>0, <1>1, <2>1, DebtStep
<1>2. ASSUME NEW s \in {"baseline", "baselinePings"}, Goto(r, s)
      PROVE  DebtInv'
  <2> DEFINE k == [run[r] EXCEPT !.step = s]
  <2>1. Becomes(r, k) /\ ~k.raising /\ k.step = s
    BY <1>0, <1>2 DEF Goto, Runs
  <2> HIDE DEF k
  <2>2. QED
    BY <1>1, <2>1
<1>3. CASE Exit(r)
  <2>1. Becomes(r, Fresh) /\ ~Fresh.raising /\ Fresh.step = "idle"
    BY <1>3 DEF Exit, Fresh
  <2>2. QED
    BY <1>1, <2>1
<1>4. CASE Becomes(r, [run[r] EXCEPT !.step = "down", !.at = 1])
  <2> DEFINE k == [run[r] EXCEPT !.step = "down", !.at = 1]
  <2>1. Becomes(r, k) /\ ~k.raising /\ k.step = "down"
    BY <1>0, <1>4 DEF Runs
  <2> HIDE DEF k
  <2>2. QED
    BY <1>0, <2>1, LoadedDebt DEF Loaded
<1>5. QED
  BY <1>2, <1>3, <1>4 DEF Start, Baseline, BaselinePings

\* Only targets are set.
LEMMA SetsTargets ==
  ASSUME Inv, NEW r \in Runners, run[r].at \in 1..Len(Target[r]), NEW up \in BOOLEAN,
         UNCHANGED admin \/ SetDone(Interface(r), up) \/ SetFailed(Interface(r), up)
  PROVE  /\ \A l \in Links \ TargetSet(r) : ~admin'[l] => ~admin[l]
         /\ up => \A l \in Links : ~admin'[l] => ~admin[l]
<1>1. Interface(r) \in TargetSet(r) /\ Interface(r) \in Links
  BY InterfaceIsLink DEF Interface, TargetSet
<1>2. admin \in [Links -> BOOLEAN]
  BY DEF Inv, TypeOK
<1>3. \A l \in Links \ {Interface(r)} : admin'[l] = admin[l]
  BY <1>1, <1>2 DEF SetDone, SetFailed
<1>4. up => admin'[Interface(r)] \/ admin'[Interface(r)] = admin[Interface(r)]
  BY <1>1, <1>2 DEF SetDone, SetFailed
<1>5. QED
  BY <1>1, <1>3, <1>4

LEMMA InjectedLoaded ==
  ASSUME NEW r \in Runners, NEW j \in Runs, j.at \in 1..Len(Target[r]), ~j.raising
  PROVE  Loaded(r, Injected(r, j)) /\ ~Injected(r, j).raising
<1>0. Len(Target[r]) \in Nat
  BY TargetLength
<1>1. CASE j.at < Len(Target[r])
  BY <1>1 DEF Injected, Loaded, Runs
<1>2. CASE j.at = Len(Target[r]) /\ j.active = Len(Target[r])
  BY <1>0, <1>2 DEF Injected, Loaded, Runs
<1>3. CASE j.at = Len(Target[r]) /\ j.active # Len(Target[r])
  BY <1>0, <1>3 DEF Injected, Loaded, Runs
<1>4. QED
  BY <1>0, <1>1, <1>2, <1>3

LEMMA InjectingDebt ==
  ASSUME Inv, DebtInv, NEW r \in Runners, SetDown(r) \/ CheckDown(r)
  PROVE  DebtInv'
<1> DEFINE j == run[r]
<1>0. j \in Runs /\ ~j.raising /\ j.at \in 1..Len(Target[r]) /\ UNCHANGED reports
  BY DEF Inv, TypeOK, DebtInv, SetDown, CheckDown, At
<1>1. \A l \in Links \ TargetSet(r) : ~admin'[l] => ~admin[l]
  BY <1>0, SetsTargets DEF SetDown, CheckDown
<1>2. ASSUME Goto(r, "checkDown") PROVE DebtInv'
  <2> DEFINE k == [j EXCEPT !.step = "checkDown"]
  <2>1. Becomes(r, k) /\ ~k.raising /\ k.step = "checkDown"
    BY <1>0, <1>2 DEF Goto, Runs
  <2> HIDE DEF k
  <2>2. QED
    BY <1>0, <1>1, <2>1, LoadedDebt DEF Loaded
<1>3. ASSUME NEW i, Becomes(r, Injected(r, i)),
             \/ i = [j EXCEPT !.faults = @ + 1]
             \/ i = [j EXCEPT !.active = @ + 1]
      PROVE  DebtInv'
  <2>1. i \in Runs /\ i.at = j.at /\ ~i.raising
    BY <1>0, <1>3 DEF Runs
  <2>2. Loaded(r, Injected(r, i)) /\ ~Injected(r, i).raising
    BY <1>0, <2>1, InjectedLoaded
  <2>3. QED
    BY <1>0, <1>1, <1>3, <2>2, LoadedDebt
<1>4. QED
  BY <1>2, <1>3 DEF SetDown, CheckDown

LEMMA WaitingDebt ==
  ASSUME Inv, DebtInv, NEW r \in Runners, Poll(r) \/ Sleep(r) \/ Expire(r)
  PROVE  DebtInv'
<1> DEFINE j == run[r]
<1>0. /\ j \in Runs /\ ~j.raising /\ UNCHANGED <<admin, reports>>
      /\ j.step \in {"survive", "sleep"} /\ j.at = Len(Target[r])
  <2>1. Counted(Len(Target[r]), j)
    BY DEF Inv
  <2>2. QED
    BY <2>1 DEF Inv, TypeOK, DebtInv, Poll, Sleep, Expire, At, Counted
<1>1. ASSUME NEW k, Becomes(r, k),
             \/ k = [j EXCEPT !.survival = "passed", !.step = "up"]
             \/ k = [j EXCEPT !.survival = "failed", !.step = "up"]
             \/ k = [j EXCEPT !.faults = @ + 1, !.step = "up"]
             \/ k = [j EXCEPT !.step = "sleep"]
             \/ k = [j EXCEPT !.step = "survive"]
             \/ k = [j EXCEPT !.expired = TRUE]
      PROVE  DebtInv'
  <2>1. /\ ~k.raising /\ k.at = Len(Target[r])
        /\ k.step \in {"up", "survive", "sleep"}
    BY <1>0, <1>1 DEF Runs
  <2>2. QED
    BY <1>0, <1>1, <2>1, LoadedDebt DEF Loaded
<1>2. QED
  BY <1>1 DEF Poll, Sleep, Expire, Goto

\* Restored, once the interface in hand is counted: those before it are owed.
LEMMA RestoredOwes ==
  ASSUME NEW r \in Runners, NEW j \in Runs, j.at \in 1..Len(Target[r]), ~j.raising,
         NEW l, j.broken # 0 \/ \E i \in 1..(j.at - 1) : Target[r][i] = l, NEW report
  PROVE  Owes(r, l, Restored(r, j), report)
<1>0. j.at \in Nat /\ j.broken \in Nat
  BY DEF Runs
<1>1. CASE j.at > 1
  <2>1. /\ Restored(r, j).step = "up" /\ Restored(r, j).at = j.at - 1
        /\ Restored(r, j).broken = j.broken
    BY <1>1 DEF Restored, Runs
  <2>2. QED
    BY <2>1 DEF Owes
<1>2. CASE j.at = 1
  <2>1. Restored(r, j).step = "recover" /\ Restored(r, j).broken = j.broken
    BY <1>2 DEF Restored, Runs
  <2>2. j.broken # 0
    BY <1>2
  <2>3. QED
    BY <2>1, <2>2 DEF Owes
<1>3. QED
  BY <1>0, <1>1, <1>2

LEMMA RestoredCalm ==
  ASSUME NEW r \in Runners, NEW j \in Runs, j.at \in 1..Len(Target[r]), ~j.raising
  PROVE  ~Restored(r, j).raising
<1>1. CASE j.at > 1
  BY <1>1 DEF Restored, Runs
<1>2. CASE j.at = 1
  BY <1>2 DEF Restored, Runs
<1>3. QED
  BY <1>1, <1>2 DEF Runs

LEMMA RestoringDebt ==
  ASSUME Inv, DebtInv, NEW r \in Runners, SetUp(r) \/ CheckUp(r)
  PROVE  DebtInv'
<1> DEFINE j == run[r]
<1>0. /\ j \in Runs /\ ~j.raising /\ j.at \in 1..Len(Target[r]) /\ UNCHANGED reports
      /\ j.step \in {"up", "checkUp"} /\ j.at \in Nat /\ j.broken \in Nat
  BY DEF Inv, TypeOK, DebtInv, SetUp, CheckUp, At, Runs
<1>1. \A l \in Links : ~admin'[l] => ~admin[l]
  BY <1>0, SetsTargets DEF SetUp, CheckUp
<1>2. TargetSet(r) \subseteq Links
  BY TargetAssumption DEF TargetSet
<1>3. ASSUME NEW k, Becomes(r, k), ~k.raising,
             \A l \in TargetSet(r) : ~admin'[l] /\ Owes(r, l, j, reports[r])
                                       => Owes(r, l, k, reports[r])
      PROVE  DebtInv'
  BY <1>0, <1>1, <1>2, <1>3, DebtStep
<1>4. CASE Goto(r, "checkUp")
  <2> DEFINE k == [j EXCEPT !.step = "checkUp"]
  <2>1. Becomes(r, k) /\ ~k.raising /\ k.step = "checkUp" /\ k.at = j.at /\ k.broken = j.broken
    BY <1>0, <1>4 DEF Goto, Runs
  <2> HIDE DEF k
  <2>2. \A l : Owes(r, l, j, reports[r]) => Owes(r, l, k, reports[r])
    BY <1>0, <2>1 DEF Owes
  <2>3. QED
    BY <1>3, <2>1, <2>2
<1>5. CASE Becomes(r, Restored(r, [j EXCEPT !.broken = @ + 1]))
  <2> DEFINE i == [j EXCEPT !.broken = @ + 1]
  <2>1. /\ i \in Runs /\ i.at = j.at /\ i.broken = j.broken + 1 /\ ~i.raising
        /\ Becomes(r, Restored(r, i))
    BY <1>0, <1>5 DEF Runs
  <2> HIDE DEF i
  <2>2. i.broken # 0
    BY <1>0, <2>1
  <2>3. QED
    BY <1>0, <1>3, <2>1, <2>2, RestoredOwes, RestoredCalm
<1>6. CASE UNCHANGED admin /\ admin[Interface(r)]
           /\ Becomes(r, Restored(r, [j EXCEPT !.restored = @ + 1]))
  <2> DEFINE i == [j EXCEPT !.restored = @ + 1]
  <2>1. /\ i \in Runs /\ i.at = j.at /\ i.broken = j.broken /\ ~i.raising
        /\ Becomes(r, Restored(r, i))
    BY <1>0, <1>6 DEF Runs
  <2> HIDE DEF i
  <2>2. ASSUME NEW l \in TargetSet(r), ~admin'[l], Owes(r, l, j, reports[r])
        PROVE  Owes(r, l, Restored(r, i), reports[r])
    <3>1. l # Target[r][j.at]
      BY <1>6, <2>2 DEF Interface
    <3>2. j.broken # 0 \/ \E x \in 1..j.at : Target[r][x] = l
      BY <1>0, <2>2 DEF Owes
    <3>3. j.broken # 0 \/ \E x \in 1..(j.at - 1) : Target[r][x] = l
      BY <1>0, <3>1, <3>2
    <3>4. QED
      BY <1>0, <2>1, <3>3, RestoredOwes
  <2>3. QED
    BY <1>0, <1>3, <2>1, <2>2, RestoredCalm
<1>7. QED
  BY <1>4, <1>5, <1>6 DEF SetUp, CheckUp

LEMMA RecoveringDebt ==
  ASSUME Inv, DebtInv, NEW r \in Runners, Recover(r) \/ RecoverPings(r)
  PROVE  DebtInv'
<1> DEFINE j == run[r]
<1>0. /\ j \in Runs /\ ~j.raising /\ UNCHANGED <<admin, reports>>
      /\ j.step \in {"recover", "recoverPings"}
  BY DEF Inv, TypeOK, DebtInv, Recover, RecoverPings, At
<1>1. ASSUME NEW k, Becomes(r, k),
             \/ k = [j EXCEPT !.step = "recoverPings"]
             \/ k = [j EXCEPT !.step = "report"]
             \/ \E b \in BOOLEAN : k = [j EXCEPT !.recovered = b, !.step = "report"]
      PROVE  DebtInv'
  <2>1. k.step \in {"recoverPings", "report"} /\ k.broken = j.broken /\ ~k.raising
    BY <1>0, <1>1 DEF Runs
  <2>2. \A l : Owes(r, l, j, reports[r]) => Owes(r, l, k, reports'[r])
    BY <1>0, <2>1 DEF Owes
  <2>3. QED
    BY <1>0, <1>1, <2>1, <2>2, DebtStep
<1>2. CASE RecoverPings(r)
  <2>1. PICK b \in BOOLEAN : Becomes(r, [j EXCEPT !.recovered = b, !.step = "report"])
    BY <1>2 DEF RecoverPings
  <2>2. QED
    BY <1>1, <2>1
<1>3. QED
  BY <1>1, <1>2 DEF Recover, Goto

\* What is owed at the end is said in the report, which can be written.
LEMMA ReportingDebt ==
  ASSUME Inv, DebtInv, ReportWritable, NEW r \in Runners, WriteReport(r)
  PROVE  DebtInv'
<1>1. At(r, "report") /\ Writable(r) /\ UNCHANGED admin /\ Becomes(r, Fresh)
  BY DEF WriteReport, ReportWritable, Exit
<1> DEFINE w == [during |-> Successful(During(r)), restored |-> Successful(After(r)),
                 recovered |-> run[r].recovered]
<1>2. reports' = [reports EXCEPT ![r] = w] /\ reports \in [Runners -> Reports \cup {NoReport}]
  BY <1>1 DEF WriteReport, Inv, TypeOK
<1>3. w \in Reports
  <2>1. run[r].recovered \in BOOLEAN
    BY DEF Inv, TypeOK, Runs
  <2>2. QED
    BY <2>1 DEF Reports, Successful
<1>4. w # NoReport
  BY <1>3, ReportAssumption
<1>5. run[r].broken # 0 => ~w.restored
  BY DEF Successful, After
<1> HIDE DEF w
<1>6. Fresh.step = "idle" /\ ~Fresh.raising
  BY DEF Fresh
<1>7. ASSUME NEW l \in TargetSet(r), Owes(r, l, run[r], reports[r])
      PROVE  Owes(r, l, Fresh, reports'[r])
  BY <1>1, <1>2, <1>4, <1>5, <1>6, <1>7 DEF Owes, At
<1>8. QED
  BY <1>1, <1>2, <1>6, <1>7, DebtStep

\* However many scenarios overlap and whatever fails in them: once all have
\* ended without an interrupt, a target that is down is one that the latest
\* report of a run says was not restored.
THEOREM LeftDownHolds ==
  ASSUME MaxInterrupts = 0
  PROVE  Spec => []LeftDownIsReported
<1>1. Init => DebtInv
  BY DEF Init, DebtInv, Fresh
<1>2. ASSUME Inv, DebtInv, ReportWritable, [Next]_vars
      PROVE  DebtInv'
  <2>1. ASSUME NEW r \in Runners, Start(r) \/ Step(r) \/ Expire(r)
        PROVE  DebtInv'
    BY <1>2, <2>1, StartingDebt, InjectingDebt, WaitingDebt, RestoringDebt, RecoveringDebt,
       ReportingDebt DEF Step
  <2>2. ASSUME NEW r \in Runners PROVE ~Interrupt(r)
    <3>1. interrupts \in 0..MaxInterrupts
      BY <1>2 DEF Inv, TypeOK
    <3>2. QED
      BY <3>1 DEF Interrupt
  <2>3. CASE (\E l \in Links : Converge(l)) \/ UNCHANGED vars
    <3>1. UNCHANGED <<admin, run, reports>>
      BY <2>3 DEF Converge, vars
    <3>2. QED
      BY <1>2, <3>1 DEF DebtInv, TargetSet
  <2>4. QED
    BY <1>2, <2>1, <2>2, <2>3 DEF Next
<1>3. DebtInv => LeftDownIsReported
  BY DEF DebtInv, LeftDownIsReported, At, Owes
<1>4. QED
  BY <1>1, <1>2, <1>3, InvInductive, ReportHolds, PTL DEF Spec
=============================================================================
