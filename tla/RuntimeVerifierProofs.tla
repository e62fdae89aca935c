----------------------- MODULE RuntimeVerifierProofs ------------------------
(***************************************************************************)
(* The verdict of RuntimeVerifier, for any routers, probes and worker      *)
(* threads, and any network.                                               *)
(***************************************************************************)
EXTENDS RuntimeVerifier, TLAPS

Jobs == IF step = "readiness" THEN pending ELSE Of(step)

Answered == {i \in Items : answers[i] # "none"}

\* The pool is empty outside of a collection; within one, nothing but the
\* jobs of this poll is in it, and none is missing unless one has failed.
PoolInv ==
  /\ activity # "collect" => todo = {} /\ running = {} /\ answers = NoAnswers
  /\ activity = "collect" => step \in Waits \cup {"pings"}
  /\ step \in Waits \cup {"pings"} => todo \cup running \cup Answered \subseteq Jobs
  /\ activity = "collect" /\ ~interrupted /\ ~Error
       => Jobs \subseteq todo \cup running \cup Answered
  /\ todo \cap running = {}
  /\ \A i \in todo \cup running : answers[i] = "none"
  /\ interrupted => activity = "collect"

\* The layers a run has been through when it reaches s.
Behind(s) ==
  CASE s = "routes"   -> {"bgp"}
    [] s = "pings"    -> Loops
    [] s = "conclude" -> Layers
    [] OTHER          -> {}

\* What was found still holds unless something got worse; and if nothing ever
\* was wrong, then all was found and is right.
VerdictInv ==
  /\ step \in Waits => mode = "verify"
  /\ step = "idle" => found = Nothing
  /\ ~worsened => \A l \in Checked(mode) : found[l] \subseteq net[l]
  /\ ~worsened /\ step \in Layers
       => \A i \in Items : answers[i] = "good" => i \in net[step]
  /\ ~flawed /\ step # "idle"
       => \A l \in Checked(mode) : net[l] = Of(l) /\ (l \in Behind(step) => found[l] = Of(l))
  /\ ~flawed /\ step \in Layers => \A i \in Items : answers[i] # "bad"

Inv == TypeOK /\ PoolInv /\ VerdictInv

-----------------------------------------------------------------------------
(* Inv is kept by every step.                                              *)

LEMMA EndInv ==
  ASSUME Inv, End, report' \in BOOLEAN \cup {NoReport}
  PROVE  Inv'
<1>1. TypeOK'
  BY DEF Inv, TypeOK, End, EmptyPool, FreshLoop, NoAnswers, Nothing, Pictures, Steps, Waits
<1>2. PoolInv'
  BY DEF PoolInv, End, EmptyPool, Waits, Loops
<1>3. VerdictInv'
  BY DEF VerdictInv, End, Layers, Nothing, Checked
<1>4. QED
  BY <1>1, <1>2, <1>3 DEF Inv

LEMMA RaiseInv ==
  ASSUME Inv, Raise
  PROVE  Inv'
BY EndInv DEF Raise, Inv, TypeOK

\* A run that enters the phase s has to have found what s builds on.
LEMMA EnterInv ==
  ASSUME Inv, NEW s \in Layers \cup {"conclude"}, Enter(s), ~interrupted,
         found' \in Pictures, s \in Waits => mode = "verify",
         ~worsened => \A l \in Checked(mode) : found'[l] \subseteq net[l],
         ~flawed => \A l \in Checked(mode) :
                      net[l] = Of(l) /\ (l \in Behind(s) => found'[l] = Of(l))
  PROVE  Inv'
<1>1. TypeOK'
  BY DEF Inv, TypeOK, Enter, EmptyPool, FreshLoop, NoAnswers, Steps, Waits, Loops, Layers,
         history
<1>2. PoolInv'
  <2>1. Answered' = {}
    BY DEF Enter, EmptyPool, Answered, NoAnswers
  <2>2. QED
    BY <2>1 DEF PoolInv, Enter, EmptyPool
<1>3. VerdictInv'
  <2>1. \A i \in Items : answers'[i] = "none"
    BY DEF Enter, EmptyPool, NoAnswers
  <2>2. QED
    BY <2>1 DEF VerdictInv, Enter, history, Layers, Waits
<1>4. QED
  BY <1>1, <1>2, <1>3 DEF Inv

LEMMA DozeInv ==
  ASSUME Inv, Doze, ~interrupted, activity = "collect", UNCHANGED found,
         pending' \subseteq pending, observed' \subseteq Routers
  PROVE  Inv'
<1>1. TypeOK'
  BY DEF Inv, TypeOK, Doze, EmptyPool, NoAnswers, history
<1>2. PoolInv'
  <2>1. Answered' = {}
    BY DEF Doze, EmptyPool, Answered, NoAnswers
  <2>2. QED
    BY <2>1 DEF PoolInv, Doze, EmptyPool
<1>3. VerdictInv'
  <2>1. \A i \in Items : answers'[i] = "none"
    BY DEF Doze, EmptyPool, NoAnswers
  <2>2. QED
    BY <2>1 DEF Inv, VerdictInv, Doze, history
<1>4. QED
  BY <1>1, <1>2, <1>3 DEF Inv

\* Steps that leave the verdict alone.
LEMMA QuietVerdict ==
  ASSUME VerdictInv, UNCHANGED <<net, mode, step, answers, found, history>>
  PROVE  VerdictInv'
BY DEF VerdictInv, history

LEMMA StartInv ==
  ASSUME Inv, NEW m \in {"verify", "connectivity"}, Start(m)
  PROVE  Inv'
<1>1. TypeOK'
  BY RoutersAssumption DEF Inv, TypeOK, Start, pool, Steps, Waits
<1>0. activity # "collect" /\ todo = {} /\ running = {} /\ answers = NoAnswers /\ ~interrupted
  BY DEF Inv, PoolInv, Start, Waits, Loops
<1>2. PoolInv'
  <2>1. Answered = {}
    BY <1>0 DEF Answered, NoAnswers
  <2>2. QED
    BY <1>0, <2>1 DEF PoolInv, Start, pool, Answered
<1>3. VerdictInv'
  <2>1. step' \in {"readiness", "pings"} /\ mode' = m /\ found' = found /\ net' = net
        /\ (step' = "pings" => m = "connectivity") /\ answers' = answers
    BY DEF Start, pool
  <2>2. \A i \in Items : answers'[i] = "none"
    BY <1>0, <2>1 DEF NoAnswers
  <2>3. ~flawed' => \A l \in Checked(m) : net[l] = Of(l)
    BY DEF Start
  <2>4. m = "connectivity" => Checked(m) = {"pings"} /\ "pings" \notin Behind("pings")
    BY DEF Checked, Behind, Loops
  <2>5. found = Nothing
    BY DEF Inv, Start, VerdictInv
  <2>6. \A l \in Checked(m) : found'[l] = {}
    BY <2>1, <2>5 DEF Nothing, Checked, Layers
  <2>7. \A l \in Checked(m) : l \notin Behind(step')
    BY <2>1, <2>4 DEF Behind
  <2>8. step' # "idle" /\ (step' \in Waits => m = "verify")
    BY <2>1 DEF Waits, Loops, Start
  <2>9. QED
    BY <2>1, <2>2, <2>3, <2>6, <2>7, <2>8 DEF VerdictInv
<1>4. QED
  BY <1>1, <1>2, <1>3 DEF Inv

LEMMA SubmitInv ==
  ASSUME Inv, Submit
  PROVE  Inv'
<1>1. TypeOK'
  BY RoutersAssumption DEF Inv, TypeOK, Submit, loop, history, Of, Items
<1>2. PoolInv'
  <2>1. running = {} /\ answers = NoAnswers /\ ~interrupted
    BY DEF Inv, PoolInv, Submit
  <2>2. \A i \in Items : answers[i] = "none"
    BY <2>1 DEF NoAnswers
  <2>3. todo' = Jobs /\ Jobs' = Jobs /\ UNCHANGED <<step, running, answers, interrupted>>
    BY DEF Submit, Jobs, loop
  <2>4. activity' = "collect" /\ step \in Waits \cup {"pings"}
    BY DEF Submit
  <2>5. Answered' = {} /\ Jobs \subseteq Items
    BY <2>2, <2>3, RoutersAssumption DEF Answered, Jobs, Of, Items, Inv, TypeOK
  <2>6. QED
    BY <2>1, <2>2, <2>3, <2>4, <2>5 DEF PoolInv
<1>3. VerdictInv'
  BY QuietVerdict DEF Inv, Submit
<1>4. QED
  BY <1>1, <1>2, <1>3 DEF Inv

LEMMA TakeInv ==
  ASSUME Inv, NEW i \in Items, Take(i)
  PROVE  Inv'
<1>1. TypeOK'
  BY DEF Inv, TypeOK, Take, loop, history
<1>0. activity = "collect"
  BY DEF Inv, PoolInv, Take
<1>2. PoolInv'
  BY <1>0 DEF Inv, PoolInv, Take, loop, Jobs, Answered, Error
<1>3. VerdictInv'
  BY QuietVerdict DEF Inv, Take
<1>4. QED
  BY <1>1, <1>2, <1>3 DEF Inv

LEMMA AnswerInv ==
  ASSUME Inv, NEW i \in Items, Answer(i)
  PROVE  Inv'
<1>0. PICK answer \in {"good", "bad", "error"} :
        /\ answers' = [answers EXCEPT ![i] = answer]
        /\ step # "readiness" => answer \in {IF i \in net[step] THEN "good" ELSE "bad", "error"}
  BY DEF Answer
<1>1. TypeOK'
  BY <1>0 DEF Inv, TypeOK, Answer, loop, history
<1>2. activity = "collect" /\ step \in Waits \cup {"pings"} /\ i \in Jobs
  BY DEF Inv, PoolInv, Answer
<1>d. i \notin todo
  BY DEF Inv, PoolInv, Answer
<1>3. answers'[i] = answer /\ \A j \in Items \ {i} : answers'[j] = answers[j]
  BY <1>0 DEF Inv, TypeOK
<1>4. PoolInv'
  <2>1. Answered' = Answered \cup {i}
    BY <1>3 DEF Answered
  <2>2. ~Error' => ~Error
    <3>1. answers[i] = "none"
      BY DEF Inv, PoolInv, Answer
    <3>2. QED
      BY <1>3, <3>1 DEF Error
  <2>3. /\ running' = running \ {i} /\ Jobs' = Jobs
        /\ UNCHANGED <<step, activity, todo, interrupted>>
    BY DEF Answer, loop, Jobs
  <2>4. \A j \in todo' \cup running' : answers'[j] = "none"
    <3>1. \A j \in todo \cup running : j \in Items /\ answers[j] = "none"
      BY DEF Inv, TypeOK, PoolInv
    <3>2. i \notin todo
      BY <1>d
    <3>3. QED
      BY <1>3, <2>3, <3>1, <3>2
  <2>5. QED
    BY <1>2, <2>1, <2>2, <2>3, <2>4 DEF Inv, PoolInv
<1>5. VerdictInv'
  <2>1. CASE step \notin Layers
    BY <2>1 DEF Inv, VerdictInv, Answer, history
  <2>2. CASE step \in Layers
    <3>1. step \in Checked(mode) /\ i \in Of(step) /\ step # "readiness" /\ step # "idle"
      BY <1>2, <2>2 DEF Inv, VerdictInv, Jobs, Layers, Waits, Loops, Checked
    <3>2. answer = "good" => i \in net[step]
      BY <1>0, <3>1
    <3>3. ~flawed => answer # "bad"
      BY <1>0, <3>1 DEF Inv, VerdictInv
    <3>4. QED
      BY <1>3, <2>2, <3>1, <3>2, <3>3 DEF Inv, VerdictInv, Answer, history
  <2>3. QED
    BY <2>1, <2>2
<1>6. QED
  BY <1>1, <1>4, <1>5 DEF Inv

LEMMA CancelInv ==
  ASSUME Inv, Cancel
  PROVE  Inv'
<1>1. TypeOK'
  BY DEF Inv, TypeOK, Cancel, loop, history
<1>2. PoolInv'
  BY DEF Inv, PoolInv, Cancel, loop, Jobs, Answered, Error
<1>3. VerdictInv'
  BY QuietVerdict DEF Inv, Cancel
<1>4. QED
  BY <1>1, <1>2, <1>3 DEF Inv

LEMMA ReadinessInv ==
  ASSUME Inv, ReadyAtOnce \/ JudgeReadiness
  PROVE  Inv'
<1>0. step = "readiness" /\ "bgp" \in Layers
  BY DEF ReadyAtOnce, JudgeReadiness, Layers
<1>1. CASE Enter("bgp") /\ UNCHANGED found
  <2>1. mode = "verify" /\ ~interrupted
    BY <1>0 DEF Inv, VerdictInv, PoolInv, Waits, ReadyAtOnce, JudgeReadiness, Gathered
  <2>2. QED
    BY <1>0, <1>1, <2>1, EnterInv DEF Inv, TypeOK, VerdictInv, Behind
<1>2. CASE Raise
  BY <1>2, RaiseInv
<1>3. CASE Gathered /\ pending' = pending \ Good /\ Doze /\ UNCHANGED <<observed, found>>
  BY <1>3, DozeInv DEF Gathered, Inv, TypeOK
<1>4. QED
  BY <1>1, <1>2, <1>3 DEF ReadyAtOnce, JudgeReadiness

\* Once a collection is complete without an error, every job has an answer.
LEMMA AllAnswered ==
  ASSUME Inv, step \in Layers, Gathered, ~Error
  PROVE  /\ \A i \in Of(step) : i \in Items /\ answers[i] \in {"good", "bad"}
         /\ Good \subseteq Of(step)
         /\ ~flawed => Good = Of(step)
<1>1. Of(step) = Jobs /\ Of(step) \subseteq Items /\ step \in Waits \cup {"pings"}
  BY DEF Jobs, Layers, Of, Items, Waits, Loops
<1>2. Of(step) \subseteq Answered
  BY <1>1 DEF Inv, PoolInv, Gathered
<1>3. \A i \in Answered : answers[i] \in {"good", "bad"}
  BY DEF Answered, Error, Inv, TypeOK
<1>4. Good \subseteq Answered /\ Answered \subseteq Of(step)
  BY <1>1 DEF Good, Answered, Inv, PoolInv
<1>5. ~flawed => Good = Of(step)
  <2>1. ASSUME ~flawed, NEW i \in Of(step) PROVE i \in Good
    BY <1>1, <1>2, <1>3, <2>1 DEF Inv, VerdictInv, Good
  <2>2. QED
    BY <1>4, <2>1
<1>6. QED
  BY <1>1, <1>2, <1>3, <1>4, <1>5

\* What is found in a layer without an error belongs to the network.
LEMMA FoundInv ==
  ASSUME Inv, step \in Layers, Gathered, ~Error, NEW s \in Layers \cup {"conclude"},
         found' = [found EXCEPT ![step] = Good], Enter(s),
         s \in Waits => mode = "verify",
         Behind(s) \cap Checked(mode) \subseteq (Behind(step) \cup {step}) \cap Checked(mode)
  PROVE  Inv'
<1>1. Good \subseteq Of(step) /\ (~flawed => Good = Of(step))
  BY AllAnswered
<1>2. found \in Pictures /\ ~interrupted /\ step # "idle"
  BY DEF Inv, TypeOK, Gathered, Layers
<1>3. found' \in Pictures /\ found'[step] = Good /\ \A l \in Layers \ {step} : found'[l] = found[l]
  <2>1. Good \subseteq Items
    BY DEF Good
  <2>2. QED
    BY <1>1, <1>2, <2>1 DEF Pictures
<1>4. Checked(mode) \subseteq Layers
  BY DEF Checked, Layers
<1>5. ~worsened => \A l \in Checked(mode) : found'[l] \subseteq net[l]
  <2>1. ~worsened => Good \subseteq net[step]
    BY DEF Inv, VerdictInv, Good
  <2>2. QED
    BY <1>3, <1>4, <2>1 DEF Inv, VerdictInv
<1>6. ~flawed => \A l \in Checked(mode) :
                   net[l] = Of(l) /\ (l \in Behind(s) => found'[l] = Of(l))
  BY <1>1, <1>2, <1>3, <1>4 DEF Inv, VerdictInv
<1>7. QED
  BY <1>2, <1>3, <1>5, <1>6, EnterInv

LEMMA JudgeInv ==
  ASSUME Inv, Judge
  PROVE  Inv'
<1>0. step \in Loops /\ step \in Layers /\ step \in Waits /\ mode = "verify" /\ Gathered
      /\ Of(step) = Routers
  BY DEF Judge, Inv, VerdictInv, Waits, Loops, Layers, Of
<1>1. CASE ~Error /\ Return(Good)
  <2> DEFINE s == IF step = "bgp" THEN "routes" ELSE "pings"
  <2>1. Enter(s) /\ found' = [found EXCEPT ![step] = Good]
    BY <1>1 DEF Return
  <2>2. s \in Layers \cup {"conclude"} /\ Behind(s) \subseteq Behind(step) \cup {step}
    BY <1>0 DEF Behind, Loops, Layers
  <2> HIDE DEF s
  <2>3. QED
    BY <1>0, <1>1, <2>1, <2>2, FoundInv
<1>2. CASE Raise
  BY <1>2, RaiseInv
<1>3. ASSUME NEW seen, observed' = seen, Doze, UNCHANGED <<pending, found>>,
             seen \in {observed, Good}, ~Error \/ seen = observed
      PROVE  Inv'
  <2>1. seen \subseteq Routers
    BY <1>0, <1>3, AllAnswered DEF Inv, TypeOK
  <2>2. QED
    BY <1>0, <1>3, <2>1, DozeInv DEF Gathered
<1>4. QED
  BY <1>1, <1>2, <1>3 DEF Judge

LEMMA JudgePingsInv ==
  ASSUME Inv, JudgePings
  PROVE  Inv'
<1>1. CASE Raise
  BY <1>1, RaiseInv
<1>2. CASE ~Error /\ found' = [found EXCEPT !["pings"] = Good] /\ Enter("conclude")
  <2>1. step = "pings" /\ step \in Layers /\ Gathered /\ "conclude" \notin Waits
    BY DEF JudgePings, Layers, Waits, Loops
  <2>2. Behind("conclude") \cap Checked(mode) \subseteq (Behind(step) \cup {step}) \cap Checked(mode)
    BY <2>1 DEF Behind, Layers, Loops
  <2>3. QED
    BY <1>2, <2>1, <2>2, FoundInv
<1>3. QED
  BY <1>1, <1>2 DEF JudgePings

LEMMA ConcludeInv ==
  ASSUME Inv, Conclude
  PROVE  Inv'
BY EndInv DEF Conclude, Inv, TypeOK, Passing

LEMMA WaitingInv ==
  ASSUME Inv, Wake \/ Expire
  PROVE  Inv'
<1>1. TypeOK'
  BY DEF Inv, TypeOK, Wake, Expire, pool, loop, history
<1>2. PoolInv'
  BY DEF Inv, PoolInv, Wake, Expire, pool, loop, Jobs, Answered, Error
<1>3. VerdictInv'
  BY QuietVerdict DEF Inv, Wake, Expire, pool
<1>4. QED
  BY <1>1, <1>2, <1>3 DEF Inv

LEMMA InterruptInv ==
  ASSUME Inv, Interrupt \/ Interrupted
  PROVE  Inv'
<1>1. CASE activity = "collect" /\ Interrupt
  <2>1. TypeOK'
    BY <1>1 DEF Inv, TypeOK, Interrupt, loop, history
  <2>2. PoolInv'
    BY <1>1 DEF Inv, PoolInv, Interrupt, loop, Jobs, Answered
  <2>3. VerdictInv'
    BY <1>1, QuietVerdict DEF Inv, Interrupt
  <2>4. QED
    BY <2>1, <2>2, <2>3 DEF Inv
<1>2. CASE Raise
  BY <1>2, RaiseInv
<1>3. QED
  BY <1>1, <1>2 DEF Interrupt, Interrupted

LEMMA ChangeInv ==
  ASSUME Inv, NEW l \in Layers, NEW i \in Items, Change(l, i)
  PROVE  Inv'
<1>0. /\ i \in Of(l) /\ net \in Pictures
      /\ net' = [net EXCEPT ![l] = IF i \in net[l] THEN net[l] \ {i} ELSE net[l] \cup {i}]
      /\ UNCHANGED <<mode, step, activity, pool, loop, found, interrupted, report>>
  BY DEF Inv, TypeOK, Change
<1>1. net' \in Pictures
  BY <1>0 DEF Pictures, Items
<1>2. TypeOK'
  BY <1>0, <1>1 DEF Inv, TypeOK, Change, pool, loop
<1>3. PoolInv'
  BY <1>0 DEF Inv, PoolInv, pool, loop, Jobs, Answered, Error
<1>4. VerdictInv'
  <2> DEFINE worse == step # "idle" /\ l \in Checked(mode) /\ i \in net[l]
  <2>1. worsened' = (worsened \/ worse) /\ flawed' = (flawed \/ worse)
    BY DEF Change
  <2>2. Checked(mode) \subseteq Layers /\ (step \in Layers => step \in Checked(mode))
    BY DEF Checked, Layers, Inv, VerdictInv, Waits, Loops, TypeOK
  <2>3. ASSUME ~worse, step # "idle", NEW m \in Checked(mode)
        PROVE  net[m] \subseteq net'[m] /\ (net[m] = Of(m) => net'[m] = Of(m))
    BY <1>0, <2>2, <2>3 DEF Pictures
  <2>4. step = "idle" => found = Nothing
    BY DEF Inv, VerdictInv
  <2>5. ~worsened' => \A m \in Checked(mode) : found[m] \subseteq net'[m]
    <3>1. CASE step = "idle"
      BY <2>2, <2>4, <3>1 DEF Nothing
    <3>2. CASE step # "idle"
      BY <2>1, <2>3, <3>2 DEF Inv, VerdictInv, TypeOK
    <3>3. QED
      BY <3>1, <3>2
  <2>6. ~worsened' /\ step \in Layers => \A j \in Items : answers[j] = "good" => j \in net'[step]
    <3>1. step \in Layers => step # "idle"
      BY DEF Layers
    <3>2. QED
      BY <2>1, <2>2, <2>3, <3>1 DEF Inv, VerdictInv, TypeOK
  <2>7. ~flawed' /\ step # "idle"
          => \A m \in Checked(mode) : net'[m] = Of(m) /\ (m \in Behind(step) => found[m] = Of(m))
    BY <2>1, <2>3 DEF Inv, VerdictInv, TypeOK
  <2>8. ~flawed' => ~flawed
    BY <2>1 DEF Inv, TypeOK
  <2> HIDE DEF worse
  <2>9. QED
    BY <1>0, <2>4, <2>5, <2>6, <2>7, <2>8 DEF Inv, VerdictInv, pool
<1>5. QED
  BY <1>2, <1>3, <1>4 DEF Inv

LEMMA InvInductive == Spec => []Inv
<1>1. Init => Inv
  <2>1. SUFFICES ASSUME Init PROVE Inv
    OBVIOUS
  <2>2. TypeOK
    BY <2>1 DEF Init, TypeOK, NoAnswers, Nothing, Pictures, Steps, Waits
  <2>3. PoolInv
    BY <2>1 DEF Init, PoolInv, Waits, Loops
  <2>4. VerdictInv
    BY <2>1 DEF Init, VerdictInv, Waits, Loops, Layers, Nothing, Checked
  <2>5. QED
    BY <2>2, <2>3, <2>4 DEF Inv
<1>2. ASSUME Inv, [Next]_vars PROVE Inv'
  <2>1. CASE Step
    BY <1>2, <2>1, SubmitInv, CancelInv, ReadinessInv, JudgeInv, JudgePingsInv, ConcludeInv,
       WaitingInv, InterruptInv, TakeInv, AnswerInv DEF Step
  <2>2. CASE UNCHANGED vars
    BY <1>2, <2>2 DEF vars, pool, loop, history, Inv, TypeOK, PoolInv, VerdictInv, Jobs,
       Answered, Error
  <2>3. QED
    BY <1>2, <2>1, <2>2, StartInv, WaitingInv, InterruptInv, ChangeInv DEF Next
<1>3. QED
  BY <1>1, <1>2, PTL DEF Spec

-----------------------------------------------------------------------------
(* The theorems.                                                           *)

\* Type correctness: in particular only routers with a readiness command are
\* ever waited for.
THEOREM TypeHolds == Spec => []TypeOK
<1>1. Inv => TypeOK
  BY DEF Inv
<1>2. QED
  BY <1>1, InvInductive, PTL

\* A pass is true at its end, if nothing got worse during the run.
THEOREM PassHolds == Spec => []PassMeansHealthy
<1>1. Inv => PassMeansHealthy
  <2>1. SUFFICES ASSUME Inv, Passing, ~worsened, NEW l \in Checked(mode) PROVE net[l] = Of(l)
    BY DEF PassMeansHealthy
  <2>2. found[l] = Of(l) /\ found[l] \subseteq net[l]
    BY <2>1 DEF Inv, VerdictInv, Passing
  <2>3. net[l] \subseteq Of(l)
    BY <2>1 DEF Inv, TypeOK, Pictures, Checked, Layers
  <2>4. QED
    BY <2>2, <2>3
<1>2. QED
  BY <1>1, InvInductive, PTL

\* No false alarm: a failing report is about a network that was wrong at some
\* moment of the run.
THEOREM FailHolds == Spec => []FailMeansFlawed
<1>1. Inv => FailMeansFlawed
  <2>1. SUFFICES ASSUME Inv, step = "conclude", ~flawed PROVE Passing
    BY DEF FailMeansFlawed
  <2>2. Checked(mode) \subseteq Behind(step)
    BY <2>1 DEF Checked, Behind, Layers
  <2>3. QED
    BY <2>1, <2>2 DEF Inv, VerdictInv, Passing
<1>2. QED
  BY <1>1, InvInductive, PTL

\* How a run leaves a phase whose pool it has not been interrupted in.
LEMMA Leaving ==
  ASSUME Inv, [Next]_vars, step \in Waits, step' # step
  PROVE  \/ step' = "idle" /\ (activity # "collect" \/ interrupted)
         \/ step' = "idle" /\ expired
         \/ step = "readiness" /\ step' = "bgp"
         \/ step \in Loops /\ Gathered /\ ~Error /\ Return(Good) /\ (Good = Routers \/ expired)
<1>1. step # "idle" /\ step # "pings" /\ step # "conclude"
  BY DEF Waits, Loops
<1>2. CASE Step
  BY <1>1, <1>2 DEF Step, Submit, Cancel, ReadyAtOnce, JudgeReadiness, Judge, JudgePings,
     Conclude, Wake, Interrupted, Take, Answer, Raise, End, Enter, Doze
<1>3. CASE Interrupt
  BY <1>3 DEF Interrupt, Raise, End
<1>4. QED
  BY <1>1, <1>2, <1>3 DEF Next, Start, Expire, Change, vars

\* A wait ends before its deadline only because everything is as expected.
THEOREM PatientHolds == Spec => PatientUntilDeadline
<1>1. ASSUME Inv, [Next]_vars, step \in Waits, activity = "collect", ~interrupted,
             step' # step,
             step' = "idle" \/ (step \in Loops /\ found'[step] # Routers)
      PROVE  expired
  <2>1. CASE step' = "idle"
    BY <1>1, <2>1, Leaving DEF Return, Enter
  <2>2. CASE step \in Loops /\ found'[step] # Routers /\ step' # "idle"
    <3>1. Return(Good) /\ (Good = Routers \/ expired)
      BY <1>1, <2>2, Leaving DEF Loops
    <3>0. step \in Layers
      BY <2>2 DEF Loops, Layers
    <3>2. found'[step] = Good
      BY <1>1, <3>0, <3>1 DEF Inv, TypeOK, Pictures, Return
    <3>3. QED
      BY <2>2, <3>1, <3>2
  <2>3. QED
    BY <1>1, <2>1, <2>2
<1>2. Spec => []Inv
  BY InvInductive
<1>3. QED
  BY <1>1, <1>2, PTL DEF Spec, PatientUntilDeadline

\* The verdict of a wait rests on its last poll, which every router answered.
THEOREM LastPollHolds == Spec => ReturnsLastPoll
<1>1. ASSUME Inv, [Next]_vars, step \in Loops, step' # step, step' # "idle"
      PROVE  found'[step] = Good /\ \A r \in Routers : answers[r] \in {"good", "bad"}
  <2>1. step \in Waits /\ step \in Layers /\ Of(step) = Routers /\ step # "readiness"
    BY <1>1 DEF Waits, Loops, Layers, Of
  <2>2. Gathered /\ ~Error /\ Return(Good)
    BY <1>1, <2>1, Leaving
  <2>3. found'[step] = Good
    BY <2>1, <2>2, <1>1 DEF Inv, TypeOK, Pictures, Return
  <2>4. QED
    BY <1>1, <2>1, <2>2, <2>3, AllAnswered
<1>2. Spec => []Inv
  BY InvInductive
<1>3. QED
  BY <1>1, <1>2, PTL DEF Spec, ReturnsLastPoll

=============================================================================
