--------------------------- MODULE RuntimeVerifier --------------------------
(***************************************************************************)
(* One RuntimeVerifier.verify or verify_connectivity over a network that   *)
(* moves: wait until the routers answer, poll BGP until it is as expected  *)
(* or the deadline has passed, poll the routes likewise, send the pings    *)
(* once, write the report.                                                 *)
(*                                                                         *)
(* Every collection fans out over a pool of worker threads, and a command  *)
(* sees its device at a moment of its own.  What the verifier compares is  *)
(* abstracted to the set of routers, or probes, whose state is as the      *)
(* compiled expectation says.                                              *)
(***************************************************************************)
EXTENDS Naturals, FiniteSets

CONSTANTS
  Routers,    \* the routers of the expected adjacencies
  Probed,     \* those a platform map can give a backend with a readiness command
  Probes,     \* the ping jobs, positive and negative
  MaxWorkers, \* threads of the pool
  NoReport    \* reports/runtime-verification.json does not exist

ASSUME RoutersAssumption == Probed \subseteq Routers

ASSUME WorkersAssumption == MaxWorkers \in Nat \ {0}

Layers == {"bgp", "routes", "pings"}
Loops == {"bgp", "routes"}
Waits == {"readiness"} \cup Loops
Steps == {"idle", "conclude"} \cup Waits \cup {"pings"}

Items == Routers \cup Probes
Of(layer) == IF layer = "pings" THEN Probes ELSE Routers

\* What is as expected, layer by layer.
Pictures == {n \in [Layers -> SUBSET Items] : \A l \in Layers : n[l] \subseteq Of(l)}
Nothing == [l \in Layers |-> {}]

ASSUME ReportAssumption == NoReport \notin BOOLEAN

VARIABLES
  net,         \* what is as expected in the running network
  mode,        \* "verify" or "connectivity"
  step,        \* the phase
  activity,    \* "poll": at the top of a loop; "collect": in the pool; "sleep"
  todo,        \* jobs submitted to the pool and not taken up
  running,     \* jobs whose command is in flight
  answers,     \* what the jobs of this poll came to
  pending,     \* routers that have not answered a readiness probe
  expired,     \* the deadline of the present loop has passed
  observed,    \* observed of the present loop: the routers found as expected
  found,       \* what the loops returned
  interrupted, \* a KeyboardInterrupt waits for the pool to shut down
  report,      \* the last report written: whether it passed
  worsened,    \* history: something to be checked got worse in this run
  flawed       \* history: something to be checked was wrong in this run

pool == <<todo, running, answers>>
loop == <<pending, expired, observed>>
history == <<worsened, flawed>>
vars == <<net, mode, step, activity, pool, loop, found, interrupted, report, history>>

NoAnswers == [i \in Items |-> "none"]

TypeOK ==
  /\ net \in Pictures
  /\ mode \in {"verify", "connectivity"}
  /\ step \in Steps
  /\ activity \in {"poll", "collect", "sleep"}
  /\ todo \subseteq Items /\ running \subseteq Items
  /\ answers \in [Items -> {"none", "good", "bad", "error"}]
  /\ pending \subseteq Probed
  /\ expired \in BOOLEAN
  /\ observed \subseteq Routers
  /\ found \in Pictures
  /\ interrupted \in BOOLEAN
  /\ report \in BOOLEAN \cup {NoReport}
  /\ worsened \in BOOLEAN /\ flawed \in BOOLEAN

\* The layers this run compares: verify_connectivity sends the pings alone.
Checked(m) == IF m = "verify" THEN Layers ELSE {"pings"}

\* Every section that was made is successful.
Passing == \A l \in Checked(mode) : found[l] = Of(l)

Good == {i \in Items : answers[i] = "good"}
Error == \E i \in Items : answers[i] = "error"

-----------------------------------------------------------------------------
(* The pieces of a step.                                                   *)

EmptyPool == todo' = {} /\ running' = {} /\ answers' = NoAnswers

FreshLoop == expired' = FALSE /\ observed' = {}

\* A run that returns, or raises to its caller.
End ==
  /\ step' = "idle" /\ mode' = "verify" /\ activity' = "poll"
  /\ EmptyPool /\ FreshLoop /\ pending' = {} /\ found' = Nothing
  /\ interrupted' = FALSE /\ worsened' = FALSE /\ flawed' = FALSE
  /\ UNCHANGED net

Raise == End /\ UNCHANGED report

\* On to the phase s, whose loop has a deadline of its own.
Enter(s) ==
  /\ step' = s /\ activity' = "poll"
  /\ EmptyPool /\ FreshLoop /\ pending' = {}
  /\ UNCHANGED <<net, mode, interrupted, report, history>>

Doze ==
  /\ activity' = "sleep"
  /\ EmptyPool
  /\ UNCHANGED <<net, mode, step, expired, interrupted, report, history>>

\* The loop returns what it has observed last.
Return(seen) ==
  /\ found' = [found EXCEPT ![step] = seen]
  /\ Enter(IF step = "bgp" THEN "routes" ELSE "pings")

-----------------------------------------------------------------------------
(* The actions.                                                            *)

Init ==
  /\ net \in Pictures
  /\ step = "idle" /\ mode = "verify" /\ activity = "poll"
  /\ todo = {} /\ running = {} /\ answers = NoAnswers
  /\ pending = {} /\ expired = FALSE /\ observed = {}
  /\ found = Nothing /\ interrupted = FALSE /\ report = NoReport
  /\ worsened = FALSE /\ flawed = FALSE

\* Mutant: every router is asked whether it is ready.
StartAll(m) ==
  /\ step = "idle"
  /\ mode' = m
  /\ IF m = "verify" THEN step' = "readiness" /\ pending' = Routers
                     ELSE step' = "pings" /\ pending' = {}
  /\ flawed' = (\E l \in Checked(m) : net[l] # Of(l))
  /\ UNCHANGED <<net, activity, pool, expired, observed, found,
                 interrupted, report, worsened>>

\* Behind the identity gate and the loading of the contract; a refusal there
\* raises before anything has happened.  The inventory of the build says which
\* routers have a readiness command.
Start(m) ==
  /\ step = "idle"
  /\ mode' = m
  /\ IF m = "verify" THEN step' = "readiness" /\ pending' \in SUBSET Probed
                     ELSE step' = "pings" /\ pending' = {}
  /\ flawed' = (\E l \in Checked(m) : net[l] # Of(l))
  /\ UNCHANGED <<net, activity, pool, expired, observed, found,
                 interrupted, report, worsened>>

\* Submit one job per pending router, router or probe to the pool.
Submit ==
  /\ activity = "poll"
  /\ step \in Waits \cup {"pings"}
  /\ step = "readiness" => pending # {}
  /\ activity' = "collect"
  /\ todo' = IF step = "readiness" THEN pending ELSE Of(step)
  /\ UNCHANGED <<net, mode, step, running, answers, loop, found, interrupted, report, history>>

\* A worker takes a job up.
Take(i) ==
  /\ i \in todo
  /\ Cardinality(running) < MaxWorkers
  /\ todo' = todo \ {i}
  /\ running' = running \cup {i}
  /\ UNCHANGED <<net, mode, step, activity, answers, loop, found, interrupted, report, history>>

\* Its command comes back: with the state of the device at this moment, or
\* with a failure.  A readiness probe takes any failure for a router that is
\* not ready yet.
Answer(i) ==
  /\ i \in running
  /\ running' = running \ {i}
  /\ \E answer \in IF step = "readiness" THEN {"good", "bad"}
                   ELSE {IF i \in net[step] THEN "good" ELSE "bad", "error"} :
       answers' = [answers EXCEPT ![i] = answer]
  /\ UNCHANGED <<net, mode, step, activity, todo, loop, found, interrupted, report, history>>

\* pool.map hands on the first exception, and the jobs that no worker has
\* taken up are cancelled.
Cancel ==
  /\ Error
  /\ todo # {}
  /\ todo' = {}
  /\ UNCHANGED <<net, mode, step, activity, running, answers, loop, found,
                 interrupted, report, history>>

\* Leaving the pool waits for the commands in flight.
Gathered == activity = "collect" /\ todo = {} /\ running = {} /\ ~interrupted

ReadyAtOnce ==
  /\ step = "readiness" /\ activity = "poll" /\ pending = {}
  /\ Enter("bgp")
  /\ UNCHANGED found

\* A router that has answered once is not asked again.
JudgeReadiness ==
  /\ step = "readiness" /\ Gathered
  /\ LET left == pending \ Good IN
       \/ left = {} /\ Enter("bgp") /\ UNCHANGED found
       \/ left # {} /\ expired /\ Raise
       \/ /\ left # {} /\ ~expired
          /\ pending' = left /\ Doze
          /\ UNCHANGED <<observed, found>>

\* Mutant: a router without an answer counts as expected.
JudgeLenient ==
  /\ step \in Loops /\ Gathered
  /\ LET seen == Routers \ {i \in Items : answers[i] = "bad"} IN
       \/ (seen = Routers \/ expired) /\ Return(seen)
       \/ /\ seen # Routers /\ ~expired
          /\ observed' = seen /\ Doze
          /\ UNCHANGED <<pending, found>>

\* Mutant: last_error is not raised, and the older observation is returned.
JudgeForgetful ==
  /\ step \in Loops /\ Gathered
  /\ LET seen == IF Error THEN observed ELSE Good IN
       \/ ((~Error /\ seen = Routers) \/ expired) /\ Return(seen)
       \/ /\ Error \/ seen # Routers
          /\ ~expired
          /\ observed' = seen /\ Doze
          /\ UNCHANGED <<pending, found>>

\* Mutant: an exception ends the wait.
JudgeHasty ==
  /\ step \in Loops /\ Gathered
  /\ LET seen == IF Error THEN observed ELSE Good IN
       \/ ~Error /\ (seen = Routers \/ expired) /\ Return(seen)
       \/ Error /\ Raise
       \/ /\ ~Error /\ seen # Routers /\ ~expired
          /\ observed' = seen /\ Doze
          /\ UNCHANGED <<pending, found>>

\* _wait_for_bgp and _wait_for_routes.  A poll that raised leaves observed as
\* it was; behind the deadline its error is raised, and otherwise what was
\* observed is returned, as expected or not.
Judge ==
  /\ step \in Loops /\ Gathered
  /\ LET seen == IF Error THEN observed ELSE Good IN
       \/ ~Error /\ (seen = Routers \/ expired) /\ Return(seen)
       \/ Error /\ expired /\ Raise
       \/ /\ Error \/ seen # Routers
          /\ ~expired
          /\ observed' = seen /\ Doze
          /\ UNCHANGED <<pending, found>>

\* The pings are sent once: an error is raised.
JudgePings ==
  /\ step = "pings" /\ Gathered
  /\ \/ Error /\ Raise
     \/ /\ ~Error
        /\ found' = [found EXCEPT !["pings"] = Good]
        /\ Enter("conclude")

\* Compare and write the report; verify_connectivity only returns.  The ping
\* index and the file system may raise.
Conclude ==
  /\ step = "conclude"
  /\ End
  /\ \/ mode = "verify" /\ report' = Passing
     \/ UNCHANGED report

\* Mutant: the deadline is computed anew for every poll.
WakeFresh ==
  /\ activity = "sleep"
  /\ activity' = "poll"
  /\ expired' = FALSE
  /\ UNCHANGED <<net, mode, step, pool, pending, observed, found, interrupted,
                 report, history>>

Wake ==
  /\ activity = "sleep"
  /\ activity' = "poll"
  /\ UNCHANGED <<net, mode, step, pool, loop, found, interrupted, report, history>>

\* time.monotonic passes the deadline.
Expire ==
  /\ step \in Waits
  /\ ~expired
  /\ expired' = TRUE
  /\ UNCHANGED <<net, mode, step, activity, pool, pending, observed, found,
                 interrupted, report, history>>

\* KeyboardInterrupt ends the run, in the pool not before the commands in
\* flight have come back.
Interrupt ==
  /\ step # "idle" /\ ~interrupted
  /\ IF activity = "collect"
       THEN /\ interrupted' = TRUE /\ todo' = {}
            /\ UNCHANGED <<net, mode, step, activity, running, answers, loop, found,
                           report, history>>
       ELSE Raise

Interrupted ==
  /\ interrupted /\ running = {}
  /\ Raise

\* A device starts or stops to be as expected.
Change(l, i) ==
  /\ i \in Of(l)
  /\ net' = [net EXCEPT ![l] = IF i \in net[l] THEN @ \ {i} ELSE @ \cup {i}]
  /\ LET worse == step # "idle" /\ l \in Checked(mode) /\ i \in net[l] IN
       /\ worsened' = (worsened \/ worse)
       /\ flawed' = (flawed \/ worse)
  /\ UNCHANGED <<mode, step, activity, pool, loop, found, interrupted, report>>

\* What the process does by itself.
Step ==
  \/ Submit \/ Cancel \/ ReadyAtOnce \/ JudgeReadiness \/ Judge \/ JudgePings
  \/ Conclude \/ Wake \/ Interrupted
  \/ \E i \in Items : Take(i) \/ Answer(i)

Next ==
  \/ \E m \in {"verify", "connectivity"} : Start(m)
  \/ Step \/ Expire \/ Interrupt
  \/ \E l \in Layers, i \in Items : Change(l, i)

Spec == Init /\ [][Next]_vars

\* Every command has a timeout, and time passes.
FairSpec == Spec /\ WF_vars(Step) /\ WF_vars(Expire)

-----------------------------------------------------------------------------
(* Properties.                                                             *)

\* A pass is true at its end: sessions, routes and pings are read at
\* different moments, but if nothing got worse meanwhile, then everything that
\* was checked is as expected when the verdict is given.
PassMeansHealthy ==
  step = "conclude" /\ Passing /\ ~worsened
    => \A l \in Checked(mode) : net[l] = Of(l)

\* No false alarm: commands that fail and routers that are cancelled never
\* make a failing report; a verdict against the network was true of it at some
\* moment of the run.
FailMeansFlawed == step = "conclude" /\ ~Passing => flawed

\* "Wait for expected routes and ECMP paths": neither an unexpected answer nor
\* a command that failed ends a wait before its deadline.
PatientUntilDeadline ==
  [][/\ step \in Waits /\ activity = "collect" /\ ~interrupted
     /\ step' # step
     /\ step' = "idle" \/ (step \in Loops /\ found'[step] # Routers)
     => expired]_vars

\* The verdict of a wait rests on its last poll, in which every router
\* answered, and on nothing remembered from an earlier one.
ReturnsLastPoll ==
  [][/\ step \in Loops /\ step' # step /\ step' # "idle"
     => found'[step] = Good /\ \A r \in Routers : answers[r] \in {"good", "bad"}]_vars

\* Devices that never answer, or never converge, do not keep a verification
\* waiting for ever.
VerificationEnds == step # "idle" ~> step = "idle"
=============================================================================
