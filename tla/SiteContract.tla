---------------------------- MODULE SiteContract ----------------------------
(***************************************************************************)
(* What a site's build directory promises its readers (deploy, verify,     *)
(* scenario run, and people): at any moment it publishes one whole build   *)
(* or none, a published build is withdrawn before another appears, and the *)
(* reports beside a published build are reports of that build.             *)
(***************************************************************************)
CONSTANTS
  Sound,    \* the builds that are whole: every artifact from one valid input
  Kinds,    \* the kinds of report: one per command that leaves evidence
  NoBuild   \* nothing is published, or no report was left

VARIABLES published, reports

svars == <<published, reports>>

NoReports == [k \in Kinds |-> NoBuild]

Init == published = NoBuild /\ reports = NoReports

Publish(m) ==
  /\ published = NoBuild
  /\ \A k \in Kinds : reports[k] \in {NoBuild, m}
  /\ published' = m
  /\ UNCHANGED reports

Withdraw == published' = NoBuild /\ UNCHANGED reports

\* Reports are thrown away, all or some, while nothing is published.
Forget ==
  /\ published = NoBuild
  /\ \E gone \in SUBSET Kinds :
       reports' = [k \in Kinds |-> IF k \in gone THEN NoBuild ELSE reports[k]]
  /\ UNCHANGED published

Report(k) ==
  /\ published # NoBuild
  /\ reports' = [reports EXCEPT ![k] = published]
  /\ UNCHANGED published

Next ==
  \/ \E m \in Sound : Publish(m)
  \/ Withdraw
  \/ Forget
  \/ \E k \in Kinds : Report(k)

Spec == Init /\ [][Next]_svars
=============================================================================
