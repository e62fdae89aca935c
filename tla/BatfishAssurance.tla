-------------------------- MODULE BatfishAssurance --------------------------
(***************************************************************************)
(* aftwin assure: the verdict on a compiled site that Batfish's answers    *)
(* about the generated router configurations lead to, before anything      *)
(* runs.                                                                   *)
(*                                                                         *)
(* The state is that of FabricContract, read differently: a link that is   *)
(* down and a route that leaks are faults of the configurations, which     *)
(* Batfish predicts the effect of.  It is external, and its routing is     *)
(* that of the network it models.  No configuration here makes a loop, so  *)
(* check_loops has nothing to find.                                        *)
(***************************************************************************)
EXTENDS FabricContract

CONSTANT NoNode \* the remote node of a session that no router answers

-----------------------------------------------------------------------------
(* Batfish: its answers when it has taken in the configurations in read.   *)

\* Links that carry nothing in the network that was taken in.
Dead(read) ==
  down \cup {l \in LinksOf("fabric") \cup LinksOf("host") :
               \E n \in EndNodes(l) \cap Routers : n \notin read}

\* bgpSessionCompatibility and bgpSessionStatus: a session that is matched on
\* the other side is established too, any other has no remote node.
SessionRows(read) ==
  UNION {{[node |-> n, remote |-> IF l \in Dead(read) THEN NoNode ELSE FarEnd(l, n)[1],
           configured |-> IF l \in Dead(read) THEN "UNKNOWN_REMOTE" ELSE "UNIQUE_MATCH",
           predicted |-> IF l \in Dead(read) THEN "NOT_COMPATIBLE" ELSE "ESTABLISHED"] :
            l \in {k \in LinksOf("fabric") : n \in EndNodes(k)}} : n \in read}

\* routes(protocols="bgp"), with the leaks; the rows of a network are one here.
RouteRows(read) ==
  LET derived == IF read = Routers THEN tables ELSE Converged(Dead(read))
  IN  UNION {{[node |-> n, route |-> r] :
                r \in {q \in derived[n] : q.protocol = "bgp"}
                      \cup {[prefix |-> k.prefix, protocol |-> "bgp", hops |-> 1] :
                              k \in {j \in leaked : j.router = n}}} : n \in read}

\* fileParseStatus of one file.
FileRows == [status : {"PASSED", "PARTIALLY_UNRECOGNIZED", "FAILED", "unknown"},
             format : {"CISCO_IOS", "other"}]

\* What is said of a configuration that is taken in.
Parsed == [status |-> "PARTIALLY_UNRECOGNIZED", format |-> "CISCO_IOS"]

ReadWhole == [n \in Routers |-> Parsed]

\* All are taken in but that of n, and of it Batfish says anything or nothing.
ReadExcept(n) ==
  {[m \in Routers |-> IF m = n THEN f ELSE Parsed] : f \in FileRows}
  \cup {[m \in Routers \ {n} |-> Parsed]}

-----------------------------------------------------------------------------
(* assure/questions.py.                                                    *)

Accepted == {"PASSED", "PARTIALLY_UNRECOGNIZED"}

\* The parse gate.  Of the issues, only benign ones are raised here.
CheckParse(files) ==
  \A n \in DOMAIN files : files[n].status \in Accepted /\ files[n].format = "CISCO_IOS"

\* Sessions are known by their nodes.
Pairs(j) == {<<j.leaf.node, j.spine.node>>, <<j.spine.node, j.leaf.node>>}
ExpectedPairs == UNION {Pairs(j) : j \in contract.bgp}

CheckSessions(rows) ==
  /\ \A r \in rows : <<r.node, r.remote>> \in ExpectedPairs
  /\ \A p \in ExpectedPairs :
       \E r \in rows : /\ <<r.node, r.remote>> = p
                       /\ r.configured = "UNIQUE_MATCH" /\ r.predicted = "ESTABLISHED"

CheckRoutes(rows) ==
  \A e \in contract.routes :
    e.protocol = "bgp" =>
      \E r \in rows : r.node = e.router /\ r.route.prefix = e.prefix /\ r.route.hops >= e.hops

\* Mutant: only the networks that a router is expected to learn are compared.
CheckIsolationExpected(rows) ==
  \A r \in rows :
    (\E e \in contract.routes : e.router = r.node /\ e.prefix = r.route.prefix)
      => ~Forbidden(r.node, r.route)

CheckIsolation(rows) == \A r \in rows : ~Forbidden(r.node, r.route)

\* Otherwise there is no verdict but an error: Batfish is for FRR only.
Assurable == \A n \in Routers : RendererOf[n] = "frr"

\* Mutant: what parses is passed.
AssuredParsed(read, files) == CheckParse(files)

\* The report passes: the other questions count only behind the parse gate.
Assured(read, files) ==
  /\ Assurable
  /\ CheckParse(files)
  /\ CheckSessions(SessionRows(read))
  /\ LET rows == RouteRows(read) IN CheckRoutes(rows) /\ CheckIsolation(rows)

-----------------------------------------------------------------------------
\* Assurance foretells verification.  Given a prediction that is right, it
\* refuses nothing of FRR that would verify; and what it passes verifies, in an
\* aligned, single-homed site, where no probe fails for reasons of its own.
AssuranceForesees ==
  contract # NoContract =>
    /\ Assurable /\ Verified => Assured(Routers, ReadWhole)
    /\ Aligned /\ SingleHomed /\ Assured(Routers, ReadWhole) => Verified

\* A configuration Batfish took nothing from does not pass unnoticed, whatever
\* it says of the file: also when it says nothing, and when the status is one
\* that the parse gate accepts.
UnreadIsFound ==
  contract # NoContract /\ Faults = 0 =>
    \A n \in Routers : \A files \in ReadExcept(n) : ~Assured(Routers \ {n}, files)

\* No two sessions of an accepted, aligned site have the same nodes, so that to
\* know them by their nodes, of which a later row overwrites an earlier, loses
\* none.
SessionsAreTheirNodes ==
  contract # NoContract /\ Aligned =>
    \A j, k \in contract.bgp : Pairs(j) = Pairs(k) => j = k
=============================================================================
