-------------------------- MODULE MCScenarioRunner --------------------------
(***************************************************************************)
(* Instances of ScenarioRunner for TLC: r1 takes a spine with two links    *)
(* down, r2 one of these links; link c belongs to no target.               *)
(***************************************************************************)
EXTENDS ScenarioRunner

CONSTANTS r1, r2, a, b, c

SpineTarget == [r \in Runners |-> IF r = r1 THEN <<a, b>> ELSE <<a>>]
=============================================================================
