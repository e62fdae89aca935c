--------------------------- MODULE MCLabLifecycle ---------------------------
(***************************************************************************)
(* Instances of LabLifecycle for TLC.  Four inputs: base; wiring, which    *)
(* differs from base in the platform map only, so that its source file and *)
(* report are the same but its topology has one node less; renumber, which *)
(* keeps base's topology file and changes addresses; and broken, which     *)
(* fails validation.                                                       *)
(***************************************************************************)
EXTENDS LabLifecycle, TLC

CONSTANTS a, b

MCNodes == {a, b}

MCFiles == {"s1", "s2", "s3", "r1", "r2", "r3", "t1", "t2", "t3",
            "x1", "x2", "x3", "x4"}

Outputs(s, r, t, x) ==
  ("source" :> s) @@ ("report" :> r) @@ ("topology" :> t) @@ ("rest" :> x)

MCContent ==
  [i \in Inputs |->
     CASE i = "base"     -> Outputs("s1", "r1", "t1", "x1")
       [] i = "wiring"   -> Outputs("s1", "r1", "t2", "x2")
       [] i = "renumber" -> Outputs("s2", "r2", "t1", "x3")
       [] i = "broken"   -> Outputs("s3", "r3", "t3", "x4")]

MCNamesOf ==
  [f \in MCFiles |-> CASE f \in {"t1", "x1", "x3", "t3", "x4"} -> Nodes
                       [] f \in {"t2", "x2"} -> {a}
                       [] OTHER -> {}]

MCPassedReports == {"r1", "r2"}

\* Abbreviations for the configurations.
TwinInputs == {"base", "renumber", "broken"}
SmallInputs == {"base", "broken"}
AllInputs == {"base", "wiring", "renumber", "broken"}
OneNode == {a}
Slots == Permutations(Procs)
NoAssure == Commands \ {"assure"}
NoCompile == NoAssure \ {"compile"}
ShapeInputs == {"base", "wiring", "broken"}
=============================================================================
