---------------------------- MODULE NetBoxSeeder ----------------------------
(***************************************************************************)
(* aftwin seed: a fixture is written into NetBox by a long series of       *)
(* ensure calls, each a lookup by natural key followed, if nothing was     *)
(* found, by a create.  NetBox offers no transaction over the two, the     *)
(* series stops at the first error, and running it again starts from the   *)
(* beginning.                                                              *)
(*                                                                         *)
(* An object of a fixture stands for its natural key; how many records of  *)
(* NetBox match the key is all that the seeder and its readers can tell.   *)
(* Nothing in the program deletes or updates a record.                     *)
(***************************************************************************)
EXTENDS Naturals, Sequences, FiniteSets

CONSTANTS
  Seeders,      \* how many seed commands may overlap
  Objects,      \* what the fixtures describe, by natural key
  Order,        \* Order[s]: the objects s ensures, in the order of its calls
  Constrained,  \* objects NetBox itself refuses to hold twice
  MaxFaults     \* bound on the requests and commands that fail

ASSUME OrderAssumption ==
  /\ Order \in [Seeders -> Seq(Objects)]
  /\ \A s \in Seeders : Order[s] # <<>>

ASSUME ConstrainedAssumption == Constrained \subseteq Objects

ASSUME FaultAssumption == MaxFaults \in Nat

VARIABLES
  records, \* how many records NetBox holds of each object
  late,    \* creates that NetBox has still to handle, given up by the client
  seeder,  \* of every command, the phase and the position in its Order
  seeded,  \* the commands that have reported success
  calm,    \* history: no two seeds overlapped and no create was given up
  faults   \* failures so far

seedVars == <<records, late, seeder, seeded, calm, faults>>

Idle == [phase |-> "idle", at |-> 1]

SeedInit ==
  /\ records = [o \in Objects |-> 0]
  /\ late = {}
  /\ seeder = [s \in Seeders |-> Idle]
  /\ seeded = {}
  /\ calm = TRUE
  /\ faults = 0

At(s, phase) == seeder[s].phase = phase
Active(s) == ~At(s, "idle")
Target(s) == Order[s][seeder[s].at]

Exit(s) == seeder' = [seeder EXCEPT ![s] = Idle] /\ UNCHANGED seeded

\* Mutant: the end of the fixture is not noticed.
AdvancePastEnd(s) ==
  IF seeder[s].at > Len(Order[s])
    THEN /\ seeder' = [seeder EXCEPT ![s] = Idle]
         /\ seeded' = seeded \cup {s}
    ELSE /\ seeder' = [seeder EXCEPT ![s] = [phase |-> "lookup", at |-> @.at + 1]]
         /\ UNCHANGED seeded

\* ensure has returned a record: on to the next call, or done.
Advance(s) ==
  IF seeder[s].at = Len(Order[s])
    THEN /\ seeder' = [seeder EXCEPT ![s] = Idle]
         /\ seeded' = seeded \cup {s}
    ELSE /\ seeder' = [seeder EXCEPT ![s] = [phase |-> "lookup", at |-> @.at + 1]]
         /\ UNCHANGED seeded

-----------------------------------------------------------------------------
(* NetBox, which is external.                                              *)

\* A create is refused when a constraint forbids a second record.
Refuses(o) == o \in Constrained /\ records[o] > 0

Insert(o) == records' = [records EXCEPT ![o] = @ + 1]

\* A request its client no longer waits for is handled all the same.
HandleLate(o) ==
  /\ o \in late
  /\ late' = late \ {o}
  /\ IF Refuses(o) THEN UNCHANGED records ELSE Insert(o)
  /\ UNCHANGED <<seeder, seeded, calm, faults>>

-----------------------------------------------------------------------------
(* One seed command.                                                       *)

StartSeed(s) ==
  /\ At(s, "idle")
  /\ seeder' = [seeder EXCEPT ![s].phase = "lookup"]
  /\ calm' = (calm /\ \A r \in Seeders : ~Active(r))
  /\ UNCHANGED <<records, late, seeded, faults>>

\* Mutant: everything is created afresh.
LookupNothing(s) ==
  /\ At(s, "lookup")
  /\ seeder' = [seeder EXCEPT ![s].phase = "create"]
  /\ UNCHANGED <<records, late, seeded, calm, faults>>

\* Mutant: addresses are not looked up.
LookupConstrained(s) ==
  /\ At(s, "lookup")
  /\ IF Target(s) \in Constrained /\ records[Target(s)] > 0 THEN Advance(s)
     ELSE seeder' = [seeder EXCEPT ![s].phase = "create"] /\ UNCHANGED seeded
  /\ UNCHANGED <<records, late, calm, faults>>

\* NetBoxClient.ensure, the lookup: several matches raise, one is returned.
Lookup(s) ==
  /\ At(s, "lookup")
  /\ CASE records[Target(s)] > 1 -> Exit(s)
       [] records[Target(s)] = 1 -> Advance(s)
       [] records[Target(s)] = 0 ->
            seeder' = [seeder EXCEPT ![s].phase = "create"] /\ UNCHANGED seeded
  /\ UNCHANGED <<records, late, calm, faults>>

\* NetBoxClient.ensure, the create: whatever NetBox refuses raises.
Create(s) ==
  /\ At(s, "create")
  /\ IF Refuses(Target(s))
       THEN Exit(s) /\ UNCHANGED records
       ELSE Advance(s) /\ Insert(Target(s))
  /\ UNCHANGED <<late, calm, faults>>

Fault == faults < MaxFaults /\ faults' = faults + 1

\* Mutant: the error is dropped, and the next call made.
FailAndGoOn(s) ==
  /\ Active(s)
  /\ Fault
  /\ Advance(s)
  /\ UNCHANGED <<records, late, calm>>

\* A request fails before it reaches NetBox, or the command is killed.
Fail(s) ==
  /\ Active(s)
  /\ Fault
  /\ Exit(s)
  /\ UNCHANGED <<records, late, calm>>

\* The record is created, but its answer does not arrive.
AnswerLost(s) ==
  /\ At(s, "create")
  /\ ~Refuses(Target(s))
  /\ Fault
  /\ Insert(Target(s))
  /\ Exit(s)
  /\ UNCHANGED <<late, calm>>

\* The connection is lost, or the command killed, with the request under way.
GiveUp(s) ==
  /\ At(s, "create")
  /\ Fault
  /\ late' = late \cup {Target(s)}
  /\ calm' = FALSE
  /\ Exit(s)
  /\ UNCHANGED records

SeedStep(s) == Lookup(s) \/ Create(s)

SeedNext ==
  \/ \E s \in Seeders : \/ StartSeed(s) \/ SeedStep(s)
                        \/ Fail(s) \/ AnswerLost(s) \/ GiveUp(s)
  \/ \E o \in Objects : HandleLate(o)

SeedSpec == SeedInit /\ [][SeedNext]_seedVars

-----------------------------------------------------------------------------
SeedTypeOK ==
  /\ records \in [Objects -> Nat]
  /\ late \subseteq Objects
  /\ seeder \in [Seeders -> [phase : {"idle", "lookup", "create"}, at : Nat \ {0}]]
  /\ \A s \in Seeders : seeder[s].at \in 1 .. Len(Order[s])
  /\ seeded \subseteq Seeders
  /\ calm \in BOOLEAN
  /\ faults \in 0 .. MaxFaults

\* The README's "safe to repeat; no duplicate objects are created": however
\* often seeds fail, are killed or lose an answer and are run again, nothing is
\* held twice, as long as seeds do not overlap and every create NetBox received
\* was handled before its client gave up.
NothingDoubled == calm => \A o \in Objects : records[o] <= 1

\* A seed that reports success has left all of its fixture in NetBox, whatever
\* overlapped it or arrived late.
SeededIsWhole ==
  \A s \in seeded : \A k \in 1 .. Len(Order[s]) : records[Order[s][k]] >= 1

=============================================================================
