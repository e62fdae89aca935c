------------------------ MODULE SourceSnapshotProofs ------------------------
(***************************************************************************)
(* What seeding a fixture leaves in NetBox and what reading it back makes  *)
(* of it, for any fixture, any number of seeders and any failures.         *)
(***************************************************************************)
EXTENDS SourceSnapshot, FiniteSetTheorems, WellFoundedInduction, TLAPS

-----------------------------------------------------------------------------
(* Seeding.                                                                *)

\* While no seeds overlap and no create is pending, one command at most talks
\* to NetBox, and the object it is about to create is not there.
Quiet ==
  /\ late = {}
  /\ \A r, s \in Seeders : Active(r) /\ Active(s) => r = s
  /\ \A o \in Objects : records[o] <= 1
  /\ \A s \in Seeders : At(s, "create") => records[Target(s)] = 0

\* What lies behind a command in its fixture is in NetBox.
BehindIsThere ==
  \A s \in Seeders : \A k \in 1 .. Len(Order[s]) :
    k < seeder[s].at => records[Order[s][k]] >= 1

SeedInv == SeedTypeOK /\ (calm => Quiet) /\ BehindIsThere /\ SeededIsWhole

Phases == {"idle", "lookup", "create"}
SeederRecords == [phase : Phases, at : Nat \ {0}]

LEMMA OrderFacts ==
  ASSUME NEW s \in Seeders
  PROVE  /\ Len(Order[s]) \in Nat \ {0}
         /\ \A k \in 1 .. Len(Order[s]) : Order[s][k] \in Objects
<1>1. Order[s] \in Seq(Objects) /\ Order[s] # <<>>
  BY OrderAssumption
<1>2. QED
  BY <1>1

LEMMA TargetIsObject ==
  ASSUME SeedTypeOK, NEW s \in Seeders
  PROVE  Target(s) \in Objects
BY OrderFacts DEF SeedTypeOK, Target

\* Records are only ever added.
LEMMA InsertEffect ==
  ASSUME SeedTypeOK, NEW o \in Objects, Insert(o)
  PROVE  /\ records' \in [Objects -> Nat]
         /\ records'[o] = records[o] + 1
         /\ \A x \in Objects \ {o} : records'[x] = records[x]
         /\ \A x \in Objects : records'[x] >= records[x]
BY DEF SeedTypeOK, Insert

\* How a command moves.
LEMMA ExitEffect ==
  ASSUME SeedTypeOK, NEW s \in Seeders, Exit(s)
  PROVE  /\ seeder' \in [Seeders -> SeederRecords]
         /\ seeder'[s].phase = "idle" /\ seeder'[s].at = 1
         /\ \A r \in Seeders \ {s} : seeder'[r] = seeder[r]
         /\ seeded' = seeded
BY DEF SeedTypeOK, Exit, Idle, SeederRecords, Phases

LEMMA PhaseEffect ==
  ASSUME SeedTypeOK, NEW s \in Seeders, NEW p \in Phases,
         seeder' = [seeder EXCEPT ![s].phase = p]
  PROVE  /\ seeder' \in [Seeders -> SeederRecords]
         /\ seeder'[s].phase = p /\ seeder'[s].at = seeder[s].at
         /\ \A r \in Seeders \ {s} : seeder'[r] = seeder[r]
BY DEF SeedTypeOK, SeederRecords, Phases

LEMMA AdvanceEffect ==
  ASSUME SeedTypeOK, NEW s \in Seeders, Advance(s)
  PROVE  /\ seeder' \in [Seeders -> SeederRecords]
         /\ seeder'[s].phase # "create"
         /\ seeder'[s].at \in 1 .. Len(Order[s])
         /\ seeder'[s].at <= seeder[s].at + 1
         /\ \A r \in Seeders \ {s} : seeder'[r] = seeder[r]
         /\ \/ seeded' = seeded
            \/ seeded' = seeded \cup {s} /\ seeder[s].at = Len(Order[s])
<1>1. Len(Order[s]) \in Nat \ {0} /\ seeder[s].at \in 1 .. Len(Order[s])
  BY OrderFacts DEF SeedTypeOK
<1>2. CASE seeder[s].at = Len(Order[s])
  BY <1>1, <1>2 DEF SeedTypeOK, Advance, Idle, SeederRecords, Phases
<1>3. CASE seeder[s].at # Len(Order[s])
  <2>1. /\ seeder' = [seeder EXCEPT ![s] = [phase |-> "lookup", at |-> seeder[s].at + 1]]
        /\ seeded' = seeded
    BY <1>3 DEF Advance
  <2>2. seeder[s].at + 1 \in Nat \ {0} /\ seeder[s].at + 1 <= Len(Order[s])
    BY <1>1, <1>3
  <2>3. [phase |-> "lookup", at |-> seeder[s].at + 1] \in SeederRecords
    BY <2>2 DEF SeederRecords, Phases
  <2>4. QED
    BY <1>1, <2>1, <2>2, <2>3 DEF SeedTypeOK, SeederRecords, Phases
<1>4. QED
  BY <1>2, <1>3

\* A step of one command from a quiet state leaves the state quiet, provided it
\* was in its turn, and whatever it is to create next is missing.
LEMMA QuietKept ==
  ASSUME SeedTypeOK, Quiet, NEW s \in Seeders,
         Active(s) \/ \A r \in Seeders : ~Active(r),
         \A r \in Seeders \ {s} : seeder'[r] = seeder[r],
         late' = late,
         records' \in [Objects -> Nat],
         \A o \in Objects : records'[o] <= 1,
         seeder'[s].phase = "create" => records'[Target(s)'] = 0
  PROVE  Quiet'
<1>1. \A r \in Seeders \ {s} : ~Active(r) /\ ~Active(r)'
  BY DEF Quiet, Active, At
<1>2. \A r \in Seeders \ {s} : ~At(r, "create")'
  BY <1>1 DEF Active, At
<1>3. QED
  BY <1>1, <1>2 DEF Quiet, At

\* What is counted as there stays there while records are added.
LEMMA WholeKept ==
  ASSUME SeedTypeOK, SeededIsWhole, NEW s \in Seeders,
         \A o \in Objects : records'[o] \in Nat /\ records'[o] >= records[o],
         \/ seeded' = seeded
         \/ /\ seeded' = seeded \cup {s}
            /\ \A k \in 1 .. Len(Order[s]) : records'[Order[s][k]] >= 1
  PROVE  SeededIsWhole'
<1> SUFFICES ASSUME NEW r \in seeded', NEW k \in 1 .. Len(Order[r])
             PROVE  records'[Order[r][k]] >= 1
  BY DEF SeededIsWhole
<1>1. CASE r \in seeded
  <2>1. r \in Seeders
    BY <1>1 DEF SeedTypeOK
  <2>2. Order[r][k] \in Objects
    BY <2>1, OrderFacts
  <2>3. records[Order[r][k]] >= 1 /\ records[Order[r][k]] \in Nat
    BY <1>1, <2>2 DEF SeededIsWhole, SeedTypeOK
  <2>4. records'[Order[r][k]] >= records[Order[r][k]] /\ records'[Order[r][k]] \in Nat
    BY <2>2
  <2>5. QED
    BY <2>3, <2>4
<1>2. CASE r \notin seeded
  BY <1>2
<1>3. QED
  BY <1>1, <1>2

LEMMA BehindKept ==
  ASSUME SeedTypeOK, BehindIsThere, NEW s \in Seeders,
         \A o \in Objects : records'[o] \in Nat /\ records'[o] >= records[o],
         \A r \in Seeders \ {s} : seeder'[r] = seeder[r],
         seeder'[s].at \in Nat,
         seeder'[s].at <= seeder[s].at \/ /\ seeder'[s].at <= seeder[s].at + 1
                                          /\ records'[Target(s)] >= 1
  PROVE  BehindIsThere'
<1> SUFFICES ASSUME NEW r \in Seeders, NEW k \in 1 .. Len(Order[r]), k < seeder'[r].at
             PROVE  records'[Order[r][k]] >= 1
  BY DEF BehindIsThere
<1>1. Order[r][k] \in Objects
  BY OrderFacts
<1>2. records'[Order[r][k]] \in Nat /\ records[Order[r][k]] \in Nat
      /\ records'[Order[r][k]] >= records[Order[r][k]]
  BY <1>1 DEF SeedTypeOK
<1>3. seeder[r].at \in Nat
  BY DEF SeedTypeOK
<1>4. CASE k < seeder[r].at
  BY <1>2, <1>4 DEF BehindIsThere
<1>5. CASE ~(k < seeder[r].at)
  <2>1. r = s /\ k = seeder[s].at /\ records'[Target(s)] >= 1
    BY <1>3, <1>5, OrderFacts
  <2>2. QED
    BY <2>1 DEF Target
<1>6. QED
  BY <1>4, <1>5

-----------------------------------------------------------------------------
(* Every step of NetBoxSeeder keeps SeedInv.                               *)

LEMMA SeedInitially == SeedInit => SeedInv
<1> SUFFICES ASSUME SeedInit PROVE SeedInv
  OBVIOUS
<1>1. SeedTypeOK
  BY OrderFacts, FaultAssumption DEF SeedInit, SeedTypeOK, Idle
<1>2. Quiet
  BY DEF SeedInit, Quiet, Active, At, Idle
<1>3. BehindIsThere /\ SeededIsWhole
  BY DEF SeedInit, BehindIsThere, SeededIsWhole, Idle
<1>4. QED
  BY <1>1, <1>2, <1>3 DEF SeedInv

\* A step that inserts nothing keeps every record.
LEMMA SameRecords ==
  ASSUME SeedTypeOK, records' = records
  PROVE  \A o \in Objects : records'[o] \in Nat /\ records'[o] >= records[o]
BY DEF SeedTypeOK

LEMMA StartSeedKeeps ==
  ASSUME SeedInv, NEW s \in Seeders, StartSeed(s)
  PROVE  SeedInv'
<1> USE DEF SeedInv
<1>1. seeder' = [seeder EXCEPT ![s].phase = "lookup"] /\ "lookup" \in Phases
  BY DEF StartSeed, Phases
<1>2. /\ seeder' \in [Seeders -> SeederRecords]
      /\ seeder'[s].phase = "lookup" /\ seeder'[s].at = seeder[s].at
      /\ \A r \in Seeders \ {s} : seeder'[r] = seeder[r]
  BY <1>1, PhaseEffect
<1>3. SeedTypeOK'
  BY <1>2 DEF SeedTypeOK, SeederRecords, Phases, StartSeed
<1>4. calm' => Quiet'
  BY <1>2, <1>3, QuietKept DEF StartSeed, Quiet, SeedTypeOK
<1>5. BehindIsThere'
  BY <1>2, <1>3, SameRecords, BehindKept DEF StartSeed, SeedTypeOK
<1>6. SeededIsWhole'
  BY SameRecords, WholeKept DEF StartSeed
<1>7. QED
  BY <1>3, <1>4, <1>5, <1>6

\* A command that ends, whatever it got NetBox to do before.
LEMMA ExitKeeps ==
  ASSUME SeedInv, NEW s \in Seeders, Exit(s), Active(s),
         records' \in [Objects -> Nat],
         \A o \in Objects : records'[o] >= records[o],
         calm' \in BOOLEAN, faults' \in 0 .. MaxFaults, late' \subseteq Objects,
         calm' => calm /\ late' = late /\ \A o \in Objects : records'[o] <= 1
  PROVE  SeedInv'
<1> USE DEF SeedInv
<1>1. /\ seeder' \in [Seeders -> SeederRecords]
      /\ seeder'[s].phase = "idle" /\ seeder'[s].at = 1
      /\ \A r \in Seeders \ {s} : seeder'[r] = seeder[r]
      /\ seeded' = seeded
  BY ExitEffect
<1>2. 1 \in 1 .. Len(Order[s])
  BY OrderFacts
<1>3. SeedTypeOK'
  BY <1>1, <1>2 DEF SeedTypeOK, SeederRecords, Phases
<1>4. calm' => Quiet'
  BY <1>1, QuietKept
<1>5. \A o \in Objects : records'[o] \in Nat /\ records'[o] >= records[o]
  OBVIOUS
<1>6. seeder'[s].at <= seeder[s].at /\ seeder'[s].at \in Nat
  BY <1>1 DEF SeedTypeOK
<1>7. BehindIsThere'
  BY <1>1, <1>5, <1>6, BehindKept
<1>8. SeededIsWhole'
  BY <1>1, <1>5, WholeKept
<1>9. QED
  BY <1>3, <1>4, <1>7, <1>8

\* A command that goes on with its target in NetBox.
LEMMA AdvanceKeeps ==
  ASSUME SeedInv, NEW s \in Seeders, Advance(s), Active(s),
         records' \in [Objects -> Nat],
         \A o \in Objects : records'[o] >= records[o],
         records'[Target(s)] >= 1,
         calm => \A o \in Objects : records'[o] <= 1,
         UNCHANGED <<late, calm, faults>>
  PROVE  SeedInv'
<1> USE DEF SeedInv
<1>1. /\ seeder' \in [Seeders -> SeederRecords]
      /\ seeder'[s].phase # "create"
      /\ seeder'[s].at \in 1 .. Len(Order[s])
      /\ seeder'[s].at <= seeder[s].at + 1
      /\ \A r \in Seeders \ {s} : seeder'[r] = seeder[r]
      /\ \/ seeded' = seeded
         \/ seeded' = seeded \cup {s} /\ seeder[s].at = Len(Order[s])
  BY AdvanceEffect
<1>2. SeedTypeOK'
  BY <1>1 DEF SeedTypeOK, SeederRecords, Phases
<1>3. calm' => Quiet'
  BY <1>1, QuietKept
<1>4. \A o \in Objects : records'[o] \in Nat /\ records'[o] >= records[o]
  OBVIOUS
<1>5. BehindIsThere'
  BY <1>1, <1>2, <1>4, BehindKept DEF SeedTypeOK
<1>6. ASSUME seeder[s].at = Len(Order[s])
      PROVE  \A k \in 1 .. Len(Order[s]) : records'[Order[s][k]] >= 1
  <2> TAKE k \in 1 .. Len(Order[s])
  <2>1. Order[s][k] \in Objects /\ Len(Order[s]) \in Nat
    BY OrderFacts
  <2>2. CASE k < seeder[s].at
    <3>1. records[Order[s][k]] >= 1 /\ records[Order[s][k]] \in Nat
      BY <2>1, <2>2 DEF BehindIsThere, SeedTypeOK
    <3>2. QED
      BY <2>1, <3>1, <1>4
  <2>3. CASE k = seeder[s].at
    BY <2>3 DEF Target
  <2>4. QED
    BY <1>6, <2>1, <2>2, <2>3
<1>7. SeededIsWhole'
  BY <1>1, <1>4, <1>6, WholeKept
<1>8. QED
  BY <1>2, <1>3, <1>5, <1>7

LEMMA LookupKeeps ==
  ASSUME SeedInv, NEW s \in Seeders, Lookup(s)
  PROVE  SeedInv'
<1> USE DEF SeedInv
<1>1. Target(s) \in Objects /\ records[Target(s)] \in Nat
  BY TargetIsObject DEF SeedTypeOK
<1>2. /\ Active(s) /\ UNCHANGED <<records, late, calm, faults>>
      /\ records' \in [Objects -> Nat] /\ calm' \in BOOLEAN /\ faults' \in 0 .. MaxFaults
      /\ late' \subseteq Objects
      /\ calm => \A o \in Objects : records'[o] <= 1
  BY DEF Lookup, Active, At, SeedTypeOK, Quiet
<1>3. \A o \in Objects : records'[o] \in Nat /\ records'[o] >= records[o]
  BY <1>2, SameRecords
<1>4. CASE records[Target(s)] > 1
  <2>1. records[Target(s)] # 1 /\ records[Target(s)] # 0
    BY <1>1, <1>4
  <2>2. Exit(s)
    BY <1>4, <2>1, Zenon DEF Lookup
  <2>3. QED
    BY <1>2, <1>3, <2>2, ExitKeeps
<1>5. CASE records[Target(s)] = 1
  <2>1. Advance(s)
    BY <1>5 DEF Lookup
  <2>2. QED
    BY <1>1, <1>2, <1>3, <1>5, <2>1, AdvanceKeeps
<1>6. CASE records[Target(s)] = 0
  <2>1. seeder' = [seeder EXCEPT ![s].phase = "create"] /\ seeded' = seeded
        /\ "create" \in Phases
    BY <1>6 DEF Lookup, Phases
  <2>2. /\ seeder' \in [Seeders -> SeederRecords]
        /\ seeder'[s].phase = "create" /\ seeder'[s].at = seeder[s].at
        /\ \A r \in Seeders \ {s} : seeder'[r] = seeder[r]
    BY <2>1, PhaseEffect
  <2>3. SeedTypeOK'
    BY <1>2, <2>1, <2>2 DEF SeedTypeOK, SeederRecords, Phases
  <2>4. records'[Target(s)'] = 0
    BY <1>2, <1>6, <2>2 DEF Target
  <2>5. calm' => Quiet'
    BY <1>2, <2>2, <2>4, QuietKept
  <2>6. BehindIsThere'
    <3>1. seeder'[s].at \in Nat /\ seeder'[s].at <= seeder[s].at
      BY <2>2 DEF SeedTypeOK
    <3>2. QED
      BY <1>3, <2>2, <3>1, BehindKept
  <2>7. SeededIsWhole'
    BY <1>3, <2>1, WholeKept
  <2>8. QED
    BY <2>3, <2>5, <2>6, <2>7
<1>7. QED
  BY <1>1, <1>4, <1>5, <1>6

\* An insertion by a command in its turn doubles nothing.
LEMMA InsertSingle ==
  ASSUME SeedInv, NEW s \in Seeders, At(s, "create"), Insert(Target(s))
  PROVE  /\ records' \in [Objects -> Nat]
         /\ records'[Target(s)] >= 1
         /\ \A o \in Objects : records'[o] >= records[o]
         /\ calm => \A o \in Objects : records'[o] <= 1
<1> USE DEF SeedInv
<1>1. Target(s) \in Objects /\ records[Target(s)] \in Nat
  BY TargetIsObject DEF SeedTypeOK
<1>2. /\ records' \in [Objects -> Nat]
      /\ records'[Target(s)] = records[Target(s)] + 1
      /\ \A x \in Objects \ {Target(s)} : records'[x] = records[x]
      /\ \A x \in Objects : records'[x] >= records[x]
  BY <1>1, InsertEffect
<1>3. ASSUME calm PROVE \A o \in Objects : records'[o] <= 1
  BY <1>2, <1>3 DEF Quiet
<1>4. QED
  BY <1>1, <1>2, <1>3

LEMMA CreateKeeps ==
  ASSUME SeedInv, NEW s \in Seeders, Create(s)
  PROVE  SeedInv'
<1> USE DEF SeedInv
<1>1. Active(s) /\ At(s, "create") /\ UNCHANGED <<late, calm, faults>>
  BY DEF Create, Active, At
<1>2. calm' \in BOOLEAN /\ faults' \in 0 .. MaxFaults /\ late' \subseteq Objects
  BY <1>1 DEF SeedTypeOK
<1>3. CASE Refuses(Target(s))
  <2>1. Exit(s) /\ UNCHANGED records
    BY <1>3 DEF Create
  <2>2. records' \in [Objects -> Nat] /\ (calm => \A o \in Objects : records'[o] <= 1)
    BY <2>1 DEF SeedTypeOK, Quiet
  <2>3. QED
    BY <1>1, <1>2, <2>1, <2>2, SameRecords, ExitKeeps
<1>4. CASE ~Refuses(Target(s))
  <2>1. Advance(s) /\ Insert(Target(s))
    BY <1>4 DEF Create
  <2>2. QED
    BY <1>1, <2>1, InsertSingle, AdvanceKeeps
<1>5. QED
  BY <1>3, <1>4

LEMMA FailKeeps ==
  ASSUME SeedInv, NEW s \in Seeders, Fail(s)
  PROVE  SeedInv'
<1>1. Active(s) /\ Exit(s) /\ UNCHANGED <<records, late, calm>>
  BY DEF Fail
<1>2. faults' \in 0 .. MaxFaults
  BY FaultAssumption DEF Fail, Fault, SeedInv, SeedTypeOK
<1>3. QED
  BY <1>1, <1>2, SameRecords, ExitKeeps DEF SeedInv, SeedTypeOK, Quiet

LEMMA AnswerLostKeeps ==
  ASSUME SeedInv, NEW s \in Seeders, AnswerLost(s)
  PROVE  SeedInv'
<1>1. At(s, "create") /\ Active(s) /\ Insert(Target(s)) /\ Exit(s) /\ UNCHANGED <<late, calm>>
  BY DEF AnswerLost, Active, At
<1>2. faults' \in 0 .. MaxFaults
  BY FaultAssumption DEF AnswerLost, Fault, SeedInv, SeedTypeOK
<1>3. /\ records' \in [Objects -> Nat]
      /\ \A o \in Objects : records'[o] >= records[o]
      /\ calm => \A o \in Objects : records'[o] <= 1
  BY <1>1, InsertSingle
<1>4. QED
  BY <1>1, <1>2, <1>3, ExitKeeps DEF SeedInv, SeedTypeOK

LEMMA GiveUpKeeps ==
  ASSUME SeedInv, NEW s \in Seeders, GiveUp(s)
  PROVE  SeedInv'
<1>1. /\ Active(s) /\ Exit(s) /\ UNCHANGED records /\ calm' = FALSE
      /\ late' = late \cup {Target(s)}
  BY DEF GiveUp, Active, At
<1>2. faults' \in 0 .. MaxFaults
  BY FaultAssumption DEF GiveUp, Fault, SeedInv, SeedTypeOK
<1>3. late' \subseteq Objects
  BY <1>1, TargetIsObject DEF SeedInv, SeedTypeOK
<1>4. QED
  BY <1>1, <1>2, <1>3, SameRecords, ExitKeeps DEF SeedInv, SeedTypeOK

\* A late create finds no quiet to disturb.
LEMMA HandleLateKeeps ==
  ASSUME SeedInv, NEW o \in Objects, HandleLate(o)
  PROVE  SeedInv'
<1> USE DEF SeedInv
<1>1. ~calm
  BY DEF HandleLate, Quiet
<1>2. records' \in [Objects -> Nat] /\ \A x \in Objects : records'[x] >= records[x]
  BY InsertEffect, SameRecords DEF HandleLate, SeedTypeOK
<1>3. \A x \in Objects : records'[x] \in Nat /\ records[x] \in Nat
  BY <1>2 DEF SeedTypeOK
<1>4. SeedTypeOK'
  BY <1>2 DEF HandleLate, SeedTypeOK
<1>5. BehindIsThere'
  <2> SUFFICES ASSUME NEW s \in Seeders, NEW k \in 1 .. Len(Order[s]), k < seeder[s].at
               PROVE  records'[Order[s][k]] >= 1
    BY DEF BehindIsThere, HandleLate
  <2>1. Order[s][k] \in Objects /\ records[Order[s][k]] >= 1
    BY OrderFacts DEF BehindIsThere
  <2>2. QED
    BY <2>1, <1>2, <1>3
<1>6. SeededIsWhole'
  <2> SUFFICES ASSUME NEW s \in seeded, NEW k \in 1 .. Len(Order[s])
               PROVE  records'[Order[s][k]] >= 1
    BY DEF SeededIsWhole, HandleLate
  <2>1. s \in Seeders
    BY DEF SeedTypeOK
  <2>2. Order[s][k] \in Objects /\ records[Order[s][k]] >= 1
    BY <2>1, OrderFacts DEF SeededIsWhole
  <2>3. QED
    BY <2>2, <1>2, <1>3
<1>7. calm' = calm
  BY DEF HandleLate
<1>8. QED
  BY <1>1, <1>4, <1>5, <1>6, <1>7

LEMMA SeedKeeps ==
  ASSUME SeedInv, SeedNext
  PROVE  SeedInv'
<1>1. CASE \E s \in Seeders : \/ StartSeed(s) \/ SeedStep(s)
                              \/ Fail(s) \/ AnswerLost(s) \/ GiveUp(s)
  BY <1>1, StartSeedKeeps, LookupKeeps, CreateKeeps, FailKeeps, AnswerLostKeeps, GiveUpKeeps
     DEF SeedStep
<1>2. CASE \E o \in Objects : HandleLate(o)
  BY <1>2, HandleLateKeeps
<1>3. QED
  BY <1>1, <1>2 DEF SeedNext

-----------------------------------------------------------------------------
(* The theorems about seeding.                                             *)

\* The reader does not write.
LEMMA SeedInductive == Spec => []SeedInv
<1>1. Init => SeedInv
  BY SeedInitially DEF Init
<1>2. SeedInv /\ [Next]_vars => SeedInv'
  <2> SUFFICES ASSUME SeedInv, [Next]_vars PROVE SeedInv'
    OBVIOUS
  <2>1. CASE SeedNext
    BY <2>1, SeedKeeps
  <2>2. CASE UNCHANGED seedVars
    BY <2>2 DEF seedVars, SeedInv, SeedTypeOK, Quiet, Active, At, Target, BehindIsThere,
                SeededIsWhole
  <2>3. CASE ReadFails
    <3>1. UNCHANGED <<records, late, seeder, seeded, calm>>
      BY <2>3 DEF ReadFails
    <3>2. faults' \in 0 .. MaxFaults
      BY <2>3, FaultAssumption DEF ReadFails, Fault, SeedInv, SeedTypeOK
    <3>3. QED
      BY <3>1, <3>2 DEF SeedInv, SeedTypeOK, Quiet, Active, At, Target, BehindIsThere,
                        SeededIsWhole
  <2>4. QED
    BY <2>1, <2>2, <2>3 DEF Next, Reading, vars
<1>3. QED
  BY <1>1, <1>2, PTL DEF Spec

\* The seeder's records, phases and positions stay in range: no command looks
\* past the end of its fixture (NetBoxSeeder.seed).
THEOREM SeedTypeHolds == Spec => []SeedTypeOK
<1>1. SeedInv => SeedTypeOK
  BY DEF SeedInv
<1>2. QED
  BY <1>1, SeedInductive, PTL

\* Repeating seeds that failed anywhere doubles nothing, for any fixture: a
\* lookup and the create it leads to have NetBox to themselves (ensure).
THEOREM NothingDoubledHolds == Spec => []NothingDoubled
<1>1. SeedInv => NothingDoubled
  BY DEF SeedInv, Quiet, NothingDoubled
<1>2. QED
  BY <1>1, SeedInductive, PTL

\* A seed that reports success has left its whole fixture, for any number of
\* seeds that overlap it and any creates that arrive late.
THEOREM SeededHolds == Spec => []SeededIsWhole
<1>1. SeedInv => SeededIsWhole
  BY DEF SeedInv
<1>2. QED
  BY <1>1, SeedInductive, PTL

-----------------------------------------------------------------------------
(* Reading.                                                                *)

\* A device whose interfaces are being read has been read, and before the
\* devices are, no interface has.
SnapshotInv ==
  /\ reader = [step |-> reader.step, device |-> reader.device, ports |-> reader.ports]
  /\ reader.step \in {"site", "devices"} => DOMAIN ports = {}
  /\ reader.step \in {"interfaces", "addresses"} => Current.name \in Nodes
  /\ SnapshotCloses

Smaller == {mn \in Nat \X Nat : mn[1] < mn[2]}

LEMMA SmallerWellFounded == IsWellFoundedOn(Smaller, Nat)
BY NatLessThanWellFounded, Zenon DEF OpToRel, Smaller

LEMMA MinIsLeast ==
  ASSUME NEW T \in SUBSET Nat, T # {}
  PROVE  Min(T) \in T /\ \A y \in T : Min(T) <= y
<1>1. PICK x \in T : \A y \in T : ~(<<y, x>> \in Smaller)
  BY SmallerWellFounded, WFMin
<1>2. ASSUME NEW y \in T
      PROVE  x <= y
  <2>1. x \in Nat /\ y \in Nat /\ <<y, x>> \notin Smaller
    BY <1>1
  <2>2. y < x => <<y, x>> \in Smaller
    BY <2>1 DEF Smaller
  <2>3. QED
    BY <2>1, <2>2
<1>3. QED
  BY <1>2 DEF Min

LEMMA AwaitEffect ==
  ASSUME NEW step, Await(step)
  PROVE  reader' = [step |-> step, device |-> 0, ports |-> {}] /\ reader'.step = step
BY DEF Await

LEMMA NextDeviceEffect ==
  ASSUME NEW names, NextDevice(names)
  PROVE  /\ reader' = [step |-> reader'.step, device |-> reader'.device, ports |-> reader'.ports]
         /\ \/ reader'.step = "cables"
            \/ reader'.step = "interfaces" /\ Fixture.devices[reader'.device].name \in names
<1> DEFINE rest == {k \in DOMAIN Fixture.devices :
                      k > reader.device /\ Fixture.devices[k].name \in names}
<1>1. CASE rest = {}
  BY <1>1 DEF NextDevice, Await
<1>2. CASE rest # {}
  <2>1. rest \in SUBSET Nat
    BY FixtureAssumption
  <2>2. Min(rest) \in rest
    BY <1>2, <2>1, MinIsLeast
  <2>3. reader' = [step |-> "interfaces", device |-> Min(rest), ports |-> {}]
    BY <1>2 DEF NextDevice
  <2>4. QED
    BY <2>2, <2>3
<1>3. QED
  BY <1>1, <1>2

LEMMA NextPortEffect ==
  ASSUME SnapshotInv, NEW slots, NextPort(slots), Current.name \in Nodes
  PROVE  /\ reader' = [step |-> reader'.step, device |-> reader'.device, ports |-> reader'.ports]
         /\ \/ reader'.step = "cables"
            \/ /\ reader'.step \in {"interfaces", "addresses"}
               /\ Fixture.devices[reader'.device].name \in Nodes
<1>1. CASE slots = {}
  BY <1>1, NextDeviceEffect DEF NextPort
<1>2. CASE slots # {}
  <2>1. reader' = [step |-> "addresses", device |-> reader.device, ports |-> slots]
    BY <1>2 DEF NextPort, SnapshotInv
  <2>2. QED
    BY <2>1 DEF Current
<1>3. QED
  BY <1>1, <1>2

LEMMA NothingReadYet ==
  ASSUME DOMAIN ports = {}, SnapshotCloses
  PROVE  cables = {}
BY DEF SnapshotCloses

LEMMA ForgetCloses ==
  ASSUME Forget
  PROVE  DOMAIN ports' = {} /\ SnapshotCloses'
BY DEF Forget, SnapshotCloses

LEMMA ReadDevicesKeeps ==
  ASSUME SnapshotInv, ReadDevices
  PROVE  SnapshotInv'
<1> DEFINE found == {d \in FixtureDevices : InNetBox(DeviceKey(d))}
           names == {d.name : d \in found}
<1>1. NextDevice(names) /\ DOMAIN devices' = names /\ UNCHANGED <<ports, cables>>
  BY DEF ReadDevices
<1>2. DOMAIN ports = {} /\ cables = {}
  BY NothingReadYet DEF ReadDevices, SnapshotInv
<1>3. SnapshotCloses'
  BY <1>1, <1>2 DEF SnapshotCloses
<1>4. QED
  BY <1>1, <1>2, <1>3, NextDeviceEffect DEF SnapshotInv, Current, Nodes

LEMMA ReadInterfacesKeeps ==
  ASSUME SnapshotInv, ReadInterfaces
  PROVE  SnapshotInv'
<1>1. UNCHANGED <<devices, ports, cables>> /\ Current.name \in Nodes
  BY DEF ReadInterfaces, SnapshotInv, inventory
<1>2. SnapshotCloses'
  BY <1>1 DEF SnapshotInv, SnapshotCloses, Nodes
<1>3. QED
  BY <1>1, <1>2, NextPortEffect DEF ReadInterfaces, SnapshotInv, Current, Nodes

LEMMA ReadAddressesKeeps ==
  ASSUME SnapshotInv, ReadAddresses
  PROVE  SnapshotInv'
<1> DEFINE k == Min(reader.ports)
           p == Current.ports[k]
<1>1. UNCHANGED <<devices, cables>> /\ Current.name \in Nodes
  BY DEF ReadAddresses, SnapshotInv
<1>2. DOMAIN ports' = DOMAIN ports \cup {<<Current.name, p.slot>>}
  BY DEF ReadAddresses
<1>3. NextPort(reader.ports \ {k})
  BY DEF ReadAddresses
<1>4. SnapshotCloses'
  BY <1>1, <1>2 DEF SnapshotInv, SnapshotCloses, Nodes
<1>5. QED
  BY <1>1, <1>3, <1>4, NextPortEffect DEF SnapshotInv, Current, Nodes

LEMMA ReadCablesKeeps ==
  ASSUME SnapshotInv, ReadCables
  PROVE  SnapshotInv'
<1>1. UNCHANGED <<devices, ports>>
  BY DEF ReadCables
<1>2. \A c \in cables' : c[1] \in DOMAIN ports /\ c[2] \in DOMAIN ports
  BY DEF ReadCables, Selected
<1>3. SnapshotCloses'
  BY <1>1, <1>2 DEF SnapshotInv, SnapshotCloses, Nodes
<1>4. reader' = [step |-> "validate", device |-> 0, ports |-> {}]
  BY DEF ReadCables, Await
<1>5. QED
  BY <1>3, <1>4 DEF SnapshotInv

LEMMA SnapshotInductive == Spec => []SnapshotInv
<1>1. Init => SnapshotInv
  BY DEF Init, SnapshotInv, SnapshotCloses
<1>2. SnapshotInv /\ [Next]_vars => SnapshotInv'
  <2> SUFFICES ASSUME SnapshotInv, [Next]_vars PROVE SnapshotInv'
    OBVIOUS
  <2>1. CASE UNCHANGED readVars
    BY <2>1 DEF readVars, inventory, SnapshotInv, SnapshotCloses, Current, Nodes
  <2>2. CASE StartRead
    BY <2>2, ForgetCloses DEF StartRead, Await, SnapshotInv
  <2>3. CASE ReadSite
    <3>1. UNCHANGED inventory /\ DOMAIN ports = {}
      BY <2>3 DEF ReadSite, SnapshotInv
    <3>2. SnapshotCloses' /\ DOMAIN ports' = {}
      BY <3>1 DEF inventory, SnapshotInv, SnapshotCloses, Nodes
    <3>3. \/ reader' = [step |-> "devices", device |-> 0, ports |-> {}]
          \/ reader' = [step |-> "idle", device |-> 0, ports |-> {}]
      BY <2>3 DEF ReadSite, Await
    <3>4. QED
      BY <3>2, <3>3 DEF SnapshotInv
  <2>4. CASE Validate
    <3>1. UNCHANGED inventory /\ reader' = [step |-> "idle", device |-> 0, ports |-> {}]
      BY <2>4 DEF Validate, Await
    <3>2. SnapshotCloses'
      BY <3>1 DEF inventory, SnapshotInv, SnapshotCloses, Nodes
    <3>3. QED
      BY <3>1, <3>2 DEF SnapshotInv
  <2>5. CASE ReadFails
    BY <2>5, ForgetCloses DEF ReadFails, Await, SnapshotInv
  <2>6. QED
    BY <2>1, <2>2, <2>3, <2>4, <2>5, ReadDevicesKeeps, ReadInterfacesKeeps, ReadAddressesKeeps,
       ReadCablesKeeps DEF Next, Reading, ReadStep, vars, readVars
<1>3. QED
  BY <1>1, <1>2, PTL DEF Spec

\* The snapshot refers to nothing that was not read, whatever is seeded while
\* it is read and whatever fails, so that normalize finds what it looks up
\* (NetBoxAdapter.fetch_site).
THEOREM SnapshotHolds == Spec => []SnapshotCloses
<1>1. SnapshotInv => SnapshotCloses
  BY DEF SnapshotInv
<1>2. QED
  BY <1>1, SnapshotInductive, PTL
-----------------------------------------------------------------------------
(* Sequences put end to end.  What the calls of a seed are is a recursive  *)
(* function of the fixture.                                                *)

\* A set of natural numbers that has 0, and n + 1 with every n below top, has all
\* numbers up to top.
LEMMA UpTo ==
  ASSUME NEW top \in Nat, NEW S, 0 \in S, \A n \in 0 .. top : n < top /\ n \in S => n + 1 \in S
  PROVE  0 .. top \subseteq S
<1> DEFINE T == (0 .. top) \ S
<1> SUFFICES ASSUME T # {} PROVE FALSE
  OBVIOUS
<1>1. T \subseteq Nat
  OBVIOUS
<1>2. PICK x \in T : \A y \in T : ~(<<y, x>> \in Smaller)
  <2> HIDE DEF T
  <2>1. QED
    BY <1>1, SmallerWellFounded, WFMin
<1>3. x # 0 /\ x \in Nat /\ x <= top /\ x \notin S
  OBVIOUS
<1>4. x - 1 \in 0 .. top /\ x - 1 < top
  BY <1>3
<1>5. x - 1 \notin T
  <2>1. <<x - 1, x>> \in Smaller
    BY <1>3, <1>4 DEF Smaller
  <2> QED
    BY <1>2, <2>1
<1>6. QED
  BY <1>3, <1>4, <1>5

LEMMA ToSetIs ==
  ASSUME NEW T, NEW s \in Seq(T)
  PROVE  ToSet(s) = {s[i] : i \in 1 .. Len(s)} /\ ToSet(s) \subseteq T
BY DEF ToSet

\* What FlattenSeq has put together after k sequences.
Joins(g, seqs, n) ==
  g = [k \in 1 .. n |-> IF k = 1 THEN seqs[k] ELSE g[k - 1] \o seqs[k]]

LEMMA FlattenJoins ==
  ASSUME NEW seqs, NEW n \in Nat \ {0}, Len(seqs) = n
  PROVE  \E g : Joins(g, seqs, n) /\ FlattenSeq(seqs) = g[n]
<1> DEFINE S == {m \in Nat : \E g : Joins(g, seqs, m)}
<1>1. 0 \in S
  <2> DEFINE h == [k \in 1 .. 0 |-> seqs[k]]
  <2>1. Joins(h, seqs, 0)
    BY DEF Joins
  <2> HIDE DEF h
  <2>2. QED
    BY <2>1
<1>2. ASSUME NEW m \in Nat, m \in S
      PROVE  m + 1 \in S
  <2>1. PICK g : Joins(g, seqs, m)
    BY <1>2
  <2> DEFINE h == [k \in 1 .. (m + 1) |->
                     IF k = m + 1 THEN IF k = 1 THEN seqs[k] ELSE g[k - 1] \o seqs[k] ELSE g[k]]
  <2>2. ASSUME NEW k \in 1 .. (m + 1)
        PROVE  h[k] = IF k = 1 THEN seqs[k] ELSE h[k - 1] \o seqs[k]
    <3>1. k # 1 => h[k - 1] = g[k - 1]
      OBVIOUS
    <3>2. CASE k = m + 1
      BY <3>1, <3>2
    <3>3. CASE k # m + 1
      <4>1. h[k] = g[k] /\ k \in 1 .. m
        BY <3>3
      <4>2. g[k] = IF k = 1 THEN seqs[k] ELSE g[k - 1] \o seqs[k]
        BY <2>1, <4>1 DEF Joins
      <4>3. QED
        BY <3>1, <4>1, <4>2
    <3>4. QED
      BY <3>2, <3>3
  <2>3. Joins(h, seqs, m + 1)
    BY <2>2 DEF Joins
  <2> HIDE DEF h
  <2>4. QED
    BY <2>3
<1> HIDE DEF S
<1>3. n \in S
  <2>1. 0 .. n \subseteq S
    BY <1>1, <1>2, UpTo
  <2>2. QED
    BY <2>1
<1>4. \E g : Joins(g, seqs, n)
  BY <1>3 DEF S
<1>5. FlattenSeq(seqs) = (CHOOSE g : Joins(g, seqs, n))[n]
  BY DEF FlattenSeq, Joins
<1>6. QED
  BY <1>4, <1>5

\* Behind every element of a sequence is all of the sequences before it.
InTurn(s, seqs, n) ==
  \A q \in 1 .. Len(s) : \E k \in 1 .. n :
    /\ s[q] \in ToSet(seqs[k])
    /\ \A j \in 1 .. k - 1 : \A e \in ToSet(seqs[j]) : \E r \in 1 .. q - 1 : s[r] = e

LEMMA FlattenInTurn ==
  ASSUME NEW T, NEW seqs \in Seq(Seq(T)), NEW s, s = FlattenSeq(seqs)
  PROVE  /\ s \in Seq(T) /\ InTurn(s, seqs, Len(seqs))
         /\ ToSet(s) = UNION {ToSet(seqs[k]) : k \in DOMAIN seqs}
<1> DEFINE n == Len(seqs)
<1>1. n \in Nat /\ DOMAIN seqs = 1 .. n
  OBVIOUS
<1>2. CASE n = 0
  <2>1. s = <<>> /\ s = seqs
    BY <1>2 DEF FlattenSeq
  <2>2. QED
    BY <2>1 DEF InTurn, ToSet
<1>3. CASE n # 0
  <2>1. PICK g : Joins(g, seqs, n) /\ s = g[n]
    BY <1>1, <1>3, FlattenJoins
  <2>2. \A k \in 1 .. n : g[k] = IF k = 1 THEN seqs[k] ELSE g[k - 1] \o seqs[k]
    BY <1>1, <2>1 DEF Joins
  <2> DEFINE Good(m) == /\ g[m] \in Seq(T) /\ InTurn(g[m], seqs, m)
                        /\ ToSet(g[m]) = UNION {ToSet(seqs[k]) : k \in 1 .. m}
             S == {m \in Nat : m = 0 \/ m > n \/ Good(m)}
  <2>3. \A k \in 1 .. n : seqs[k] \in Seq(T)
    BY <1>1
  <2>4. Good(1)
    <3>1. g[1] = seqs[1] /\ 1 \in 1 .. n
      BY <1>1, <1>3, <2>2
    <3>2. InTurn(seqs[1], seqs, 1)
      BY DEF InTurn, ToSet
    <3>3. QED
      BY <2>3, <3>1, <3>2
  <2>5. ASSUME NEW m \in 1 .. n, m < n, Good(m)
        PROVE  Good(m + 1)
    <3> DEFINE a == g[m]
               b == seqs[m + 1]
               c == g[m + 1]
    <3>1. c = a \o b /\ a \in Seq(T) /\ b \in Seq(T)
      <4>1. m + 1 \in 1 .. n /\ m + 1 # 1 /\ (m + 1) - 1 = m
        BY <1>1, <2>5
      <4>2. c = a \o b
        BY <2>2, <4>1
      <4>3. a \in Seq(T)
        BY <2>5
      <4>4. b \in Seq(T)
        BY <2>3, <4>1
      <4>5. QED
        BY <4>2, <4>3, <4>4
    <3>2. InTurn(a, seqs, m) /\ ToSet(a) = UNION {ToSet(seqs[k]) : k \in 1 .. m}
      BY <2>5
    <3>3. m + 1 \in 1 .. n
      BY <1>1, <2>5
    <3> HIDE DEF a, b, c, n
    <3>4. c \in Seq(T) /\ Len(c) = Len(a) + Len(b) /\ Len(a) \in Nat /\ Len(b) \in Nat
      BY <3>1
    <3>5. /\ \A q \in 1 .. Len(a) : c[q] = a[q]
          /\ \A q \in 1 .. Len(b) : c[Len(a) + q] = b[q]
      BY <3>1
    <3>6. \A q \in 1 .. Len(c) : q > Len(a) =>
            q - Len(a) \in 1 .. Len(b) /\ c[q] = b[q - Len(a)]
      <4> SUFFICES ASSUME NEW q \in 1 .. Len(c), q > Len(a)
                   PROVE  q - Len(a) \in 1 .. Len(b) /\ c[q] = b[q - Len(a)]
        OBVIOUS
      <4>1. q - Len(a) \in 1 .. Len(b) /\ Len(a) + (q - Len(a)) = q
        BY <3>4
      <4>2. c[Len(a) + (q - Len(a))] = b[q - Len(a)]
        BY <3>5, <4>1
      <4>3. QED
        BY <4>1, <4>2
    <3>7. /\ ToSet(a) = {a[q] : q \in 1 .. Len(a)}
          /\ ToSet(b) = {b[q] : q \in 1 .. Len(b)}
          /\ ToSet(c) = {c[q] : q \in 1 .. Len(c)}
      <4>1. ToSet(a) = {a[q] : q \in 1 .. Len(a)}
        BY <3>1, ToSetIs
      <4>2. ToSet(b) = {b[q] : q \in 1 .. Len(b)}
        BY <3>1, ToSetIs
      <4>3. ToSet(c) = {c[q] : q \in 1 .. Len(c)}
        BY <3>4, ToSetIs
      <4>4. QED
        BY <4>1, <4>2, <4>3
    <3>8. \A e \in ToSet(a) : \E r \in 1 .. Len(a) : c[r] = e
      BY <3>5, <3>7
    <3>9. ASSUME NEW q \in 1 .. Len(c)
          PROVE  \E k \in 1 .. m + 1 :
                   /\ c[q] \in ToSet(seqs[k])
                   /\ \A j \in 1 .. k - 1 : \A e \in ToSet(seqs[j]) :
                        \E r \in 1 .. q - 1 : c[r] = e
      <4>1. CASE q <= Len(a)
        <5>1. q \in 1 .. Len(a) /\ c[q] = a[q]
          BY <3>4, <3>5, <4>1
        <5>2. PICK k \in 1 .. m :
                /\ a[q] \in ToSet(seqs[k])
                /\ \A j \in 1 .. k - 1 : \A e \in ToSet(seqs[j]) :
                     \E r \in 1 .. q - 1 : a[r] = e
          BY <3>2, <5>1 DEF InTurn
        <5>3. \A r \in 1 .. q - 1 : c[r] = a[r]
          BY <3>4, <3>5, <5>1
        <5>4. k \in 1 .. m + 1
          OBVIOUS
        <5>5. QED
          BY <5>1, <5>2, <5>3, <5>4
      <4>2. CASE q > Len(a)
        <5>1. q - Len(a) \in 1 .. Len(b) /\ c[q] = b[q - Len(a)]
          BY <3>6, <4>2
        <5>2. c[q] \in ToSet(b)
          BY <3>1, <5>1 DEF ToSet
        <5>3. ASSUME NEW j \in 1 .. m, NEW e \in ToSet(seqs[j])
              PROVE  \E r \in 1 .. q - 1 : c[r] = e
          <6>1. e \in ToSet(a)
            BY <3>2
          <6>2. QED
            BY <3>4, <3>8, <4>2, <6>1
        <5>4. m + 1 \in 1 .. m + 1 /\ (m + 1) - 1 = m
          OBVIOUS
        <5>5. QED
          BY <5>2, <5>3, <5>4 DEF b
      <4>3. QED
        BY <3>4, <4>1, <4>2
    <3>10. InTurn(c, seqs, m + 1)
      BY <3>9 DEF InTurn
    <3>11. ToSet(c) = ToSet(a) \cup ToSet(b)
      <4>1. ToSet(c) \subseteq ToSet(a) \cup ToSet(b)
        <5>1. ASSUME NEW q \in 1 .. Len(c) PROVE c[q] \in ToSet(a) \cup ToSet(b)
          <6>1. CASE q <= Len(a)
            BY <3>4, <3>5, <3>7, <6>1
          <6>2. CASE q > Len(a)
            <7>1. q - Len(a) \in 1 .. Len(b) /\ c[q] = b[q - Len(a)]
              BY <3>6, <6>2
            <7>2. QED
              BY <3>7, <7>1
          <6>3. QED
            BY <3>4, <6>1, <6>2
        <5>2. QED
          BY <3>7, <5>1
      <4>2. ToSet(a) \subseteq ToSet(c)
        <5>1. ASSUME NEW e \in ToSet(a) PROVE e \in ToSet(c)
          <6>1. PICK r \in 1 .. Len(a) : c[r] = e
            BY <3>8
          <6>2. r \in 1 .. Len(c)
            BY <3>4
          <6>3. QED
            BY <3>7, <6>1, <6>2
        <5>2. QED
          BY <5>1
      <4>3. ToSet(b) \subseteq ToSet(c)
        <5>1. ASSUME NEW q \in 1 .. Len(b) PROVE b[q] \in ToSet(c)
          <6>1. Len(a) + q \in 1 .. Len(c) /\ c[Len(a) + q] = b[q]
            BY <3>4, <3>5
          <6>2. QED
            BY <3>7, <6>1
        <5>2. QED
          BY <3>7, <5>1
      <4>4. QED
        BY <4>1, <4>2, <4>3
    <3>12. 1 .. m + 1 = (1 .. m) \cup {m + 1}
      OBVIOUS
    <3>13. ToSet(c) = UNION {ToSet(seqs[k]) : k \in 1 .. m + 1}
      BY <3>2, <3>11, <3>12 DEF b
    <3>14. QED
      BY <3>4, <3>10, <3>13 DEF c
  <2>6. 0 \in S
    OBVIOUS
  <2>7. ASSUME NEW m \in 0 .. n, m < n, m \in S
        PROVE  m + 1 \in S
    <3>1. CASE m = 0
      BY <2>4, <3>1
    <3>2. CASE m # 0
      <4>1. m \in 1 .. n /\ Good(m)
        BY <1>1, <2>7, <3>2
      <4>2. Good(m + 1)
        BY <2>5, <2>7, <4>1
      <4> HIDE DEF Good
      <4>3. QED
        BY <4>2
    <3>3. QED
      BY <3>1, <3>2
  <2> HIDE DEF S, Good
  <2>8. n \in S
    <3> HIDE DEF n
    <3>1. 0 .. n \subseteq S
      BY <1>1, <2>6, <2>7, UpTo
    <3>2. QED
      BY <1>1, <3>1
  <2>9. Good(n)
    BY <1>1, <1>3, <2>8 DEF S
  <2>10. QED
    BY <1>1, <2>1, <2>9 DEF Good
<1>4. QED
  BY <1>2, <1>3

\* The last of some positions.
LEMMA MaxIsMember ==
  ASSUME NEW n \in Nat, NEW U \in SUBSET (1 .. n), U # {}
  PROVE  Max(U) \in U /\ \A y \in U : Max(U) >= y
<1> DEFINE T == {n - x : x \in U}
<1>0. \A x \in U : x \in Nat /\ x <= n /\ n - x \in Nat
  <2>1. \A x \in U : x \in 1 .. n
    OBVIOUS
  <2>2. QED
    BY <2>1
<1>1. T \in SUBSET Nat /\ T # {}
  BY <1>0
<1>2. PICK z \in T : \A y \in T : ~(<<y, z>> \in Smaller)
  <2> HIDE DEF T
  <2>1. QED
    BY <1>1, SmallerWellFounded, WFMin
<1>3. PICK x \in U : z = n - x
  BY <1>2
<1>4. ASSUME NEW y \in U
      PROVE  x >= y
  <2>1. n - y \in T /\ n - y \in Nat /\ n - x \in Nat
    BY <1>0
  <2>2. <<n - y, n - x>> \notin Smaller
    BY <1>2, <1>3, <2>1
  <2>3. ~(n - y < n - x)
    BY <2>1, <2>2 DEF Smaller
  <2>4. QED
    BY <1>0, <2>3
<1>5. QED
  BY <1>4 DEF Max

\* What FirstUses makes of the elements at some positions.
Adds(seq, o) == IF Contains(seq, o) THEN seq ELSE Append(seq, o)

Gathers(g, s, D) ==
  g = [U \in D |-> IF U = {} THEN <<>> ELSE Adds(g[U \ {Max(U)}], s[Max(U)])]

Positions(n, m) == {U \in SUBSET (1 .. n) : Cardinality(U) <= m}

LEMMA PositionsAreFinite ==
  ASSUME NEW n \in Nat, NEW U \in SUBSET (1 .. n)
  PROVE  IsFiniteSet(U) /\ Cardinality(U) \in Nat /\ Cardinality(U) <= n
<1>1. IsFiniteSet(1 .. n) /\ Cardinality(1 .. n) = n
  BY FS_Interval
<1>2. IsFiniteSet(U) /\ Cardinality(U) <= n
  BY <1>1, FS_Subset
<1>3. QED
  BY <1>2, FS_CardinalityType

LEMMA OneLess ==
  ASSUME NEW n \in Nat, NEW m \in Nat, NEW U \in Positions(n, m + 1), U # {}
  PROVE  Max(U) \in 1 .. n /\ U \ {Max(U)} \in Positions(n, m)
<1>1. U \in SUBSET (1 .. n) /\ Max(U) \in U
  BY MaxIsMember DEF Positions
<1>2. IsFiniteSet(U)
  BY <1>1, PositionsAreFinite
<1>3. Cardinality(U \ {Max(U)}) = Cardinality(U) - 1 /\ Cardinality(U) \in Nat
  BY <1>1, <1>2, FS_RemoveElement, FS_CardinalityType
<1>4. Cardinality(U) <= m + 1
  BY DEF Positions
<1>5. U \ {Max(U)} \in SUBSET (1 .. n) /\ Cardinality(U \ {Max(U)}) <= m
  <2>1. Cardinality(U) - 1 <= m
    BY <1>3, <1>4
  <2>2. QED
    BY <1>1, <1>3, <2>1
<1>6. QED
  BY <1>1, <1>5 DEF Positions

LEMMA PositionsGrow ==
  ASSUME NEW n \in Nat, NEW m \in Nat, NEW U \in Positions(n, m)
  PROVE  U \in Positions(n, m + 1)
<1>1. Cardinality(U) \in Nat
  BY PositionsAreFinite DEF Positions
<1>2. QED
  BY <1>1 DEF Positions

LEMMA FirstUsesGathers ==
  ASSUME NEW T, NEW s \in Seq(T)
  PROVE  \E g : Gathers(g, s, SUBSET (1 .. Len(s))) /\ FirstUses(s) = g[1 .. Len(s)]
<1> DEFINE n == Len(s)
           S == {m \in Nat : \E g : Gathers(g, s, Positions(n, m))}
<1>0. n \in Nat /\ DOMAIN s = 1 .. n
  OBVIOUS
<1> HIDE DEF n
<1>1. 0 \in S
  <2> DEFINE h == [U \in Positions(n, 0) |-> <<>>]
  <2>1. \A U \in Positions(n, 0) : U = {}
    <3> SUFFICES ASSUME NEW U \in Positions(n, 0) PROVE U = {}
      OBVIOUS
    <3>1. U \in SUBSET (1 .. n) /\ Cardinality(U) <= 0
      BY DEF Positions
    <3>2. IsFiniteSet(U) /\ Cardinality(U) = 0
      BY <1>0, <3>1, PositionsAreFinite
    <3>3. QED
      BY <3>2, FS_EmptySet
  <2>2. Gathers(h, s, Positions(n, 0))
    BY <2>1 DEF Gathers
  <2> HIDE DEF h
  <2>3. QED
    BY <2>2
<1>2. ASSUME NEW m \in Nat, m \in S
      PROVE  m + 1 \in S
  <2>1. PICK g : Gathers(g, s, Positions(n, m))
    BY <1>2
  <2>2. \A U \in Positions(n, m) :
          g[U] = IF U = {} THEN <<>> ELSE Adds(g[U \ {Max(U)}], s[Max(U)])
    BY <2>1 DEF Gathers
  <2> DEFINE Value(U) == IF U = {} THEN <<>> ELSE Adds(g[U \ {Max(U)}], s[Max(U)])
             h == [U \in Positions(n, m + 1) |-> Value(U)]
  <2>3. \A U \in Positions(n, m) : h[U] = g[U]
    BY <1>0, <2>2, PositionsGrow
  <2>4. ASSUME NEW U \in Positions(n, m + 1)
        PROVE  Value(U) = IF U = {} THEN <<>> ELSE Adds(h[U \ {Max(U)}], s[Max(U)])
    <3>1. CASE U = {}
      BY <3>1
    <3>2. CASE U # {}
      <4>1. h[U \ {Max(U)}] = g[U \ {Max(U)}]
        BY <1>0, <2>3, <3>2, OneLess
      <4> HIDE DEF h
      <4>2. QED
        BY <3>2, <4>1
    <3>3. QED
      BY <3>1, <3>2
  <2>5. Gathers(h, s, Positions(n, m + 1))
    <3> DEFINE f == [U \in Positions(n, m + 1) |->
                       IF U = {} THEN <<>> ELSE Adds(h[U \ {Max(U)}], s[Max(U)])]
    <3>1. h = f
      BY <2>4
    <3>2. QED
      BY <3>1 DEF Gathers
  <2> HIDE DEF h
  <2>6. QED
    BY <2>5
<1> HIDE DEF S
<1>3. n \in S
  <2>1. 0 .. n \subseteq S
    BY <1>0, <1>1, <1>2, UpTo
  <2>2. QED
    BY <1>0, <2>1
<1>4. Positions(n, n) = SUBSET (1 .. n)
  BY <1>0, PositionsAreFinite DEF Positions
<1>5. \E g : Gathers(g, s, SUBSET (1 .. n))
  BY <1>3, <1>4 DEF S
<1>6. FirstUses(s) = (CHOOSE g : Gathers(g, s, SUBSET (1 .. n)))[1 .. n]
  BY <1>0 DEF FirstUses, FoldLeft, MapThenFoldSet, Gathers, Adds
<1>7. QED
  BY <1>5, <1>6 DEF n

\* FirstUses makes up no elements.
LEMMA FirstUsesFrom ==
  ASSUME NEW T, NEW s \in Seq(T)
  PROVE  FirstUses(s) \in Seq(T)
<1> DEFINE n == Len(s)
<1>0. n \in Nat /\ \A i \in 1 .. n : s[i] \in T
  OBVIOUS
<1>1. PICK g : Gathers(g, s, SUBSET (1 .. n)) /\ FirstUses(s) = g[1 .. n]
  BY FirstUsesGathers
<1> HIDE DEF n
<1>2. \A U \in SUBSET (1 .. n) :
        g[U] = IF U = {} THEN <<>> ELSE Adds(g[U \ {Max(U)}], s[Max(U)])
  BY <1>1 DEF Gathers
<1>3. g[{}] \in Seq(T)
  <2>1. {} \in SUBSET (1 .. n) /\ <<>> \in Seq(T)
    OBVIOUS
  <2>2. g[{}] = <<>>
    BY <1>2, <2>1
  <2>3. QED
    BY <2>1, <2>2
<1> DEFINE S == {m \in Nat : \A U \in Positions(n, m) : g[U] \in Seq(T)}
<1>4. 0 \in S
  <2>1. ASSUME NEW U \in Positions(n, 0) PROVE g[U] \in Seq(T)
    <3>1. U \in SUBSET (1 .. n) /\ Cardinality(U) <= 0
      BY DEF Positions
    <3>2. IsFiniteSet(U) /\ Cardinality(U) = 0
      BY <1>0, <3>1, PositionsAreFinite
    <3>3. U = {}
      BY <3>2, FS_EmptySet
    <3>4. QED
      BY <1>3, <3>3
  <2>2. QED
    BY <2>1
<1>5. ASSUME NEW m \in Nat, m \in S
      PROVE  m + 1 \in S
  <2>1. ASSUME NEW U \in Positions(n, m + 1) PROVE g[U] \in Seq(T)
    <3>1. U \in SUBSET (1 .. n)
      BY DEF Positions
    <3>2. CASE U = {}
      BY <1>3, <3>2
    <3>3. CASE U # {}
      <4>1. Max(U) \in 1 .. n /\ U \ {Max(U)} \in Positions(n, m)
        BY <1>0, <3>3, OneLess
      <4>2. g[U \ {Max(U)}] \in Seq(T)
        BY <1>5, <4>1
      <4>3. g[U] = Adds(g[U \ {Max(U)}], s[Max(U)])
        BY <1>2, <3>1, <3>3
      <4>4. QED
        BY <1>0, <4>1, <4>2, <4>3 DEF Adds
    <3>4. QED
      BY <3>2, <3>3
  <2>2. QED
    BY <2>1
<1> HIDE DEF S
<1>6. n \in S
  <2>1. \A m \in 0 .. n : m < n /\ m \in S => m + 1 \in S
    BY <1>0, <1>5
  <2>2. 0 .. n \subseteq S
    BY <1>0, <1>4, <2>1, UpTo
  <2>3. QED
    BY <1>0, <2>2
<1>7. 1 .. n \in Positions(n, n)
  BY <1>0, PositionsAreFinite DEF Positions
<1>8. QED
  BY <1>1, <1>6, <1>7 DEF S

-----------------------------------------------------------------------------
(* The calls of a seed are in file order: before a device come all of      *)
(* the calls for the devices before it.                                    *)

Indices == DOMAIN Fixture.devices
Device(k) == Fixture.devices[k]

CommonKeys ==
  {SiteKey, TagKey, FieldsKey} \cup {RoleKey(d) : d \in FixtureDevices}
    \cup {PlatformKey(d) : d \in FixtureDevices}

PortKeys(d) ==
  {InterfaceKey(d, p) : p \in ToSet(d.ports)}
    \cup UNION {{AddressKey(d, p, x) : x \in ToSet(p.addresses)} : p \in ToSet(d.ports)}

DeviceKeys(d) == {AsnKey(d), DeviceKey(d)} \cup PortKeys(d)

LEMMA FixtureFacts ==
  /\ Fixture.devices \in Seq(FixtureDevices) /\ Indices = 1 .. Len(Fixture.devices)
  /\ Len(Fixture.devices) \in Nat
  /\ FixtureDevices = {Device(k) : k \in Indices}
  /\ \A k \in Indices : Device(k) \in FixtureDevices
  /\ \A d \in FixtureDevices :
       /\ d.ports \in Seq(ToSet(d.ports))
       /\ DOMAIN d.ports = 1 .. Len(d.ports) /\ Len(d.ports) \in Nat
       /\ ToSet(d.ports) = {d.ports[k] : k \in DOMAIN d.ports}
<1> USE FixtureAssumption
<1>1. Fixture.devices \in Seq(FixtureDevices) /\ Indices = 1 .. Len(Fixture.devices)
  BY DEF FixtureDevices, Indices
<1>2. FixtureDevices = {Device(k) : k \in Indices}
  BY DEF FixtureDevices, Indices, ToSet, Device
<1>3. ASSUME NEW d \in FixtureDevices
      PROVE  /\ d.ports \in Seq(ToSet(d.ports))
             /\ DOMAIN d.ports = 1 .. Len(d.ports) /\ Len(d.ports) \in Nat
             /\ ToSet(d.ports) = {d.ports[k] : k \in DOMAIN d.ports}
  <2>1. d.ports \in Seq(ToSet(d.ports))
    BY DEF FixtureDevices
  <2>2. DOMAIN d.ports = 1 .. Len(d.ports) /\ Len(d.ports) \in Nat
    BY <2>1
  <2>3. ToSet(d.ports) = {d.ports[k] : k \in DOMAIN d.ports}
    BY DEF ToSet
  <2>4. QED
    BY <2>1, <2>2, <2>3
<1>4. Len(Fixture.devices) \in Nat /\ \A k \in Indices : Device(k) \in FixtureDevices
  BY <1>1, <1>2
<1>5. QED
  BY <1>1, <1>2, <1>3, <1>4

LEMMA CommonIs == Common(Fixture) \in Seq(CommonKeys)
<1> DEFINE pairs == [k \in DOMAIN Fixture.devices |->
                       <<RoleKey(Fixture.devices[k]), PlatformKey(Fixture.devices[k])>>]
<1>1. pairs \in Seq(Seq(CommonKeys))
  <2>1. \A k \in Indices : <<RoleKey(Device(k)), PlatformKey(Device(k))>> \in Seq(CommonKeys)
    <3> SUFFICES ASSUME NEW k \in Indices
                 PROVE  <<RoleKey(Device(k)), PlatformKey(Device(k))>> \in Seq(CommonKeys)
      OBVIOUS
    <3>1. RoleKey(Device(k)) \in CommonKeys /\ PlatformKey(Device(k)) \in CommonKeys
      BY FixtureFacts DEF CommonKeys
    <3>2. QED
      BY <3>1
  <2>2. QED
    BY <2>1, FixtureFacts DEF Indices, Device
<1> HIDE DEF pairs
<1>2. FirstUses(FlattenSeq(pairs)) \in Seq(CommonKeys)
  BY <1>1, FlattenInTurn, FirstUsesFrom
<1>3. <<SiteKey, TagKey, FieldsKey>> \in Seq(CommonKeys)
  BY DEF CommonKeys
<1>4. QED
  BY <1>2, <1>3 DEF Common, pairs

LEMMA InterfaceCallsAre ==
  ASSUME NEW d \in FixtureDevices, NEW p \in ToSet(d.ports)
  PROVE  /\ InterfaceCalls(d, p) \in Seq(PortKeys(d))
         /\ InterfaceKey(d, p) \in ToSet(InterfaceCalls(d, p))
         /\ \A x \in ToSet(p.addresses) : AddressKey(d, p, x) \in ToSet(InterfaceCalls(d, p))
<1>1. p.addresses \in Seq(ToSet(p.addresses))
  BY FixtureAssumption DEF FixtureDevices
<1>2. \A k \in DOMAIN p.addresses : p.addresses[k] \in ToSet(p.addresses)
  BY DEF ToSet
<1> DEFINE own == [k \in DOMAIN p.addresses |-> AddressKey(d, p, p.addresses[k])]
<1>3. own \in Seq(PortKeys(d))
  BY <1>1, <1>2 DEF PortKeys
<1>4. <<InterfaceKey(d, p)>> \in Seq(PortKeys(d))
  BY DEF PortKeys
<1> HIDE DEF own
<1>5. InterfaceCalls(d, p) = <<InterfaceKey(d, p)>> \o own
  BY DEF InterfaceCalls, own
<1>6. InterfaceCalls(d, p)[1] = InterfaceKey(d, p) /\ 1 \in DOMAIN InterfaceCalls(d, p)
  BY <1>3, <1>4, <1>5
<1>7. InterfaceCalls(d, p) \in Seq(PortKeys(d))
  BY <1>3, <1>4, <1>5
<1>8. ASSUME NEW x \in ToSet(p.addresses)
      PROVE  AddressKey(d, p, x) \in ToSet(InterfaceCalls(d, p))
  <2>1. PICK k \in DOMAIN p.addresses : x = p.addresses[k]
    BY DEF ToSet
  <2>2. own[k] = AddressKey(d, p, x) /\ k \in 1 .. Len(own)
    BY <1>1, <2>1 DEF own
  <2>3. InterfaceCalls(d, p)[1 + k] = own[k] /\ 1 + k \in 1 .. Len(InterfaceCalls(d, p))
    BY <1>3, <1>4, <1>5, <2>2
  <2>4. QED
    BY <1>7, <2>2, <2>3, ToSetIs
<1>9. QED
  BY <1>6, <1>7, <1>8 DEF ToSet

LEMMA DeviceCallsAre ==
  ASSUME NEW d \in FixtureDevices
  PROVE  /\ DeviceCalls(d) \in Seq(DeviceKeys(d))
         /\ DeviceKey(d) \in ToSet(DeviceCalls(d))
         /\ \A p \in ToSet(d.ports) : ToSet(InterfaceCalls(d, p)) \subseteq ToSet(DeviceCalls(d))
<1> DEFINE calls == [k \in DOMAIN d.ports |-> InterfaceCalls(d, d.ports[k])]
           own == FlattenSeq(calls)
           asn == IF d.asn = NoAsn THEN <<>> ELSE <<AsnKey(d)>>
<1>1. /\ d.ports \in Seq(ToSet(d.ports)) /\ DOMAIN d.ports = 1 .. Len(d.ports)
      /\ Len(d.ports) \in Nat
      /\ ToSet(d.ports) = {d.ports[k] : k \in DOMAIN d.ports}
  BY FixtureFacts
<1>2. \A k \in DOMAIN d.ports : InterfaceCalls(d, d.ports[k]) \in Seq(PortKeys(d))
  BY <1>1, InterfaceCallsAre
<1>3. calls \in Seq(Seq(PortKeys(d))) /\ DOMAIN calls = DOMAIN d.ports
  BY <1>1, <1>2
<1>4. \A k \in DOMAIN d.ports : calls[k] = InterfaceCalls(d, d.ports[k])
  OBVIOUS
<1> HIDE DEF calls
<1>5. own \in Seq(PortKeys(d)) /\ ToSet(own) = UNION {ToSet(calls[k]) : k \in DOMAIN calls}
  BY <1>3, FlattenInTurn
<1>6. own \in Seq(DeviceKeys(d))
  BY <1>5 DEF DeviceKeys
<1>7. asn \in Seq(DeviceKeys(d)) /\ <<DeviceKey(d)>> \in Seq(DeviceKeys(d))
  BY DEF DeviceKeys
<1>8. DeviceCalls(d) = asn \o <<DeviceKey(d)>> \o own
  BY DEF DeviceCalls, calls
<1> HIDE DEF own, asn
<1>9. DeviceCalls(d) \in Seq(DeviceKeys(d))
  BY <1>6, <1>7, <1>8
<1>10. DeviceKey(d) \in ToSet(DeviceCalls(d))
  <2>1. /\ Len(asn) + 1 \in 1 .. Len(DeviceCalls(d))
        /\ DeviceCalls(d)[Len(asn) + 1] = DeviceKey(d)
    BY <1>6, <1>7, <1>8
  <2>2. QED
    BY <1>9, <2>1, ToSetIs
<1>11. ASSUME NEW p \in ToSet(d.ports), NEW o \in ToSet(InterfaceCalls(d, p))
       PROVE  o \in ToSet(DeviceCalls(d))
  <2>1. o \in ToSet(own)
    BY <1>1, <1>3, <1>4, <1>5
  <2>2. PICK q \in 1 .. Len(own) : own[q] = o
    BY <1>5, <2>1, ToSetIs
  <2>3. /\ Len(asn) + 1 + q \in 1 .. Len(DeviceCalls(d))
        /\ DeviceCalls(d)[Len(asn) + 1 + q] = own[q]
    <3>1. (asn \o <<DeviceKey(d)>>) \in Seq(DeviceKeys(d)) /\ Len(asn \o <<DeviceKey(d)>>) = Len(asn) + 1
      BY <1>7
    <3>2. QED
      BY <1>6, <1>7, <1>8, <3>1
  <2>4. QED
    BY <1>9, <2>2, <2>3, ToSetIs
<1>12. QED
  BY <1>9, <1>10, <1>11

\* No other call has the key of a device.
LEMMA DeviceKeyOnly ==
  ASSUME NEW d, NEW o, o = DeviceKey(d)
  PROVE  /\ o \notin CommonKeys
         /\ \A l : o # CableKey(l)
         /\ \A e \in FixtureDevices : o \in DeviceKeys(e) => d.name = e.name
<1>1. o[1] = "devices" /\ o[2] = d.name
  BY DEF DeviceKey
<1>2. o \notin CommonKeys
  <2>1. \A x \in CommonKeys : x[1] # "devices"
    BY DEF CommonKeys, SiteKey, TagKey, FieldsKey, RoleKey, PlatformKey
  <2>2. QED
    BY <1>1, <2>1
<1>3. \A l : o # CableKey(l)
  BY <1>1 DEF CableKey
<1>4. ASSUME NEW e \in FixtureDevices, o \in DeviceKeys(e)
      PROVE  d.name = e.name
  <2>1. \A x \in PortKeys(e) : x[1] # "devices"
    BY DEF PortKeys, InterfaceKey, AddressKey
  <2>2. AsnKey(e)[1] # "devices"
    BY DEF AsnKey
  <2>3. o = DeviceKey(e)
    BY <1>1, <1>4, <2>1, <2>2 DEF DeviceKeys
  <2>4. QED
    BY <1>1, <2>3 DEF DeviceKey
<1>5. QED
  BY <1>2, <1>3, <1>4

\* What every command goes through.
Calls == EnsureCalls(Fixture)
CallParts == [k \in DOMAIN Fixture.devices |-> DeviceCalls(Fixture.devices[k])]
DevicePart == FlattenSeq(CallParts)
AllDeviceKeys == UNION {DeviceKeys(d) : d \in FixtureDevices}
CableKeys == {CableKey(Fixture.links[k]) : k \in DOMAIN Fixture.links}
AllKeys == CommonKeys \cup AllDeviceKeys \cup CableKeys

LEMMA PartsAre ==
  /\ CallParts \in Seq(Seq(AllDeviceKeys)) /\ Len(CallParts) = Len(Fixture.devices)
  /\ DOMAIN CallParts = Indices
  /\ \A k \in Indices : CallParts[k] = DeviceCalls(Device(k))
<1>1. \A k \in Indices : DeviceCalls(Device(k)) \in Seq(AllDeviceKeys)
  <2> SUFFICES ASSUME NEW k \in Indices PROVE DeviceCalls(Device(k)) \in Seq(AllDeviceKeys)
    OBVIOUS
  <2>1. Device(k) \in FixtureDevices
    BY FixtureFacts
  <2>2. DeviceCalls(Device(k)) \in Seq(DeviceKeys(Device(k)))
    BY <2>1, DeviceCallsAre
  <2>3. DeviceKeys(Device(k)) \subseteq AllDeviceKeys
    BY <2>1 DEF AllDeviceKeys
  <2>4. QED
    BY <2>2, <2>3
<1>2. QED
  BY <1>1, FixtureFacts DEF Indices, Device, CallParts

\* The calls come in three parts.
LEMMA CallsAre ==
  ASSUME NEW c, c = Len(Common(Fixture)), NEW f, f = Len(DevicePart)
  PROVE  /\ Calls \in Seq(AllKeys)
         /\ c \in Nat /\ f \in Nat /\ Len(Calls) \in Nat
         /\ \A q \in 1 .. c : Calls[q] \in CommonKeys
         /\ \A q \in 1 .. f : Calls[c + q] = DevicePart[q] /\ c + q \in 1 .. Len(Calls)
         /\ \A q \in 1 .. Len(Calls) : q > c + f => Calls[q] \in CableKeys
<1> DEFINE a == Common(Fixture)
           b == DevicePart
           w == [k \in DOMAIN Fixture.links |-> CableKey(Fixture.links[k])]
<1>1. w \in Seq(CableKeys)
  <2>1. Fixture.links \in Seq(ToSet(Fixture.links))
    BY FixtureAssumption
  <2>2. DOMAIN Fixture.links = 1 .. Len(Fixture.links) /\ Len(Fixture.links) \in Nat
    BY <2>1
  <2>3. \A k \in DOMAIN Fixture.links : CableKey(Fixture.links[k]) \in CableKeys
    BY DEF CableKeys
  <2>4. QED
    BY <2>2, <2>3
<1>2. Calls = (a \o b) \o w
  BY DEF Calls, EnsureCalls, DevicePart, CallParts
<1>3. a \in Seq(CommonKeys)
  BY CommonIs
<1>4. b \in Seq(AllDeviceKeys)
  BY PartsAre, FlattenInTurn DEF DevicePart
<1> HIDE DEF a, b, w
<1>5. a \in Seq(AllKeys) /\ b \in Seq(AllKeys) /\ w \in Seq(AllKeys)
  BY <1>1, <1>3, <1>4 DEF AllKeys
<1>6. c = Len(a) /\ f = Len(b) /\ c \in Nat /\ f \in Nat /\ Len(w) \in Nat
  BY <1>5 DEF a, b
<1>7. (a \o b) \in Seq(AllKeys) /\ Len(a \o b) = c + f
  BY <1>5, <1>6
<1>8. Calls \in Seq(AllKeys) /\ Len(Calls) = (c + f) + Len(w)
  <2>1. \A y, z \in Seq(AllKeys) : y \o z \in Seq(AllKeys) /\ Len(y \o z) = Len(y) + Len(z)
    OBVIOUS
  <2>2. QED
    BY <1>2, <1>5, <1>7, <2>1
<1>9. ASSUME NEW q \in 1 .. c PROVE Calls[q] \in CommonKeys
  <2>1. (a \o b)[q] = a[q] /\ q \in 1 .. Len(a \o b)
    BY <1>5, <1>6, <1>7
  <2>2. Calls[q] = (a \o b)[q]
    BY <1>2, <1>5, <1>7, <2>1
  <2>3. QED
    BY <1>3, <1>6, <2>1, <2>2
<1>10. ASSUME NEW q \in 1 .. f PROVE Calls[c + q] = b[q] /\ c + q \in 1 .. Len(Calls)
  <2>1. (a \o b)[c + q] = b[q] /\ c + q \in 1 .. Len(a \o b)
    BY <1>5, <1>6, <1>7
  <2>2. Calls[c + q] = (a \o b)[c + q]
    BY <1>2, <1>5, <1>7, <2>1
  <2>3. QED
    BY <1>6, <1>7, <1>8, <2>1, <2>2
<1>11. ASSUME NEW q \in 1 .. Len(Calls), q > c + f PROVE Calls[q] \in CableKeys
  <2>1. q - (c + f) \in 1 .. Len(w)
    BY <1>6, <1>8, <1>11
  <2>2. Calls[q] = w[q - (c + f)]
    BY <1>2, <1>5, <1>6, <1>7, <1>11
  <2>3. QED
    BY <1>1, <2>1, <2>2
<1>12. b = DevicePart
  BY DEF b
<1>13. \A q \in 1 .. f : Calls[c + q] = DevicePart[q] /\ c + q \in 1 .. Len(Calls)
  BY <1>10, <1>12
<1>14. Calls \in Seq(AllKeys) /\ c \in Nat /\ f \in Nat /\ Len(Calls) \in Nat
  BY <1>6, <1>8
<1>15. \A q \in 1 .. c : Calls[q] \in CommonKeys
  BY <1>9
<1>16. \A q \in 1 .. Len(Calls) : q > c + f => Calls[q] \in CableKeys
  BY <1>11
<1>17. QED
  BY <1>13, <1>14, <1>15, <1>16

LEMMA CallsAreInFileOrder ==
  ASSUME Distinct, NEW j \in Indices, NEW k \in Indices, j < k,
         NEW q \in 1 .. Len(Calls), Calls[q] = DeviceKey(Device(k)),
         NEW e \in ToSet(DeviceCalls(Device(j)))
  PROVE  \E r \in 1 .. q - 1 : Calls[r] = e
<1> DEFINE c == Len(Common(Fixture))
           f == Len(DevicePart)
           i == q - c
<1>1. /\ c \in Nat /\ f \in Nat
      /\ \A x \in 1 .. c : Calls[x] \in CommonKeys
      /\ \A x \in 1 .. f : Calls[c + x] = DevicePart[x]
      /\ q > c + f => Calls[q] \in CableKeys
  BY CallsAre
<1>2. j \in Nat /\ k \in Nat /\ q \in Nat
  <2>1. Len(Calls) \in Nat
    BY CallsAre
  <2>2. q \in Nat
    BY <2>1
  <2>3. Indices = 1 .. Len(Fixture.devices) /\ Len(Fixture.devices) \in Nat
    BY FixtureFacts
  <2>4. j \in Nat /\ k \in Nat
    BY <2>3
  <2>5. QED
    BY <2>2, <2>4
<1> HIDE DEF c, f
<1>3. q > c
  <2> SUFFICES ASSUME q <= c PROVE FALSE
    BY <1>1, <1>2
  <2>1. Calls[q] \in CommonKeys
    BY <1>1
  <2>2. QED
    BY <2>1, DeviceKeyOnly
<1>4. q <= c + f
  <2> SUFFICES ASSUME q > c + f PROVE FALSE
    BY <1>1, <1>2
  <2>1. QED
    BY <1>1, DeviceKeyOnly DEF CableKeys
<1>5. i \in 1 .. f /\ c + i = q
  BY <1>1, <1>2, <1>3, <1>4
<1>6. DevicePart[i] = DeviceKey(Device(k))
  BY <1>1, <1>5
<1>7. InTurn(DevicePart, CallParts, Len(Fixture.devices))
  BY PartsAre, FlattenInTurn DEF DevicePart
<1>8. PICK m \in 1 .. Len(Fixture.devices) :
        /\ DevicePart[i] \in ToSet(CallParts[m])
        /\ \A n \in 1 .. m - 1 : \A x \in ToSet(CallParts[n]) :
             \E r \in 1 .. i - 1 : DevicePart[r] = x
  BY <1>5, <1>7 DEF InTurn, f
<1>9. m = k
  <2>1. m \in Indices /\ Device(m) \in FixtureDevices /\ CallParts[m] = DeviceCalls(Device(m))
    BY PartsAre, FixtureFacts
  <2>2. DevicePart[i] \in DeviceKeys(Device(m))
    BY <1>8, <2>1, DeviceCallsAre, ToSetIs
  <2>3. Device(k).name = Device(m).name
    BY <1>6, <2>1, <2>2, DeviceKeyOnly
  <2>4. QED
    BY <2>1, <2>3 DEF Distinct, Indices, Device
<1>10. j \in 1 .. m - 1 /\ e \in ToSet(CallParts[j])
  <2>1. j \in 1 .. m - 1
    BY <1>2, <1>9, FixtureFacts
  <2>2. QED
    BY <2>1, PartsAre
<1>11. PICK r \in 1 .. i - 1 : DevicePart[r] = e
  BY <1>8, <1>10
<1>12. c + r \in 1 .. q - 1 /\ r \in 1 .. f
  BY <1>1, <1>2, <1>5
<1>13. QED
  BY <1>1, <1>11, <1>12

LEMMA CallsAreObjects ==
  /\ Calls \in Seq(Objects) /\ Len(Calls) \in Nat
  /\ \A d \in FixtureDevices : ToSet(DeviceCalls(d)) \subseteq Objects
<1>1. Calls \in Seq(AllKeys) /\ Len(Calls) \in Nat
  BY CallsAre
<1>2. ToSet(Calls) \subseteq Objects
  BY FixtureAssumption DEF Calls
<1>3. ToSet(Calls) = {Calls[q] : q \in 1 .. Len(Calls)}
  BY <1>1, ToSetIs
<1>4. Calls \in Seq(Objects)
  BY <1>1, <1>2, <1>3
<1>5. ASSUME NEW d \in FixtureDevices, NEW o \in ToSet(DeviceCalls(d))
      PROVE  o \in Objects
  <2>1. PICK k \in Indices : d = Device(k)
    BY FixtureFacts
  <2>2. DevicePart \in Seq(AllDeviceKeys) /\ o \in ToSet(DevicePart)
    BY <2>1, PartsAre, FlattenInTurn DEF DevicePart
  <2>3. PICK q \in 1 .. Len(DevicePart) : DevicePart[q] = o
    BY <2>2, ToSetIs
  <2>4. o \in ToSet(Calls)
    BY <1>3, <2>3, CallsAre
  <2>5. QED
    BY <1>2, <2>4
<1>6. QED
  BY <1>1, <1>4, <1>5

-----------------------------------------------------------------------------
(* NetBox holds the fixture from its beginning.                            *)

\* All calls before one for o have been made.
Reached(o) ==
  \E q \in 1 .. Len(Calls) : Calls[q] = o /\ \A r \in 1 .. q - 1 : records[Calls[r]] >= 1

OrderInv == \A o \in Objects : records[o] > 0 \/ o \in late => Reached(o)

LEMMA TargetIsReached ==
  ASSUME SeedInv, NEW s \in Seeders
  PROVE  Reached(Target(s))
<1>1. Order[s] = Calls
  BY FixtureAssumption DEF Calls
<1>2. seeder[s].at \in 1 .. Len(Calls)
  BY <1>1 DEF SeedInv, SeedTypeOK
<1>3. \A r \in 1 .. seeder[s].at - 1 : records[Calls[r]] >= 1
  BY <1>1, <1>2, CallsAreObjects DEF SeedInv, BehindIsThere
<1>4. QED
  BY <1>1, <1>2, <1>3 DEF Reached, Target

\* Records are added, and for nothing but what a command is at or was at.
LEMMA RecordsGrow ==
  ASSUME SeedInv, SeedNext
  PROVE  \A o \in Objects :
           /\ records[o] \in Nat /\ records'[o] \in Nat /\ records'[o] >= records[o]
           /\ records'[o] > records[o] \/ o \in late' =>
                o \in late \/ \E s \in Seeders : o = Target(s)
<1> USE DEF SeedInv
<1>1. ASSUME UNCHANGED records, NEW s \in Seeders, late' \subseteq late \cup {Target(s)}
      PROVE  \A o \in Objects :
               /\ records[o] \in Nat /\ records'[o] \in Nat /\ records'[o] >= records[o]
               /\ records'[o] > records[o] \/ o \in late' =>
                    o \in late \/ \E r \in Seeders : o = Target(r)
  BY <1>1 DEF SeedTypeOK
<1>2. ASSUME NEW x \in Objects, Insert(x), late' \subseteq late,
             x \in late \/ \E s \in Seeders : x = Target(s)
      PROVE  \A o \in Objects :
               /\ records[o] \in Nat /\ records'[o] \in Nat /\ records'[o] >= records[o]
               /\ records'[o] > records[o] \/ o \in late' =>
                    o \in late \/ \E s \in Seeders : o = Target(s)
  <2>1. records \in [Objects -> Nat]
    BY DEF SeedTypeOK
  <2>2. \A o \in Objects \ {x} : records'[o] = records[o]
    BY <1>2, InsertEffect
  <2>3. records' \in [Objects -> Nat] /\ \A o \in Objects : records'[o] >= records[o]
    BY <1>2, InsertEffect
  <2>4. QED
    BY <1>2, <2>1, <2>2, <2>3
<1>3. ASSUME NEW s \in Seeders, StartSeed(s) \/ Lookup(s) \/ Fail(s) \/ GiveUp(s)
      PROVE  UNCHANGED records /\ late' \subseteq late \cup {Target(s)}
  BY <1>3 DEF StartSeed, Lookup, Fail, GiveUp
<1>4. ASSUME NEW s \in Seeders, Create(s) \/ AnswerLost(s)
      PROVE  UNCHANGED <<records, late>> \/ (UNCHANGED late /\ Insert(Target(s)))
  BY <1>4 DEF Create, AnswerLost
<1>5. ASSUME NEW o \in Objects, HandleLate(o)
      PROVE  late' \subseteq late /\ o \in late /\ (UNCHANGED records \/ Insert(o))
  BY <1>5 DEF HandleLate
<1>6. ASSUME UNCHANGED records, late' \subseteq late
      PROVE  \A o \in Objects :
               /\ records[o] \in Nat /\ records'[o] \in Nat /\ records'[o] >= records[o]
               /\ records'[o] > records[o] \/ o \in late' =>
                    o \in late \/ \E s \in Seeders : o = Target(s)
  BY <1>6 DEF SeedTypeOK
<1>7. CASE \E s \in Seeders : \/ StartSeed(s) \/ SeedStep(s)
                              \/ Fail(s) \/ AnswerLost(s) \/ GiveUp(s)
  <2>1. PICK s \in Seeders : \/ StartSeed(s) \/ SeedStep(s)
                             \/ Fail(s) \/ AnswerLost(s) \/ GiveUp(s)
    BY <1>7
  <2>2. Target(s) \in Objects
    BY TargetIsObject
  <2>3. CASE StartSeed(s) \/ Lookup(s) \/ Fail(s) \/ GiveUp(s)
    <3>1. UNCHANGED records /\ late' \subseteq late \cup {Target(s)}
      BY <1>3, <2>3
    <3>2. QED
      BY <1>1, <3>1
  <2>4. CASE Create(s) \/ AnswerLost(s)
    <3>1. UNCHANGED <<records, late>> \/ (UNCHANGED late /\ Insert(Target(s)))
      BY <1>4, <2>4
    <3>2. CASE UNCHANGED <<records, late>>
      BY <1>6, <3>2
    <3>3. CASE UNCHANGED late /\ Insert(Target(s))
      BY <1>2, <2>2, <3>3
    <3>4. QED
      BY <3>1, <3>2, <3>3
  <2>5. QED
    BY <2>1, <2>3, <2>4 DEF SeedStep
<1>8. CASE \E o \in Objects : HandleLate(o)
  <2>1. PICK o \in Objects : HandleLate(o)
    BY <1>8
  <2>2. late' \subseteq late /\ o \in late /\ (UNCHANGED records \/ Insert(o))
    BY <1>5, <2>1
  <2>3. QED
    BY <1>2, <1>6, <2>2
<1>9. QED
  BY <1>7, <1>8 DEF SeedNext

LEMMA OrderKept ==
  ASSUME SeedInv, OrderInv, SeedNext
  PROVE  OrderInv'
<1>1. \A q \in 1 .. Len(Calls) : Calls[q] \in Objects
  BY CallsAreObjects
<1>2. ASSUME NEW o, Reached(o) PROVE Reached(o)'
  <2>1. PICK q \in 1 .. Len(Calls) : Calls[q] = o /\ \A r \in 1 .. q - 1 : records[Calls[r]] >= 1
    BY <1>2 DEF Reached
  <2>2. ASSUME NEW r \in 1 .. q - 1 PROVE records'[Calls[r]] >= 1
    <3>1. Calls[r] \in Objects
      BY <1>1, CallsAreObjects
    <3>2. QED
      BY <2>1, <3>1, RecordsGrow
  <2>3. QED
    BY <2>1, <2>2 DEF Reached, Calls
<1>3. ASSUME NEW o \in Objects, records'[o] > 0 \/ o \in late'
      PROVE  Reached(o)
  <2>1. records[o] > 0 \/ o \in late \/ \E s \in Seeders : o = Target(s)
    BY <1>3, RecordsGrow
  <2>2. QED
    BY <2>1, TargetIsReached DEF OrderInv
<1>4. QED
  BY <1>2, <1>3 DEF OrderInv

\* If a device is there, so is all that the fixture has of the devices before it.
LEMMA EarlierIsThere ==
  ASSUME Distinct, SeedTypeOK, OrderInv, NEW j \in Indices, NEW k \in Indices, j < k,
         InNetBox(DeviceKey(Device(k)))
  PROVE  /\ InNetBox(DeviceKey(Device(j)))
         /\ \A p \in ToSet(Device(j).ports) : InNetBox(InterfaceKey(Device(j), p))
<1>1. /\ Device(j) \in FixtureDevices /\ Device(k) \in FixtureDevices
      /\ DeviceKey(Device(k)) \in Objects
  BY FixtureFacts, DeviceCallsAre, CallsAreObjects
<1>2. PICK q \in 1 .. Len(Calls) :
        /\ Calls[q] = DeviceKey(Device(k))
        /\ \A r \in 1 .. q - 1 : records[Calls[r]] >= 1
  BY <1>1 DEF OrderInv, Reached, InNetBox
<1>3. ASSUME NEW e \in ToSet(DeviceCalls(Device(j))) PROVE InNetBox(e)
  <2>1. PICK r \in 1 .. q - 1 : Calls[r] = e
    BY <1>2, CallsAreInFileOrder
  <2>2. records[e] >= 1
    BY <1>2, <2>1
  <2>3. records[e] \in Nat
    BY <1>1, CallsAreObjects DEF SeedTypeOK
  <2>4. QED
    BY <2>2, <2>3 DEF InNetBox
<1>4. QED
  BY <1>1, <1>3, DeviceCallsAre, InterfaceCallsAre

-----------------------------------------------------------------------------
(* Reading a fixture.                                                      *)

\* What the snapshot says of a device and of a port is in the fixture.
DevicesAreFixtures ==
  /\ Nodes \subseteq {Device(k).name : k \in Indices}
  /\ \A k \in Indices : Device(k).name \in Nodes =>
       devices[Device(k).name] = [role |-> Device(k).role, plane |-> Device(k).plane,
                                  asn |-> Device(k).asn]

Copies(x, n) == {[x EXCEPT !.record = r] : r \in 1 .. n}

\* Every address of a port as often as NetBox had it.
AddressesOf(p, addresses) ==
  \A x : ToSet(p.addresses) = {x} => \E n \in Nat : addresses = Copies(x, n)

PortsAreFixtures ==
  \A i \in DOMAIN ports : \E d \in FixtureDevices : \E p \in ToSet(d.ports) : \E addresses :
    /\ i = InterfaceOf(d, p)
    /\ ports[i] = PortRecord(p, addresses)
    /\ AddressesOf(p, addresses)

CablesAreFixtures == cables \subseteq {<<l.a, l.b>> : l \in FixtureLinks}

\* Devices with one behind them in the file that has been read.
Full(j) == \E k \in Indices : j < k /\ Device(k).name \in Nodes

FullIsThere ==
  \A j \in Indices : Full(j) =>
    /\ Device(j).name \in Nodes
    /\ \A p \in ToSet(Device(j).ports) : InNetBox(InterfaceKey(Device(j), p))

Done(j) == InterfacesOf(Device(j)) \subseteq DOMAIN ports

FullIsDone ==
  /\ reader.step \in {"interfaces", "addresses"} =>
       \A j \in Indices : Full(j) /\ j < reader.device => Done(j)
  /\ reader.step = "addresses" /\ Full(reader.device) =>
       \A k \in DOMAIN Current.ports :
         k \in reader.ports \/ InterfaceOf(Current, Current.ports[k]) \in DOMAIN ports
  /\ reader.step \in {"cables", "validate"} => \A j \in Indices : Full(j) => Done(j)

ReaderInTurn ==
  /\ reader.step = "devices" => reader.device = 0
  /\ reader.step \in {"interfaces", "addresses"} => reader.device \in Indices
  /\ reader.step = "addresses" => reader.ports # {} /\ reader.ports \subseteq DOMAIN Current.ports

FactsInv == DevicesAreFixtures /\ PortsAreFixtures /\ CablesAreFixtures

Turn == ReaderInTurn /\ FactsInv /\ FullIsThere /\ FullIsDone

ReadInv == Turn /\ (accepted => reader.step = "idle" /\ Whole)

LEMMA IndicesAreNat == \A j \in Indices : j \in Nat
<1>1. Indices = 1 .. Len(Fixture.devices) /\ Len(Fixture.devices) \in Nat
  BY FixtureFacts
<1>2. QED
  BY <1>1

LEMMA OrderInductive == Spec => []OrderInv
<1>1. Init => OrderInv
  BY DEF Init, SeedInit, OrderInv
<1>2. SeedInv /\ OrderInv /\ [Next]_vars => OrderInv'
  <2> SUFFICES ASSUME SeedInv, OrderInv, [Next]_vars PROVE OrderInv'
    OBVIOUS
  <2>1. CASE SeedNext
    BY <2>1, OrderKept
  <2>2. CASE UNCHANGED <<records, late>>
    BY <2>2 DEF OrderInv, Reached, Calls
  <2>3. QED
    BY <2>1, <2>2 DEF Next, Reading, ReadFails, vars, seedVars
<1>3. QED
  BY <1>1, <1>2, SeedInductive, PTL DEF Spec

LEMMA KeysAreObjects ==
  ASSUME NEW d \in FixtureDevices
  PROVE  /\ DeviceKey(d) \in Objects
         /\ \A p \in ToSet(d.ports) :
              /\ InterfaceKey(d, p) \in Objects
              /\ \A x \in ToSet(p.addresses) : AddressKey(d, p, x) \in Objects
<1>1. ToSet(DeviceCalls(d)) \subseteq Objects
  BY CallsAreObjects
<1>2. DeviceKey(d) \in ToSet(DeviceCalls(d))
  BY DeviceCallsAre
<1>3. ASSUME NEW p \in ToSet(d.ports)
      PROVE  /\ InterfaceKey(d, p) \in ToSet(DeviceCalls(d))
             /\ \A x \in ToSet(p.addresses) : AddressKey(d, p, x) \in ToSet(DeviceCalls(d))
  BY DeviceCallsAre, InterfaceCallsAre
<1>4. QED
  BY <1>1, <1>2, <1>3

\* The reader passes over no device that was selected.
LEMMA NextDeviceMoves ==
  ASSUME NEW names, NextDevice(names)
  PROVE  \/ /\ reader' = [step |-> "cables", device |-> 0, ports |-> {}]
            /\ \A j \in Indices : j > reader.device => Device(j).name \notin names
         \/ \E n \in Indices :
              /\ reader' = [step |-> "interfaces", device |-> n, ports |-> {}]
              /\ \A j \in Indices : reader.device < j /\ j < n => Device(j).name \notin names
<1> DEFINE rest == {k \in DOMAIN Fixture.devices :
                      k > reader.device /\ Fixture.devices[k].name \in names}
<1>0. rest = {k \in Indices : k > reader.device /\ Device(k).name \in names}
  BY DEF Indices, Device
<1>1. CASE rest = {}
  <2>1. reader' = [step |-> "cables", device |-> 0, ports |-> {}]
    BY <1>1 DEF NextDevice, Await
  <2>2. QED
    BY <1>0, <1>1, <2>1
<1>2. CASE rest # {}
  <2>1. rest \in SUBSET Nat /\ \A j \in Indices : j \in Nat
    BY <1>0, IndicesAreNat
  <2>2. Min(rest) \in rest /\ \A y \in rest : Min(rest) <= y
    BY <1>2, <2>1, MinIsLeast
  <2>3. reader' = [step |-> "interfaces", device |-> Min(rest), ports |-> {}]
    BY <1>2 DEF NextDevice
  <2> HIDE DEF rest
  <2>4. Min(rest) \in Indices /\ Min(rest) \in Nat
    BY <1>0, <2>1, <2>2
  <2>5. ASSUME NEW j \in Indices, reader.device < j, j < Min(rest), Device(j).name \in names
        PROVE  FALSE
    <3>1. j \in rest
      BY <1>0, <2>5
    <3>2. Min(rest) <= j /\ j \in Nat
      BY <2>1, <2>2, <3>1
    <3>3. QED
      BY <2>4, <2>5, <3>2
  <2>6. QED
    BY <2>3, <2>4, <2>5
<1>3. QED
  BY <1>1, <1>2

LEMMA NextDeviceKeeps ==
  ASSUME NEW names, NextDevice(names), names = Nodes', reader.device \in Nat, FullIsThere',
         \A j \in Indices : Full(j)' /\ j <= reader.device => Done(j)'
  PROVE  FullIsDone' /\ ReaderInTurn'
<1>1. \A j \in Indices : Full(j)' => Device(j).name \in names
  BY DEF FullIsThere, Full
<1>2. \A j \in Indices : j \in Nat
  BY IndicesAreNat
<1>4. CASE /\ reader' = [step |-> "cables", device |-> 0, ports |-> {}]
           /\ \A j \in Indices : j > reader.device => Device(j).name \notin names
  <2>1. reader'.step = "cables"
    BY <1>4
  <2>2. \A j \in Indices : Full(j)' => Done(j)'
    BY <1>1, <1>2, <1>4
  <2>3. QED
    BY <2>1, <2>2 DEF FullIsDone, ReaderInTurn
<1>5. CASE \E n \in Indices :
             /\ reader' = [step |-> "interfaces", device |-> n, ports |-> {}]
             /\ \A j \in Indices : reader.device < j /\ j < n => Device(j).name \notin names
  <2>1. PICK n \in Indices :
             /\ reader' = [step |-> "interfaces", device |-> n, ports |-> {}]
             /\ \A j \in Indices : reader.device < j /\ j < n => Device(j).name \notin names
    BY <1>5
  <2>2. reader'.step = "interfaces" /\ reader'.device = n
    BY <2>1
  <2>3. \A j \in Indices : Full(j)' /\ j < n => Done(j)'
    BY <1>1, <1>2, <2>1
  <2>4. QED
    BY <2>2, <2>3 DEF FullIsDone, ReaderInTurn
<1>6. QED
  BY <1>4, <1>5, NextDeviceMoves

LEMMA NextPortKeeps ==
  ASSUME SnapshotInv, NEW slots, NextPort(slots), UNCHANGED devices, FullIsThere',
         NEW cur \in Indices, cur = reader.device, slots \subseteq DOMAIN Device(cur).ports,
         \A j \in Indices : Full(j)' /\ j < cur => Done(j)',
         Full(cur)' => \A k \in DOMAIN Device(cur).ports :
                         k \in slots \/ InterfaceOf(Device(cur), Device(cur).ports[k]) \in DOMAIN ports'
  PROVE  FullIsDone' /\ ReaderInTurn'
<1>1. \A j \in Indices : j \in Nat
  BY IndicesAreNat
<1>2. CASE slots = {}
  <2>1. ASSUME Full(cur)' PROVE Done(cur)'
    <3>1. \A k \in DOMAIN Device(cur).ports :
            InterfaceOf(Device(cur), Device(cur).ports[k]) \in DOMAIN ports'
      BY <1>2, <2>1
    <3>2. ToSet(Device(cur).ports) = {Device(cur).ports[k] : k \in DOMAIN Device(cur).ports}
      BY FixtureFacts
    <3>3. QED
      BY <3>1, <3>2 DEF Done, InterfacesOf
  <2>2. \A j \in Indices : Full(j)' /\ j <= cur => Done(j)'
    BY <1>1, <2>1
  <2>3. NextDevice(DOMAIN devices) /\ DOMAIN devices = Nodes'
    BY <1>2 DEF NextPort, Nodes
  <2>5. PICK names : names = DOMAIN devices
    OBVIOUS
  <2>6. NextDevice(names)
    BY <2>3, <2>5
  <2>7. QED
    BY <1>1, <2>2, <2>3, <2>5, <2>6, NextDeviceKeeps
<1>3. CASE slots # {}
  <2>1. reader' = [step |-> "addresses", device |-> cur, ports |-> slots]
    BY <1>3 DEF NextPort, SnapshotInv
  <2>2. reader'.step = "addresses" /\ reader'.device = cur /\ reader'.ports = slots
    BY <2>1
  <2>3. Current' = Device(cur)
    BY <2>2 DEF Current, Device
  <2>4. Full(reader.device)' = Full(cur)'
    BY <2>2 DEF Full
  <2>5. FullIsDone'
    BY <2>2, <2>3, <2>4 DEF FullIsDone
  <2>6. ReaderInTurn'
    BY <1>3, <2>2, <2>3 DEF ReaderInTurn
  <2>7. QED
    BY <2>5, <2>6
<1>4. QED
  BY <1>2, <1>3

\* Records are added while a device is read, so what was there still is.
LEMMA FullStaysThere ==
  ASSUME FullIsThere, SeedTypeOK, UNCHANGED devices,
         \A o \in Objects : records'[o] \in Nat /\ records'[o] >= records[o]
  PROVE  FullIsThere'
<1> SUFFICES ASSUME NEW j \in Indices, Full(j)'
             PROVE  /\ Device(j).name \in Nodes'
                    /\ \A p \in ToSet(Device(j).ports) : InNetBox(InterfaceKey(Device(j), p))'
  BY DEF FullIsThere
<1>1. Nodes' = Nodes
  BY DEF Nodes
<1>2. Full(j)
  BY <1>1 DEF Full
<1>3. Device(j) \in FixtureDevices
  BY FixtureFacts
<1>4. ASSUME NEW p \in ToSet(Device(j).ports)
      PROVE  InNetBox(InterfaceKey(Device(j), p))'
  <2> DEFINE o == InterfaceKey(Device(j), p)
  <2>1. o \in Objects /\ records[o] > 0
    BY <1>2, <1>3, KeysAreObjects DEF FullIsThere, InNetBox
  <2>2. records[o] \in Nat
    BY <2>1 DEF SeedTypeOK
  <2> HIDE DEF o
  <2>3. records'[o] > 0
    BY <2>1, <2>2
  <2>4. QED
    BY <2>3 DEF o, InNetBox
<1>5. QED
  BY <1>1, <1>2, <1>4 DEF FullIsThere

LEMMA FactsStay ==
  ASSUME FactsInv, UNCHANGED inventory
  PROVE  FactsInv'
BY DEF FactsInv, inventory, DevicesAreFixtures, PortsAreFixtures, CablesAreFixtures, Nodes

LEMMA ForgottenIsFixture ==
  ASSUME Forget
  PROVE  FactsInv' /\ FullIsThere' /\ \A j : ~Full(j)'
<1>1. DOMAIN devices' = {} /\ DOMAIN ports' = {} /\ cables' = {}
  BY DEF Forget
<1>2. QED
  BY <1>1 DEF FactsInv, DevicesAreFixtures, PortsAreFixtures, CablesAreFixtures, Nodes,
              FullIsThere, Full

\* A reader that goes to a request with nothing to be done by then.
LEMMA AwaitKeeps ==
  ASSUME NEW step, Await(step),
         step \in {"cables", "validate"} => \A j \in Indices : Full(j)' => Done(j)',
         step \notin {"interfaces", "addresses"}
  PROVE  FullIsDone' /\ ReaderInTurn'
<1>1. reader'.step = step /\ reader'.device = 0
  BY DEF Await
<1>2. QED
  BY <1>1 DEF FullIsDone, ReaderInTurn

LEMMA FoundDevices ==
  ASSUME Distinct, SeedTypeOK, OrderInv, ReadDevices, UNCHANGED seedVars
  PROVE  DevicesAreFixtures' /\ FullIsThere'
<1> DEFINE found == {d \in FixtureDevices : InNetBox(DeviceKey(d))}
           names == {d.name : d \in found}
           Named(n) == CHOOSE d \in found : d.name = n
<1>1. devices' = [n \in names |-> [role |-> Named(n).role, plane |-> Named(n).plane,
                                   asn |-> Named(n).asn]]
  BY DEF ReadDevices
<1>2. records' = records
  BY DEF seedVars
<1>3. ASSUME NEW k \in Indices, Device(k).name \in names
      PROVE  Device(k) \in found /\ Named(Device(k).name) = Device(k)
  <2>1. PICK d \in found : d.name = Device(k).name
    BY <1>3
  <2>2. ASSUME NEW e \in found, e.name = Device(k).name
        PROVE  e = Device(k)
    <3>1. PICK j \in Indices : e = Device(j)
      BY FixtureFacts
    <3>2. j = k
      BY <2>2, <3>1 DEF Distinct, Indices, Device
    <3>3. QED
      BY <3>1, <3>2
  <2> HIDE DEF found
  <2>3. QED
    BY <2>1, <2>2
<1>4. Nodes' = names
  BY <1>1 DEF Nodes
<1>5. DevicesAreFixtures'
  <2>1. names \subseteq {Device(k).name : k \in Indices}
    BY FixtureFacts
  <2>2. ASSUME NEW k \in Indices, Device(k).name \in names
        PROVE  devices'[Device(k).name] = [role |-> Device(k).role, plane |-> Device(k).plane,
                                           asn |-> Device(k).asn]
    <3> HIDE DEF names, Named
    <3>1. QED
      BY <1>1, <1>3, <2>2
  <2> HIDE DEF names, Named
  <2>3. QED
    BY <1>4, <2>1, <2>2 DEF DevicesAreFixtures
<1>6. FullIsThere'
  <2> SUFFICES ASSUME NEW j \in Indices, NEW k \in Indices, j < k, Device(k).name \in names
               PROVE  /\ Device(j).name \in names
                      /\ \A p \in ToSet(Device(j).ports) : InNetBox(InterfaceKey(Device(j), p))
    BY <1>2, <1>4 DEF FullIsThere, Full, InNetBox
  <2>1. InNetBox(DeviceKey(Device(k)))
    BY <1>3
  <2>2. /\ InNetBox(DeviceKey(Device(j)))
        /\ \A p \in ToSet(Device(j).ports) : InNetBox(InterfaceKey(Device(j), p))
    BY <2>1, EarlierIsThere
  <2>3. Device(j) \in found
    BY <2>2, FixtureFacts
  <2>4. QED
    BY <2>2, <2>3
<1>7. QED
  BY <1>5, <1>6

\* The port that is read next, and what is read of it.
LEMMA ReadPort ==
  ASSUME SeedTypeOK, SnapshotInv, ReaderInTurn, FactsInv, ReadAddresses,
         NEW k, k = Min(reader.ports)
  PROVE  /\ k \in reader.ports /\ k \in DOMAIN Current.ports
         /\ Current \in FixtureDevices /\ Current = Device(reader.device)
         /\ reader.device \in Indices
         /\ DOMAIN ports' = DOMAIN ports \cup {InterfaceOf(Current, Current.ports[k])}
         /\ PortsAreFixtures'
<1> DEFINE d == Current
           p == Current.ports[k]
           here == InterfaceOf(d, p)
           read == AddressRecords(d, p)
<1>1. /\ reader.device \in Indices /\ reader.ports # {}
      /\ reader.ports \subseteq DOMAIN d.ports
  BY DEF ReadAddresses, ReaderInTurn
<1>2. d \in FixtureDevices /\ d = Device(reader.device)
  BY <1>1, FixtureFacts DEF Current, Device
<1>3. DOMAIN d.ports = 1 .. Len(d.ports) /\ Len(d.ports) \in Nat
      /\ ToSet(d.ports) = {d.ports[j] : j \in DOMAIN d.ports}
  BY <1>2, FixtureFacts
<1>4. k \in reader.ports
  <2>1. DOMAIN d.ports \subseteq Nat
    BY <1>3
  <2>2. reader.ports \in SUBSET Nat
    BY <1>1, <2>1
  <2>3. QED
    BY <1>1, <2>2, MinIsLeast
<1>5. p \in ToSet(d.ports)
  BY <1>1, <1>3, <1>4
<1>6. ports' = [i \in DOMAIN ports \cup {here} |->
                  IF i = here THEN PortRecord(p, read) ELSE ports[i]]
  BY DEF ReadAddresses, InterfaceOf
<1>7. ASSUME NEW x, ToSet(p.addresses) = {x}
      PROVE  \E n \in Nat : read = Copies(x, n)
  <2>1. records[AddressKey(d, p, x)] \in Nat
    BY <1>2, <1>5, <1>7, KeysAreObjects DEF SeedTypeOK
  <2>2. read = Copies(x, records[AddressKey(d, p, x)])
    BY <1>7 DEF AddressRecords, Copies
  <2> HIDE DEF read
  <2>3. QED
    BY <2>1, <2>2
<1> HIDE DEF d, p, here, read
<1>8. AddressesOf(p, read)
  BY <1>7 DEF AddressesOf
<1>9. PortsAreFixtures'
  <2> SUFFICES ASSUME NEW i \in DOMAIN ports'
               PROVE  \E e \in FixtureDevices : \E q \in ToSet(e.ports) : \E addresses :
                        /\ i = InterfaceOf(e, q)
                        /\ ports'[i] = PortRecord(q, addresses)
                        /\ AddressesOf(q, addresses)
    BY DEF PortsAreFixtures
  <2>1. CASE i = here
    <3>1. ports'[i] = PortRecord(p, read)
      BY <1>6, <2>1
    <3>2. QED
      BY <1>2, <1>5, <1>8, <2>1, <3>1 DEF here
  <2>2. CASE i # here
    <3>1. i \in DOMAIN ports /\ ports'[i] = ports[i]
      BY <1>6, <2>2
    <3>2. QED
      BY <3>1 DEF FactsInv, PortsAreFixtures
  <2>3. QED
    BY <2>1, <2>2
<1>10. DOMAIN ports' = DOMAIN ports \cup {here}
  BY <1>6
<1>11. QED
  BY <1>1, <1>2, <1>4, <1>9, <1>10 DEF d, p, here

LEMMA ReadInterfacesInTurn ==
  ASSUME SeedTypeOK, SnapshotInv, Turn, ReadInterfaces, UNCHANGED seedVars
  PROVE  Turn'
<1> USE DEF Turn
<1>1. PICK c : c = reader.device
  OBVIOUS
<1>2. PICK s : s = {k \in DOMAIN Device(c).ports :
                      InNetBox(InterfaceKey(Device(c), Device(c).ports[k]))}
  OBVIOUS
<1>3. c \in Indices /\ reader.step = "interfaces" /\ UNCHANGED inventory
  BY <1>1 DEF ReadInterfaces, ReaderInTurn
<1>4. NextPort(s)
  BY <1>1, <1>2 DEF ReadInterfaces, Current, Device
<1>5. UNCHANGED devices /\ UNCHANGED ports
  BY <1>3 DEF inventory
<1>6. FullIsThere'
  <2>1. records' = records
    BY DEF seedVars
  <2>2. QED
    BY <1>5, <2>1, SameRecords, FullStaysThere
<1>7. \A j : (Full(j)' = Full(j)) /\ (Done(j)' = Done(j))
  BY <1>5 DEF Full, Done, Nodes
<1>8. \A j \in Indices : Full(j)' /\ j < c => Done(j)'
  BY <1>1, <1>3, <1>7 DEF FullIsDone
<1>9. ASSUME Full(c)' PROVE s = DOMAIN Device(c).ports
  <2>1. \A p \in ToSet(Device(c).ports) : InNetBox(InterfaceKey(Device(c), p))
    BY <1>3, <1>7, <1>9 DEF FullIsThere
  <2>2. QED
    BY <1>2, <2>1 DEF ToSet
<1>10. s \subseteq DOMAIN Device(c).ports
  BY <1>2
<1>11. FullIsDone' /\ ReaderInTurn'
  BY <1>1, <1>3, <1>4, <1>5, <1>6, <1>8, <1>9, <1>10, NextPortKeeps
<1>12. QED
  BY <1>3, <1>6, <1>11, FactsStay

LEMMA ReadAddressesInTurn ==
  ASSUME SeedTypeOK, SnapshotInv, Turn, ReadAddresses, UNCHANGED seedVars
  PROVE  Turn'
<1> USE DEF Turn
<1>1. PICK c : c = reader.device
  OBVIOUS
<1>2. PICK k : k = Min(reader.ports)
  OBVIOUS
<1>3. PICK s : s = reader.ports \ {k}
  OBVIOUS
<1>4. /\ k \in reader.ports /\ k \in DOMAIN Device(c).ports
      /\ Device(c) \in FixtureDevices /\ c \in Indices /\ Current = Device(c)
      /\ DOMAIN ports' = DOMAIN ports \cup {InterfaceOf(Device(c), Device(c).ports[k])}
      /\ PortsAreFixtures'
  BY <1>1, <1>2, ReadPort
<1>5. NextPort(s) /\ UNCHANGED <<devices, cables>> /\ reader.step = "addresses"
  BY <1>2, <1>3 DEF ReadAddresses
<1>6. FactsInv'
  BY <1>4, <1>5 DEF FactsInv, DevicesAreFixtures, CablesAreFixtures, Nodes
<1>7. FullIsThere'
  <2>1. records' = records
    BY DEF seedVars
  <2>2. QED
    BY <1>5, <2>1, SameRecords, FullStaysThere
<1>8. \A j : (Full(j)' = Full(j)) /\ (Done(j) => Done(j)')
  BY <1>4, <1>5 DEF Full, Done, Nodes
<1>9. \A j \in Indices : Full(j)' /\ j < c => Done(j)'
  BY <1>1, <1>5, <1>8 DEF FullIsDone
<1>10. Full(c)' => \A x \in DOMAIN Device(c).ports :
                     x \in s \/ InterfaceOf(Device(c), Device(c).ports[x]) \in DOMAIN ports'
  <2>1. Full(c)' => \A x \in DOMAIN Device(c).ports :
                      \/ x \in reader.ports
                      \/ InterfaceOf(Device(c), Device(c).ports[x]) \in DOMAIN ports
    BY <1>1, <1>4, <1>5, <1>8 DEF FullIsDone
  <2>2. QED
    BY <1>3, <1>4, <2>1
<1>11. s \subseteq DOMAIN Device(c).ports
  BY <1>3, <1>4, <1>5 DEF ReaderInTurn
<1>12. FullIsDone' /\ ReaderInTurn'
  BY <1>1, <1>4, <1>5, <1>7, <1>9, <1>10, <1>11, NextPortKeeps
<1>13. QED
  BY <1>6, <1>7, <1>12

LEMMA ReadDevicesInTurn ==
  ASSUME Distinct, SeedTypeOK, OrderInv, SnapshotInv, Turn, ReadDevices, UNCHANGED seedVars
  PROVE  Turn'
<1> USE DEF Turn
<1>1. DevicesAreFixtures' /\ FullIsThere'
  BY FoundDevices
<1>2. reader.device = 0 /\ UNCHANGED <<ports, cables>>
  BY DEF ReadDevices, ReaderInTurn
<1>3. FactsInv'
  BY <1>1, <1>2 DEF FactsInv, PortsAreFixtures, CablesAreFixtures
<1>4. PICK names : names = DOMAIN devices'
  OBVIOUS
<1>5. NextDevice(names)
  BY <1>4 DEF ReadDevices
<1>6. \A j \in Indices : ~(j <= reader.device)
  <2>1. Indices = 1 .. Len(Fixture.devices) /\ Len(Fixture.devices) \in Nat
    BY FixtureFacts
  <2>2. QED
    BY <1>2, <2>1
<1>7. FullIsDone' /\ ReaderInTurn'
  BY <1>1, <1>2, <1>4, <1>5, <1>6, NextDeviceKeeps DEF Nodes
<1>8. QED
  BY <1>1, <1>3, <1>7

LEMMA ReadCablesInTurn ==
  ASSUME SeedTypeOK, Turn, ReadCables, UNCHANGED seedVars
  PROVE  Turn'
<1> USE DEF Turn
<1>1. UNCHANGED <<devices, ports>> /\ Await("validate") /\ reader.step = "cables"
  BY DEF ReadCables
<1>2. CablesAreFixtures'
  BY DEF ReadCables, CablesAreFixtures, FixtureLinks
<1>3. FactsInv'
  BY <1>1, <1>2 DEF FactsInv, DevicesAreFixtures, PortsAreFixtures, Nodes
<1>4. FullIsThere'
  <2>1. records' = records
    BY DEF seedVars
  <2>2. QED
    BY <1>1, <2>1, SameRecords, FullStaysThere
<1>5. \A j \in Indices : Full(j)' => Done(j)'
  BY <1>1 DEF FullIsDone, Full, Done, Nodes
<1>6. FullIsDone' /\ ReaderInTurn'
  BY <1>1, <1>5, AwaitKeeps
<1>7. QED
  BY <1>3, <1>4, <1>6

-----------------------------------------------------------------------------
(* What passes.                                                            *)

LEMMA SameName ==
  ASSUME Distinct, NEW d \in FixtureDevices, NEW e \in FixtureDevices, d.name = e.name
  PROVE  d = e
<1>1. PICK j \in Indices, k \in Indices : d = Device(j) /\ e = Device(k)
  BY FixtureFacts
<1>2. QED
  BY <1>1 DEF Distinct, Indices, Device

\* A port that was read is the fixture's.
LEMMA PortIsRead ==
  ASSUME Distinct, PortsAreFixtures, NEW d \in FixtureDevices, NEW p \in ToSet(d.ports),
         InterfaceOf(d, p) \in DOMAIN ports
  PROVE  \E addresses :
           ports[InterfaceOf(d, p)] = PortRecord(p, addresses) /\ AddressesOf(p, addresses)
<1> DEFINE i == InterfaceOf(d, p)
<1>0. PICK e \in FixtureDevices : \E q \in ToSet(e.ports) : \E addresses :
        i = InterfaceOf(e, q) /\ ports[i] = PortRecord(q, addresses) /\ AddressesOf(q, addresses)
  BY DEF PortsAreFixtures
<1>1. PICK q \in ToSet(e.ports) : \E addresses :
        i = InterfaceOf(e, q) /\ ports[i] = PortRecord(q, addresses) /\ AddressesOf(q, addresses)
  BY <1>0
<1>2. d.name = e.name /\ p.slot = q.slot
  BY <1>1 DEF InterfaceOf
<1>3. d = e
  BY <1>2, SameName
<1>4. p = q
  BY <1>2, <1>3 DEF Distinct
<1>5. QED
  BY <1>1, <1>4

\* Nothing that was read is ignored.
LEMMA AllIncluded ==
  ASSUME Linked, PortsAreFixtures, SnapshotCloses
  PROVE  /\ \A i \in DOMAIN ports : ports[i].role \in {"uplink", "host"}
         /\ Interfaces = DOMAIN ports /\ Included = cables
<1>1. ASSUME NEW i \in DOMAIN ports PROVE ports[i].role \in {"uplink", "host"}
  <2>1. PICK d \in FixtureDevices : \E p \in ToSet(d.ports) : \E addresses :
          ports[i] = PortRecord(p, addresses)
    BY DEF PortsAreFixtures
  <2>2. PICK p \in ToSet(d.ports) : \E addresses : ports[i] = PortRecord(p, addresses)
    BY <2>1
  <2>3. ports[i].role = p.role
    BY <2>2 DEF PortRecord
  <2>4. QED
    BY <2>3 DEF Linked
<1>2. Interfaces = DOMAIN ports
  BY <1>1 DEF Interfaces
<1>3. QED
  BY <1>1, <1>2 DEF Included, SnapshotCloses

\* A host port has its cable.
LEMMA HostPortHasCable ==
  ASSUME Linked, FactsInv, SnapshotCloses, CLS004,
         NEW i \in DOMAIN ports, ports[i].role = "host"
  PROVE  \E l \in FixtureLinks : i \in LinkEnds(l) /\ <<l.a, l.b>> \in cables
<1>1. Cardinality({l \in LinksOf("host") : i \in Ends(l)}) = 1
  BY AllIncluded DEF CLS004, FactsInv
<1>2. {l \in LinksOf("host") : i \in Ends(l)} # {}
  BY <1>1, FS_EmptySet
<1>3. PICK l \in LinksOf("host") : i \in Ends(l)
  BY <1>2
<1>4. PICK c \in cables : l = LinkOf(c)
  BY AllIncluded DEF FactsInv, LinksOf, Links
<1>5. PICK m \in FixtureLinks : c = <<m.a, m.b>>
  BY <1>4 DEF FactsInv, CablesAreFixtures
<1>6. l.a = m.a /\ l.b = m.b
  BY <1>4, <1>5 DEF LinkOf
<1>7. QED
  BY <1>3, <1>4, <1>5, <1>6 DEF Ends, LinkEnds

LEMMA CableEndsAreRead ==
  ASSUME SnapshotCloses, NEW l \in FixtureLinks, <<l.a, l.b>> \in cables
  PROVE  LinkEnds(l) \subseteq DOMAIN ports
<1>1. <<l.a, l.b>>[1] = l.a /\ <<l.a, l.b>>[2] = l.b
  OBVIOUS
<1>2. l.a \in DOMAIN ports /\ l.b \in DOMAIN ports
  BY <1>1 DEF SnapshotCloses
<1>3. QED
  BY <1>2 DEF LinkEnds

\* A device with a port that was read was read.
LEMMA ReadPortOfRead ==
  ASSUME SnapshotCloses, NEW d, NEW i \in InterfacesOf(d), i \in DOMAIN ports
  PROVE  d.name \in Nodes
<1>1. i[1] = d.name
  BY DEF InterfacesOf, InterfaceOf
<1>2. QED
  BY <1>1 DEF SnapshotCloses

LEMMA MissesNothing ==
  ASSUME Distinct, Linked, FactsInv, SnapshotCloses, CLS004,
         NEW m \in Nat, m <= Len(Fixture.devices), NEW lost, Misses(m, lost),
         \A k \in 1 .. m - 1 : Done(k), lost \cap DOMAIN ports = {}
  PROVE  FALSE
<1>0. PICK k \in 1 .. m - 1 : \E i \in HostPortsOf(Device(k)) :
        \A l \in FixtureLinks : i \in LinkEnds(l) => LinkEnds(l) \cap lost # {}
  BY DEF Misses, Device
<1>1. PICK i \in HostPortsOf(Device(k)) :
        \A l \in FixtureLinks : i \in LinkEnds(l) => LinkEnds(l) \cap lost # {}
  BY <1>0
<1>2. Device(k) \in FixtureDevices
  <2>1. k \in Indices
    BY FixtureFacts
  <2>2. QED
    BY <2>1, FixtureFacts
<1>3. PICK p \in ToSet(Device(k).ports) : p.role = "host" /\ i = InterfaceOf(Device(k), p)
  BY DEF HostPortsOf
<1>4. i \in DOMAIN ports
  BY <1>3 DEF Done, InterfacesOf
<1>5. ports[i].role = "host"
  BY <1>2, <1>3, <1>4, PortIsRead DEF FactsInv, PortRecord
<1>6. PICK l \in FixtureLinks : i \in LinkEnds(l) /\ <<l.a, l.b>> \in cables
  BY <1>4, <1>5, HostPortHasCable
<1>7. LinkEnds(l) \subseteq DOMAIN ports
  BY <1>6, CableEndsAreRead
<1>8. QED
  BY <1>1, <1>6, <1>7

\* What was read of the devices is a beginning of the file.
LEMMA BeginningIsRead ==
  ASSUME FullIsThere
  PROVE  \E m \in 0 .. Len(Fixture.devices) :
           \A k \in Indices : Device(k).name \in Nodes <=> k <= m
<1> DEFINE n == Len(Fixture.devices)
           U == {k \in Indices : Device(k).name \in Nodes}
<1>1. Indices = 1 .. n /\ n \in Nat
  BY FixtureFacts
<1>2. CASE U = {}
  <2>1. \A k \in Indices : Device(k).name \notin Nodes /\ ~(k <= 0)
    BY <1>1, <1>2
  <2>2. QED
    BY <1>1, <2>1
<1>3. CASE U # {}
  <2>1. U \in SUBSET (1 .. n)
    BY <1>1
  <2> DEFINE m == Max(U)
  <2>2. m \in U /\ \A y \in U : m >= y
    BY <1>1, <1>3, <2>1, MaxIsMember
  <2> HIDE DEF m
  <2>3. m \in Indices /\ m \in 0 .. n /\ Device(m).name \in Nodes
    BY <1>1, <2>2
  <2>4. ASSUME NEW k \in Indices
        PROVE  Device(k).name \in Nodes <=> k <= m
    <3>1. ASSUME Device(k).name \in Nodes PROVE k <= m
      <4>1. m >= k
        BY <2>2, <3>1
      <4>2. k \in Nat /\ m \in Nat
        BY <1>1, <2>3
      <4>3. QED
        BY <4>1, <4>2
    <3>2. ASSUME k <= m PROVE Device(k).name \in Nodes
      <4>1. k = m \/ k < m
        BY <1>1, <2>3, <3>2
      <4>2. CASE k < m
        <5>1. Full(k)
          BY <2>3, <4>2 DEF Full
        <5>2. QED
          BY <5>1 DEF FullIsThere
      <4>3. QED
        BY <2>3, <4>1, <4>2
    <3>3. QED
      BY <3>1, <3>2
  <2>5. QED
    BY <2>3, <2>4
<1>4. QED
  BY <1>2, <1>3

\* What is known of a snapshot that is about to be validated.
Facts ==
  Checkable /\ FactsInv /\ SnapshotCloses /\ FullIsThere /\ (\A j \in Indices : Full(j) => Done(j))

LEMMA SpinesAreCounted ==
  ASSUME Distinct, DevicesAreFixtures, NEW m \in 0 .. Len(Fixture.devices), NEW p,
         \A k \in Indices : Device(k).name \in Nodes <=> k <= m
  PROVE  InPlane("spine", p) = SpinesAmong(m, p)
<1>1. \A k : k \in 1 .. m <=> k \in Indices /\ Device(k).name \in Nodes
  <2>1. Indices = 1 .. Len(Fixture.devices) /\ Len(Fixture.devices) \in Nat
    BY FixtureFacts
  <2>2. \A k : k \in 1 .. m <=> k \in Indices /\ k <= m
    BY <2>1
  <2>3. QED
    BY <2>2
<1>2. \A k \in Indices : Device(k).name \in Nodes =>
        devices[Device(k).name].role = Device(k).role
        /\ devices[Device(k).name].plane = Device(k).plane
  <2> TAKE k \in Indices
  <2> HAVE Device(k).name \in Nodes
  <2>1. devices[Device(k).name] = [role |-> Device(k).role, plane |-> Device(k).plane,
                                   asn |-> Device(k).asn]
    BY DEF DevicesAreFixtures
  <2>2. QED
    BY <2>1
<1>3. SpinesAmong(m, p) =
        {Device(k).name : k \in {j \in 1 .. m : Device(j).role = "spine" /\ Device(j).plane = p}}
  BY DEF SpinesAmong, Device
<1>4. ASSUME NEW n \in InPlane("spine", p) PROVE n \in SpinesAmong(m, p)
  <2>1. n \in Nodes /\ devices[n].role = "spine" /\ devices[n].plane = p
    BY DEF InPlane, OfRole
  <2>2. PICK k \in Indices : n = Device(k).name
    BY <2>1 DEF DevicesAreFixtures
  <2>3. QED
    BY <1>1, <1>2, <1>3, <2>1, <2>2
<1>5. ASSUME NEW n \in SpinesAmong(m, p) PROVE n \in InPlane("spine", p)
  <2>1. PICK k \in 1 .. m : n = Device(k).name /\ Device(k).role = "spine" /\ Device(k).plane = p
    BY <1>3
  <2>2. n \in Nodes /\ devices[n].role = "spine" /\ devices[n].plane = p
    BY <1>1, <1>2, <2>1
  <2>3. QED
    BY <2>2 DEF InPlane, OfRole
<1>6. QED
  BY <1>4, <1>5

\* If the policy passes what was read, no device is missing.
LEMMA AllDevicesRead ==
  ASSUME Facts, CLS001, CLS004
  PROVE  \A k \in Indices : Device(k).name \in Nodes
<1> DEFINE last == Len(Fixture.devices)
<1>0. last \in Nat /\ Indices = 1 .. last
  BY FixtureFacts
<1>1. PICK m \in 0 .. last : \A k \in Indices : Device(k).name \in Nodes <=> k <= m
  BY BeginningIsRead DEF Facts
<1>2. CASE m = last
  BY <1>0, <1>1, <1>2
<1>3. CASE m # last
  <2> DEFINE lost == UNION {InterfacesOf(Fixture.devices[k]) : k \in m + 1 .. last}
  <2>1. m \in 0 .. last - 1
    BY <1>0, <1>3
  <2>2. \/ \E p \in RequiredPlanes : Cardinality(SpinesAmong(m, p)) # SpineCount[p]
        \/ Misses(m, lost)
    BY <2>1 DEF Facts, Checkable, Telling
  <2>3. ~\E p \in RequiredPlanes : Cardinality(SpinesAmong(m, p)) # SpineCount[p]
    BY <1>1, SpinesAreCounted DEF CLS001, Facts, Checkable, FactsInv
  <2>4. lost \cap DOMAIN ports = {}
    <3> SUFFICES ASSUME NEW i \in lost, i \in DOMAIN ports PROVE FALSE
      OBVIOUS
    <3>1. PICK k \in m + 1 .. last : i \in InterfacesOf(Device(k))
      BY DEF Device
    <3>2. Device(k).name \in Nodes
      BY <3>1, ReadPortOfRead DEF Facts
    <3>3. k \in Indices /\ ~(k <= m)
      BY <1>0
    <3>4. QED
      BY <1>1, <3>2, <3>3
  <2>5. \A k \in 1 .. m - 1 : Done(k)
    <3> SUFFICES ASSUME NEW k \in 1 .. m - 1 PROVE Done(k)
      OBVIOUS
    <3>1. k \in Indices /\ m \in Indices /\ k < m /\ m <= m
      BY <1>0
    <3>2. Full(k)
      BY <1>1, <3>1 DEF Full
    <3>3. QED
      BY <3>1, <3>2 DEF Facts
  <2> HIDE DEF lost
  <2>6. QED
    BY <1>0, <2>2, <2>3, <2>4, <2>5, MissesNothing DEF Facts, Checkable
<1>4. QED
  BY <1>2, <1>3

\* Nor is a port.
LEMMA AllPortsRead ==
  ASSUME Facts, CLS001, CLS004
  PROVE  \A k \in Indices : Done(k)
<1> DEFINE last == Len(Fixture.devices)
<1>0. last \in Nat /\ Indices = 1 .. last
  BY FixtureFacts
<1>1. ASSUME NEW k \in 1 .. last - 1 PROVE Done(k)
  <2>1. k \in Indices /\ last \in Indices /\ k < last
    BY <1>0
  <2>2. Device(last).name \in Nodes
    BY <2>1, AllDevicesRead
  <2>3. Full(k)
    BY <2>1, <2>2 DEF Full
  <2>4. QED
    BY <2>1, <2>3 DEF Facts
<1>2. Done(last)
  <2> SUFFICES ASSUME NEW i \in InterfacesOf(Device(last)), i \notin DOMAIN ports PROVE FALSE
    BY DEF Done
  <2>1. Misses(last, {i})
    BY DEF Facts, Checkable, Telling, Device
  <2>2. last <= last /\ {i} \cap DOMAIN ports = {}
    BY <1>0
  <2> HIDE DEF last
  <2>3. QED
    BY <1>0, <1>1, <2>1, <2>2, MissesNothing DEF Facts, Checkable, last
<1>3. QED
  BY <1>0, <1>1, <1>2

LEMMA EveryPort ==
  ASSUME Facts, CLS001, CLS004, NEW d \in FixtureDevices, NEW p \in ToSet(d.ports)
  PROVE  InterfaceOf(d, p) \in DOMAIN ports
<1>1. PICK k \in Indices : d = Device(k)
  BY FixtureFacts
<1>2. QED
  BY <1>1, AllPortsRead DEF Done, InterfacesOf

\* A host port's link has a cable, for it is the only one of that port.
LEMMA HostLinkHasCable ==
  ASSUME Facts, CLS001, CLS004, NEW l \in FixtureLinks,
         NEW d \in FixtureDevices, HostPortsOf(d) \cap LinkEnds(l) # {}
  PROVE  <<l.a, l.b>> \in cables
<1>1. PICK p \in ToSet(d.ports) : p.role = "host" /\ InterfaceOf(d, p) \in LinkEnds(l)
  BY DEF HostPortsOf
<1> DEFINE i == InterfaceOf(d, p)
<1>2. i \in DOMAIN ports
  BY EveryPort
<1>3. ports[i].role = "host"
  BY <1>1, <1>2, PortIsRead DEF Facts, Checkable, FactsInv, PortRecord
<1>4. PICK m \in FixtureLinks : i \in LinkEnds(m) /\ <<m.a, m.b>> \in cables
  BY <1>2, <1>3, HostPortHasCable DEF Facts, Checkable
<1>5. LinkEnds(l) \cap LinkEnds(m) # {}
  BY <1>1, <1>4
<1>6. l = m
  BY <1>5 DEF Facts, Checkable, Distinct
<1>7. QED
  BY <1>4, <1>6

LEMMA LinksAreFinite ==
  ASSUME NEW S \in SUBSET FixtureLinks
  PROVE  IsFiniteSet(S) /\ Cardinality(S) \in Nat
<1> DEFINE n == Len(Fixture.links)
<1>1. Fixture.links \in Seq(FixtureLinks)
  BY FixtureAssumption DEF FixtureLinks
<1>2. n \in Nat /\ DOMAIN Fixture.links = 1 .. n /\ Fixture.links \in [1 .. n -> FixtureLinks]
  BY <1>1
<1>3. \A l \in FixtureLinks : \E k \in 1 .. n : Fixture.links[k] = l
  BY <1>2 DEF FixtureLinks, ToSet
<1>4. Fixture.links \in Surjection(1 .. n, FixtureLinks)
  BY <1>2, <1>3 DEF Surjection
<1>5. IsFiniteSet(1 .. n)
  BY <1>2, FS_Interval
<1>6. IsFiniteSet(FixtureLinks)
  BY <1>4, <1>5, FS_Surjection
<1>7. IsFiniteSet(S)
  BY <1>6, FS_Subset
<1>8. QED
  BY <1>7, FS_CardinalityType

LEMMA RoleIsRead ==
  ASSUME DevicesAreFixtures, NEW d \in FixtureDevices, d.name \in Nodes
  PROVE  devices[d.name].role = d.role /\ devices[d.name].plane = d.plane
<1>1. PICK k \in Indices : d = Device(k)
  BY FixtureFacts
<1>2. devices[d.name] = [role |-> d.role, plane |-> d.plane, asn |-> d.asn]
  BY <1>1 DEF DevicesAreFixtures
<1>3. QED
  BY <1>2

\* An uplink is a link that counts for its leaf.
LEMMA UplinkIsCounted ==
  ASSUME Facts, NEW d \in FixtureDevices, NEW p, NEW u \in Uplinks(d.name, p)
  PROVE  \E m \in RouterLinks(d) : <<m.a, m.b>> \in cables /\ u = LinkOf(<<m.a, m.b>>)
<1>1. u \in Links /\ u.kind = "fabric" /\ d.name \in EndNodes(u)
  BY DEF Uplinks, LinksOf
<1>2. PICK c \in cables : u = LinkOf(c)
  BY <1>1, AllIncluded DEF Links, Facts, Checkable, FactsInv
<1>3. PICK m \in FixtureLinks : c = <<m.a, m.b>>
  BY <1>2 DEF Facts, FactsInv, CablesAreFixtures
<1>4. c[1] = m.a /\ c[2] = m.b
  BY <1>3
<1>5. u.a = m.a /\ u.b = m.b /\ Kind(c) = "fabric"
  BY <1>1, <1>2, <1>4 DEF LinkOf
<1>6. RoleAt(m.a) \notin EndpointRoles /\ RoleAt(m.b) \notin EndpointRoles
  BY <1>4, <1>5 DEF Kind
<1>7. m.a[1] \in Nodes /\ m.b[1] \in Nodes
  <2>1. LinkEnds(m) \subseteq DOMAIN ports
    BY <1>3, CableEndsAreRead DEF Facts
  <2>2. QED
    BY <2>1 DEF LinkEnds, Facts, SnapshotCloses
<1>8. ASSUME NEW e \in FixtureDevices, e.name \in {m.a[1], m.b[1]}
      PROVE  e.role \notin EndpointRoles
  <2>1. devices[e.name].role = e.role
    BY <1>7, <1>8, RoleIsRead DEF Facts, FactsInv
  <2>2. devices[e.name].role \notin EndpointRoles
    BY <1>6, <1>8 DEF RoleAt
  <2>3. QED
    BY <2>1, <2>2
<1>9. d.name \in {m.a[1], m.b[1]}
  BY <1>1, <1>5 DEF EndNodes
<1>10. m \in RouterLinks(d)
  BY <1>8, <1>9 DEF RouterLinks
<1>11. QED
  BY <1>2, <1>3, <1>10

\* A link between routers has a cable, for a leaf has no more of them than it
\* needs.
LEMMA RouterLinkHasCable ==
  ASSUME Facts, CLS001, CLS004, NEW d \in FixtureDevices, d.role = "leaf",
         d.plane \in RequiredPlanes, NEW l \in RouterLinks(d),
         Cardinality(RouterLinks(d)) <= SpineCount[d.plane]
  PROVE  <<l.a, l.b>> \in cables
<1> DEFINE up == Uplinks(d.name, d.plane)
           M == {m \in RouterLinks(d) : <<m.a, m.b>> \in cables /\ LinkOf(<<m.a, m.b>>) \in up}
           f == [m \in M |-> LinkOf(<<m.a, m.b>>)]
<1>1. d.name \in Nodes
  BY AllDevicesRead, FixtureFacts
<1>2. d.name \in InPlane("leaf", d.plane)
  BY <1>1, RoleIsRead DEF InPlane, OfRole, Facts, FactsInv
<1>3. Cardinality(up) = SpineCount[d.plane]
  BY <1>2 DEF CLS001
<1>4. /\ IsFiniteSet(RouterLinks(d)) /\ IsFiniteSet(M)
      /\ Cardinality(RouterLinks(d)) \in Nat /\ Cardinality(M) \in Nat
  <2>1. RouterLinks(d) \in SUBSET FixtureLinks
    BY DEF RouterLinks
  <2>2. M \in SUBSET FixtureLinks
    BY <2>1
  <2> HIDE DEF M
  <2>3. QED
    BY <2>1, <2>2, LinksAreFinite
<1>5. f \in Surjection(M, up)
  <2>1. \A u \in up : \E m \in M : f[m] = u
    <3> SUFFICES ASSUME NEW u \in up PROVE \E m \in M : f[m] = u
      OBVIOUS
    <3>1. PICK m \in RouterLinks(d) : <<m.a, m.b>> \in cables /\ u = LinkOf(<<m.a, m.b>>)
      BY UplinkIsCounted
    <3> HIDE DEF up
    <3>2. m \in M
      BY <3>1
    <3>3. f[m] = u
      BY <3>1, <3>2
    <3> HIDE DEF f, M
    <3>4. QED
      BY <3>2, <3>3
  <2> HIDE DEF up
  <2>2. f \in [M -> up]
    OBVIOUS
  <2> HIDE DEF f, M
  <2>3. QED
    BY <2>1, <2>2 DEF Surjection
<1> HIDE DEF f, up
<1>6. Cardinality(up) <= Cardinality(M) /\ Cardinality(M) <= Cardinality(RouterLinks(d))
  <2>1. M \in SUBSET RouterLinks(d)
    OBVIOUS
  <2> HIDE DEF M
  <2>2. QED
    BY <1>4, <1>5, <2>1, FS_Surjection, FS_Subset
<1>7. Cardinality(M) = Cardinality(RouterLinks(d))
  <2> HIDE DEF M
  <2>1. SpineCount[d.plane] <= Cardinality(M)
    BY <1>3, <1>6
  <2>2. SpineCount[d.plane] \in Nat
    BY SpineCountAssumption
  <2>3. QED
    BY <1>4, <1>6, <2>1, <2>2
<1>8. M = RouterLinks(d)
  <2>1. M \in SUBSET RouterLinks(d)
    OBVIOUS
  <2> HIDE DEF M
  <2>2. QED
    BY <1>4, <1>7, <2>1, FS_Subset
<1>9. QED
  BY <1>8

LEMMA EveryCable ==
  ASSUME Facts, CLS001, CLS004, NEW l \in FixtureLinks
  PROVE  <<l.a, l.b>> \in cables
<1>1. PICK d \in FixtureDevices :
        \/ HostPortsOf(d) \cap LinkEnds(l) # {}
        \/ /\ d.role = "leaf" /\ d.plane \in RequiredPlanes
           /\ l \in RouterLinks(d) /\ Cardinality(RouterLinks(d)) <= SpineCount[d.plane]
  BY DEF Facts, Checkable, Counted
<1>2. QED
  BY <1>1, HostLinkHasCable, RouterLinkHasCable

LEMMA EveryAddressOnce ==
  ASSUME Facts, Passes, NEW d \in FixtureDevices, NEW p \in ToSet(d.ports),
         NEW i, i = InterfaceOf(d, p)
  PROVE  ports[i].addresses = {[x EXCEPT !.record = 1] : x \in ToSet(p.addresses)}
<1>1. CLS001 /\ CLS004 /\ ADR002 /\ ADR003
  BY DEF Passes
<1>2. PICK l \in FixtureLinks : i \in LinkEnds(l)
  BY DEF Facts, Checkable, Linked
<1>3. <<l.a, l.b>> \in cables
  BY <1>1, EveryCable
<1> DEFINE c == <<l.a, l.b>>
<1>4. LinkOf(c) \in Links /\ LinkOf(c).a = l.a /\ LinkOf(c).b = l.b /\ LinkOf(c).kind = Kind(c)
  BY <1>3, AllIncluded DEF Links, LinkOf, Facts, Checkable, FactsInv
<1>5. Kind(c) \in {"host", "fabric"}
  <2>1. l.a \in DOMAIN ports
    BY <1>3, CableEndsAreRead DEF Facts, LinkEnds
  <2>2. ports[l.a].role # "mgmt"
    BY <2>1, AllIncluded DEF Facts, Checkable, FactsInv
  <2>3. QED
    BY <2>2 DEF Kind
<1>6. ValidP2P(LinkOf(c))
  BY <1>1, <1>4, <1>5 DEF ADR002, ADR003, LinksOf
<1>7. Addressed(i)
  BY <1>2, <1>4, <1>6 DEF ValidP2P, LinkEnds
<1>8. PICK y : ports[i].addresses = {y}
  BY <1>7 DEF Addressed
<1>9. PICK x : ToSet(p.addresses) = {x}
  BY DEF Facts, Checkable, Linked
<1>10. i \in DOMAIN ports
  BY <1>1, EveryPort
<1>11. PICK n \in Nat : ports[i].addresses = Copies(x, n)
  <2>1. PICK addresses : ports[i] = PortRecord(p, addresses) /\ AddressesOf(p, addresses)
    BY <1>10, PortIsRead DEF Facts, Checkable, FactsInv
  <2>2. ports[i].addresses = addresses
    BY <2>1 DEF PortRecord
  <2>3. QED
    BY <1>9, <2>1, <2>2 DEF AddressesOf
<1>12. 1 \in 1 .. n
  BY <1>8, <1>11 DEF Copies
<1>13. [x EXCEPT !.record = 1] \in Copies(x, n)
  BY <1>12 DEF Copies
<1>14. y = [x EXCEPT !.record = 1]
  BY <1>8, <1>11, <1>13
<1>15. QED
  BY <1>8, <1>9, <1>14

LEMMA PassesIsWhole ==
  ASSUME Facts, Passes
  PROVE  Whole
<1>1. CLS001 /\ CLS004
  BY DEF Passes
<1>2. Nodes = {d.name : d \in FixtureDevices}
  BY <1>1, AllDevicesRead, FixtureFacts DEF Facts, FactsInv, DevicesAreFixtures
<1>3. cables = {<<l.a, l.b>> : l \in ToSet(Fixture.links)}
  BY <1>1, EveryCable DEF Facts, FactsInv, CablesAreFixtures, FixtureLinks
<1>4. ASSUME NEW d \in FixtureDevices, NEW p \in ToSet(d.ports)
      PROVE  /\ <<d.name, p.slot>> \in DOMAIN ports
             /\ ports[<<d.name, p.slot>>].addresses =
                  {[x EXCEPT !.record = 1] : x \in ToSet(p.addresses)}
  BY <1>1, EveryPort, EveryAddressOnce DEF InterfaceOf
<1>5. QED
  BY <1>2, <1>3, <1>4 DEF Whole

-----------------------------------------------------------------------------
(* Every step keeps ReadInv.                                               *)

LEMMA UnreadTurn ==
  ASSUME SeedTypeOK, Turn, UNCHANGED readVars,
         \A o \in Objects : records'[o] \in Nat /\ records'[o] >= records[o]
  PROVE  Turn'
<1>1. UNCHANGED inventory /\ UNCHANGED <<devices, ports, reader>>
  BY DEF readVars, inventory
<1>2. FactsInv'
  BY <1>1, FactsStay DEF Turn
<1>3. FullIsThere'
  BY <1>1, FullStaysThere DEF Turn
<1>4. ReaderInTurn' /\ FullIsDone'
  BY <1>1 DEF Turn, ReaderInTurn, FullIsDone, Full, Done, Nodes, Current
<1>5. QED
  BY <1>2, <1>3, <1>4 DEF Turn

LEMMA ForgetInTurn ==
  ASSUME NEW step, Forget, Await(step), step \in {"site", "idle"}
  PROVE  Turn'
<1>1. FactsInv' /\ FullIsThere'
  BY ForgottenIsFixture
<1>2. FullIsDone' /\ ReaderInTurn'
  BY AwaitKeeps
<1>3. QED
  BY <1>1, <1>2 DEF Turn

\* A request that reads nothing into the snapshot.
LEMMA AwaitInTurn ==
  ASSUME SeedTypeOK, Turn, NEW step, Await(step), step \in {"devices", "idle"},
         UNCHANGED inventory, UNCHANGED records
  PROVE  Turn'
<1>1. FactsInv'
  BY FactsStay DEF Turn
<1>2. FullIsThere'
  BY SameRecords, FullStaysThere DEF Turn, inventory
<1>3. FullIsDone' /\ ReaderInTurn'
  BY AwaitKeeps
<1>4. QED
  BY <1>1, <1>2, <1>3 DEF Turn

LEMMA AcceptedStays ==
  ASSUME ReadInv, UNCHANGED <<inventory, reader, accepted>>
  PROVE  accepted' => reader'.step = "idle" /\ Whole'
BY DEF ReadInv, inventory, Whole, Nodes

LEMMA ReadStepKeeps ==
  ASSUME Checkable, SeedInv, OrderInv, SnapshotInv, ReadInv, Reading
  PROVE  ReadInv'
<1> USE DEF ReadInv, SeedInv
<1>1. UNCHANGED seedVars /\ UNCHANGED records
  BY DEF Reading, seedVars
<1>2. CASE StartRead
  BY <1>2, ForgetInTurn DEF StartRead
<1>3. CASE ReadSite
  <2>1. reader.step = "site" /\ UNCHANGED <<inventory, accepted>>
    BY <1>3 DEF ReadSite
  <2>2. PICK step \in {"devices", "idle"} : Await(step)
    BY <1>3 DEF ReadSite
  <2>3. Turn'
    BY <1>1, <2>1, <2>2, AwaitInTurn
  <2>4. QED
    BY <2>1, <2>3
<1>4. CASE ReadDevices
  <2>1. reader.step = "devices" /\ UNCHANGED accepted
    BY <1>4 DEF ReadDevices
  <2>2. QED
    BY <1>1, <1>4, <2>1, ReadDevicesInTurn DEF Checkable
<1>5. CASE ReadInterfaces
  <2>1. reader.step = "interfaces" /\ UNCHANGED accepted
    BY <1>5 DEF ReadInterfaces
  <2>2. QED
    BY <1>1, <1>5, <2>1, ReadInterfacesInTurn
<1>6. CASE ReadAddresses
  <2>1. reader.step = "addresses" /\ UNCHANGED accepted
    BY <1>6 DEF ReadAddresses
  <2>2. QED
    BY <1>1, <1>6, <2>1, ReadAddressesInTurn
<1>7. CASE ReadCables
  <2>1. reader.step = "cables" /\ UNCHANGED accepted
    BY <1>7 DEF ReadCables
  <2>2. QED
    BY <1>1, <1>7, <2>1, ReadCablesInTurn
<1>8. CASE Validate
  <2>1. /\ reader.step = "validate" /\ Await("idle") /\ UNCHANGED inventory
        /\ accepted' = Passes
    BY <1>8 DEF Validate
  <2>2. Turn'
    BY <1>1, <2>1, AwaitInTurn
  <2>3. Passes => Whole
    <3>1. Facts
      BY <2>1 DEF Facts, Turn, FullIsDone, SnapshotInv
    <3>2. QED
      BY <3>1, PassesIsWhole
  <2>4. Whole => Whole'
    BY <2>1 DEF inventory, Whole, Nodes
  <2>5. reader'.step = "idle"
    BY <2>1 DEF Await
  <2>6. QED
    BY <2>1, <2>2, <2>3, <2>4, <2>5
<1>9. QED
  BY <1>2, <1>3, <1>4, <1>5, <1>6, <1>7, <1>8 DEF Reading, ReadStep

LEMMA ReadInductive ==
  ASSUME Checkable, SeedInv, OrderInv, SnapshotInv, ReadInv, [Next]_vars
  PROVE  ReadInv'
<1>1. CASE SeedNext /\ UNCHANGED readVars
  <2>1. \A o \in Objects : records'[o] \in Nat /\ records'[o] >= records[o]
    BY <1>1, RecordsGrow
  <2>2. Turn'
    BY <1>1, <2>1, UnreadTurn DEF ReadInv, SeedInv
  <2>3. QED
    BY <1>1, <2>2, AcceptedStays DEF ReadInv, readVars
<1>2. CASE UNCHANGED vars
  <2>1. UNCHANGED readVars /\ UNCHANGED records
    BY <1>2 DEF vars, seedVars
  <2>2. Turn'
    BY <2>1, SameRecords, UnreadTurn DEF ReadInv, SeedInv
  <2>3. QED
    BY <2>1, <2>2, AcceptedStays DEF ReadInv, readVars
<1>3. CASE Reading
  BY <1>3, ReadStepKeeps
<1>4. CASE ReadFails
  <2>1. reader.step # "idle" /\ Forget /\ Await("idle") /\ UNCHANGED accepted
    BY <1>4 DEF ReadFails
  <2>2. QED
    BY <2>1, ForgetInTurn DEF ReadInv
<1>5. QED
  BY <1>1, <1>2, <1>3, <1>4 DEF Next

\* No snapshot but one of the whole fixture is accepted, whatever was seeded
\* while it was read, for any fixture that shows of every beginning of it that
\* the rest is missing, any number of seeders that overlap and any failures
\* (fetch_site, normalize and PolicyEngine.run).
THEOREM AcceptedHolds == Checkable => (Spec => []AcceptedIsWhole)
<1> SUFFICES ASSUME Checkable PROVE Spec => []AcceptedIsWhole
  OBVIOUS
<1>1. Init => ReadInv
  <2> SUFFICES ASSUME Init PROVE ReadInv
    OBVIOUS
  <2>1. DOMAIN devices = {} /\ DOMAIN ports = {} /\ cables = {} /\ ~accepted
    BY DEF Init
  <2>2. reader.step = "idle"
    BY DEF Init
  <2>3. FactsInv /\ FullIsThere
    BY <2>1 DEF FactsInv, DevicesAreFixtures, PortsAreFixtures, CablesAreFixtures, Nodes,
                FullIsThere, Full
  <2>4. QED
    BY <2>1, <2>2, <2>3 DEF ReadInv, Turn, ReaderInTurn, FullIsDone
<1>2. SeedInv /\ OrderInv /\ SnapshotInv /\ ReadInv /\ [Next]_vars => ReadInv'
  BY ReadInductive
<1>3. ReadInv => AcceptedIsWhole
  BY DEF ReadInv, AcceptedIsWhole
<1>4. QED
  BY <1>1, <1>2, <1>3, SeedInductive, OrderInductive, SnapshotInductive, PTL DEF Spec

=============================================================================
