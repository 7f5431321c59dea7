--------------------------- MODULE MigratorProofs ---------------------------
(***************************************************************************)
(* Proofs about Migrator, for any processes, registries and usages.        *)
(***************************************************************************)
EXTENDS Migrator, TLAPS

\* A table in which no script ran on top of itself.
RanOnce(t) ==
  \A v \in Versions : t.effects[v] <= 1 /\ (t.effects[v] = 1 => v \in t.applied)

\* The strengthening of NeverRunTwice: the open transaction respects it too.
OnceInv == TypeOK /\ RanOnce(Committed) /\ RanOnce(draft)

\* A table that records and has in effect exactly the migrations up to some
\* version.
AtVersion(t) ==
  /\ \A v \in t.applied, w \in Versions : w <= v => w \in t.applied
  /\ \A v \in Versions : t.effects[v] = IF v \in t.applied THEN 1 ELSE 0

\* What a call has still to run continues, or undoes, what p finds in the
\* database.
UpwardPlan(p) ==
  /\ \A v \in call[p].plan, w \in Registry[p] \ call[p].plan :
       w < v => w \in Base(p).applied
  /\ call[p].op = "migrate_all" => Registry[p] \ call[p].plan \subseteq Base(p).applied

DownwardPlan(p) ==
  /\ call[p].plan \subseteq Base(p).applied
  /\ \A v \in call[p].plan, w \in Base(p).applied : v < w => w \in call[p].plan
  /\ call[p].op = "rollback_all" => Base(p).applied \subseteq call[p].plan

PlanInv(p) ==
  /\ call[p].plan \subseteq Registry[p]
  /\ call[p].op \in Upwards => UpwardPlan(p)
  /\ call[p].op \in Operations \ Upwards => DownwardPlan(p)

\* In an upgrade nothing is rolled back; an operator's calls do not overlap.
UsageInv ==
  /\ deployment = "operator" => \A p, q \in Migrators : ~Idle(p) /\ ~Idle(q) => p = q
  /\ deployment = "upgrade" =>
       /\ \A p \in Migrators : ~Idle(p) => call[p].op \in Upwards
       /\ lock # Nobody => applied \subseteq draft.applied

\* The strengthening of AtAVersion and AllMeansAll.
OrderlyInv ==
  Orderly =>
    /\ AtVersion(Committed)
    /\ lock # Nobody => AtVersion(draft) /\ ~Idle(lock)
    /\ \A p \in Migrators : ~Idle(p) => PlanInv(p)
    /\ UsageInv

-----------------------------------------------------------------------------
(* Types, and scripts that run once.                                       *)

\* What a typed state gives each process.
LEMMA Typed ==
  ASSUME TypeOK, NEW p \in Migrators
  PROVE  /\ Base(p).applied \in SUBSET Versions
         /\ Base(p).effects \in [Versions -> Int]
         /\ call[p].op \in {"none"} \cup Operations
         /\ call[p].plan \in SUBSET Versions
BY DEF TypeOK, Base, Committed, Tables, Calls

\* Versions are positive numbers, and every registry holds versions.
LEMMA VersionsArePositive ==
  /\ Versions \subseteq Nat \ {0}
  /\ \A p \in Migrators : Registry[p] \subseteq Versions
BY RegistryAssumption DEF Versions

\* Every process finds a table whose scripts ran once.
LEMMA BaseRanOnce ==
  ASSUME OnceInv, NEW p \in Migrators
  PROVE  RanOnce(Base(p))
BY DEF OnceInv, Base

LEMMA InitOnce == Init => OnceInv
<1>. SUFFICES ASSUME Init PROVE OnceInv
  OBVIOUS
<1>1. TypeOK
  BY DEF Init, TypeOK, Committed, Tables, Calls, NoCall
<1>. QED
  BY <1>1 DEF Init, OnceInv, RanOnce, Committed

LEMMA DecideOnce ==
  ASSUME OnceInv, NEW p \in Migrators, NEW op \in Operations,
         NEW plan \in SUBSET Registry[p], Decide(p, op, plan)
  PROVE  OnceInv'
<1>1. TypeOK'
  BY VersionsArePositive DEF OnceInv, TypeOK, Decide, Calls, Tables
<1>. QED
  BY <1>1 DEF OnceInv, Decide, RanOnce, Committed

LEMMA RunMigrationOnce ==
  ASSUME OnceInv, NEW p \in Migrators, NEW v \in Versions, RunMigration(p, v)
  PROVE  OnceInv'
<1>1. /\ Base(p).applied \in SUBSET Versions
      /\ Base(p).effects \in [Versions -> Int]
      /\ call[p] \in Calls
  BY Typed DEF OnceInv, TypeOK
<1>2. draft' \in Tables
  BY <1>1 DEF RunMigration, Tables
<1>3. call' \in [Migrators -> Calls]
  BY <1>1 DEF RunMigration, OnceInv, TypeOK, Calls
<1>4. TypeOK'
  BY <1>2, <1>3 DEF RunMigration, OnceInv, TypeOK
<1>5. RanOnce(draft')
  <2>. SUFFICES ASSUME NEW w \in Versions
                PROVE  draft'.effects[w] <= 1 /\ (draft'.effects[w] = 1 => w \in draft'.applied)
    BY DEF RanOnce
  <2>1. Base(p).effects[w] <= 1 /\ (Base(p).effects[w] = 1 => w \in Base(p).applied)
    BY BaseRanOnce DEF RanOnce
  <2>. QED
    BY <1>1, <2>1 DEF RunMigration
<1>. QED
  BY <1>4, <1>5 DEF OnceInv, RunMigration, RanOnce, Committed

LEMMA RollbackMigrationOnce ==
  ASSUME OnceInv, NEW p \in Migrators, NEW v \in Versions, RollbackMigration(p, v)
  PROVE  OnceInv'
<1>1. /\ Base(p).applied \in SUBSET Versions
      /\ Base(p).effects \in [Versions -> Int]
      /\ call[p] \in Calls
  BY Typed DEF OnceInv, TypeOK
<1>2. draft' \in Tables
  BY <1>1 DEF RollbackMigration, Tables
<1>3. call' \in [Migrators -> Calls]
  BY <1>1 DEF RollbackMigration, OnceInv, TypeOK, Calls
<1>4. TypeOK'
  BY <1>2, <1>3 DEF RollbackMigration, OnceInv, TypeOK
<1>5. RanOnce(draft')
  <2>. SUFFICES ASSUME NEW w \in Versions
                PROVE  draft'.effects[w] <= 1 /\ (draft'.effects[w] = 1 => w \in draft'.applied)
    BY DEF RanOnce
  <2>1. Base(p).effects[w] <= 1 /\ (Base(p).effects[w] = 1 => w \in Base(p).applied)
    BY BaseRanOnce DEF RanOnce
  <2>. QED
    BY <1>1, <2>1 DEF RollbackMigration
<1>. QED
  BY <1>4, <1>5 DEF OnceInv, RollbackMigration, RanOnce, Committed

LEMMA CommitOnce ==
  ASSUME OnceInv, NEW p \in Migrators, Commit(p)
  PROVE  OnceInv'
<1>1. TypeOK'
  BY DEF OnceInv, TypeOK, Commit, Tables, Calls, NoCall
<1>. QED
  BY <1>1 DEF OnceInv, Commit, RanOnce, Committed

LEMMA AbortOnce ==
  ASSUME OnceInv, NEW p \in Migrators, Abort(p)
  PROVE  OnceInv'
<1>1. TypeOK'
  BY DEF OnceInv, TypeOK, Abort, Tables, Calls, NoCall, Committed
<1>. QED
  BY <1>1 DEF OnceInv, Abort, RanOnce, Committed

LEMMA NextOnce == OnceInv /\ [Next]_vars => OnceInv'
<1>. SUFFICES ASSUME OnceInv, [Next]_vars PROVE OnceInv'
  OBVIOUS
<1>1. CASE UNCHANGED vars
  BY <1>1 DEF vars, OnceInv, TypeOK, RanOnce, Committed
<1>2. ASSUME NEW p \in Migrators, NEW op \in Operations,
             NEW plan \in SUBSET Registry[p], Decide(p, op, plan)
      PROVE  OnceInv'
  BY <1>2, DecideOnce
<1>3. ASSUME NEW p \in Migrators, NEW v \in Versions, RunMigration(p, v)
      PROVE  OnceInv'
  BY <1>3, RunMigrationOnce
<1>4. ASSUME NEW p \in Migrators, NEW v \in Versions, RollbackMigration(p, v)
      PROVE  OnceInv'
  BY <1>4, RollbackMigrationOnce
<1>5. ASSUME NEW p \in Migrators, Commit(p) PROVE OnceInv'
  BY <1>5, CommitOnce
<1>6. ASSUME NEW p \in Migrators, Abort(p) PROVE OnceInv'
  BY <1>6, AbortOnce
<1>. QED
  BY <1>1, <1>2, <1>3, <1>4, <1>5, <1>6 DEF Next

\* What is recorded and what ran agree as far as the code defends it.
THEOREM MigratorOnce == Spec => []OnceInv
<1>. QED
  BY InitOnce, NextOnce, PTL DEF Spec

\* The migrator's state is always well typed.
THEOREM MigratorTyped == Spec => []TypeOK
<1>1. OnceInv => TypeOK
  BY DEF OnceInv
<1>. QED
  BY <1>1, MigratorOnce, PTL

\* Whichever processes race, in whatever direction: no up script commits on top
\* of itself, because the row's key makes the second run fail and roll back
\* (run_migration).
THEOREM ScriptsRunOnce == Spec => []NeverRunTwice
<1>1. OnceInv => NeverRunTwice
  BY DEF OnceInv, RanOnce, NeverRunTwice, Committed
<1>. QED
  BY <1>1, MigratorOnce, PTL

-----------------------------------------------------------------------------
(* At a version, when the calls are upgrades or do not overlap.            *)

\* A version below one that p knows is known to p: releases append.
LEMMA RegistriesGrow ==
  ASSUME NEW p \in Migrators, NEW v \in Registry[p], NEW w \in Versions, w <= v
  PROVE  w \in Registry[p]
<1>. SUFFICES ASSUME w \notin Registry[p] PROVE FALSE
  OBVIOUS
<1>1. PICK q \in Migrators : w \in Registry[q]
  BY DEF Versions
<1>2. v < w
  BY <1>1, GrowthAssumption
<1>3. v \in Nat /\ w \in Nat
  BY VersionsArePositive
<1>. QED
  BY <1>2, <1>3

\* What a typed, orderly state is known to satisfy.
OrderlyState == OnceInv /\ OrderlyInv /\ Orderly

\* Every process that runs finds the database at a version.
LEMMA BaseAtVersion ==
  ASSUME OrderlyState, NEW p \in Migrators
  PROVE  AtVersion(Base(p))
BY NobodyAssumption DEF OrderlyState, OrderlyInv, Base

\* A process in its transaction is not idle, so an idle one finds the committed
\* tables.
LEMMA IdleFindsCommitted ==
  ASSUME OrderlyState, NEW p \in Migrators, Idle(p)
  PROVE  lock # p /\ Base(p) = Committed
BY NobodyAssumption DEF OrderlyState, OrderlyInv, Base

\* The current version's migration and those before it are applied, and
\* nothing else is.
LEMMA CurrentVersion ==
  ASSUME OrderlyState, NEW p \in Migrators, NEW c \in {0} \cup Versions,
         IsCurrent(c), Known(p, c)
  PROVE  /\ PendingAt(p, c) = Registry[p] \ applied
         /\ ExecutedAt(p, c) = applied
<1>1. applied \subseteq Versions
  BY DEF OrderlyState, OnceInv, TypeOK
<1>2. c \in Nat
  BY VersionsArePositive
<1>3. ASSUME NEW v \in Registry[p]
      PROVE  v \in Versions /\ v \in Nat /\ v # 0 /\ (v > c <=> ~(v <= c))
  <2>1. v \in Versions
    BY VersionsArePositive
  <2>2. v \in Nat \ {0}
    BY <2>1, VersionsArePositive
  <2>. QED
    BY <2>1, <2>2, <1>2
<1>4. CASE applied = {}
  <2>1. c = 0
    BY <1>4 DEF IsCurrent
  <2>2. \A v \in Registry[p] : v > c /\ ~(v <= c)
    BY <1>3, <2>1
  <2>. QED
    BY <1>4, <2>2 DEF PendingAt, ExecutedAt
<1>5. CASE applied # {}
  <2>1. c \in applied /\ (\A w \in applied : w <= c) /\ c # 0
    BY <1>1, <1>5, VersionsArePositive DEF IsCurrent, Greatest
  <2>2. c \in Registry[p]
    BY <2>1 DEF Known
  <2>3. \A w \in Versions : w \in applied <=> w <= c
    BY <2>1, <1>1 DEF OrderlyState, OrderlyInv, AtVersion, Committed
  <2>4. applied \subseteq Registry[p]
    BY <2>1, <2>2, <1>1, RegistriesGrow
  <2>. QED
    BY <1>3, <2>3, <2>4 DEF PendingAt, ExecutedAt
<1>. QED
  BY <1>4, <1>5

LEMMA InitOrderly == Init => OrderlyInv
<1>. SUFFICES ASSUME Init PROVE OrderlyInv
  OBVIOUS
<1>1. AtVersion(Committed)
  BY DEF Init, AtVersion, Committed
<1>2. \A p \in Migrators : Idle(p)
  BY DEF Init, Idle, NoCall
<1>. QED
  BY <1>1, <1>2 DEF Init, OrderlyInv, UsageInv

\* A plan made of the committed tables is a plan in the sense of PlanInv.
LEMMA DecidePlans ==
  ASSUME OrderlyState, NEW p \in Migrators, NEW op \in Operations,
         NEW plan \in SUBSET Registry[p], Decide(p, op, plan)
  PROVE  PlanInv(p)'
<1>. DEFINE S == Registry[p]
<1>1. PICK c \in {0} \cup Versions : IsCurrent(c) /\ Known(p, c) /\ Plans(p, op, c, plan)
  BY DEF Decide
<1>2. PendingAt(p, c) = S \ applied /\ ExecutedAt(p, c) = applied
  BY <1>1, CurrentVersion
<1>3. /\ call'[p] = [op |-> op, plan |-> plan]
      /\ Base(p)' = Committed
      /\ Committed.applied = applied
  BY IdleFindsCommitted DEF Decide, OrderlyState, OnceInv, TypeOK, Base, Committed
<1>4. S \subseteq Versions /\ applied \subseteq Versions /\ Versions \subseteq Nat
  BY VersionsArePositive DEF OrderlyState, OnceInv, TypeOK
<1>5. CASE op = "migrate_all"
  <2>1. plan = S \ applied
    BY <1>1, <1>2, <1>5 DEF Plans
  <2>. QED
    BY <1>3, <1>5, <2>1 DEF PlanInv, UpwardPlan, Upwards, Operations
<1>6. CASE op = "migrate_one"
  <2>1. PICK v \in S \ applied : Least(v, S \ applied) /\ plan = {v}
    BY <1>1, <1>2, <1>6 DEF Plans
  <2>2. ASSUME NEW w \in S, w < v PROVE w \in applied
    <3>1. v \in Nat /\ w \in Nat
      BY <2>1, <1>4
    <3>2. ~(v <= w)
      BY <2>2, <3>1
    <3>. QED
      BY <2>1, <3>2 DEF Least
  <2>. QED
    BY <1>3, <1>6, <2>1, <2>2 DEF PlanInv, UpwardPlan, Upwards, Operations
<1>7. CASE op = "rollback_all"
  <2>1. plan = applied
    BY <1>1, <1>2, <1>7 DEF Plans
  <2>. QED
    BY <1>3, <1>7, <2>1 DEF PlanInv, DownwardPlan, Upwards, Operations
<1>8. CASE op = "rollback_one"
  <2>1. PICK v \in applied : Greatest(v, applied) /\ plan = {v}
    BY <1>1, <1>2, <1>8 DEF Plans
  <2>2. \A w \in applied : ~(v < w)
    BY <2>1, <1>4 DEF Greatest
  <2>. QED
    BY <1>3, <1>8, <2>1, <2>2 DEF PlanInv, DownwardPlan, Upwards, Operations
<1>. QED
  BY <1>5, <1>6, <1>7, <1>8 DEF Operations

LEMMA DecideOrderly ==
  ASSUME OrderlyState, NEW p \in Migrators, NEW op \in Operations,
         NEW plan \in SUBSET Registry[p], Decide(p, op, plan)
  PROVE  OrderlyInv'
<1>1. AtVersion(Committed)' /\ (lock # Nobody => AtVersion(draft))'
  BY DEF Decide, OrderlyState, OrderlyInv, AtVersion, Committed
<1>2. \A q \in Migrators : q # p => call'[q] = call[q]
  BY DEF Decide, OrderlyState, OnceInv, TypeOK
<1>3. call'[p].op = op /\ op # "none"
  BY DEF Decide, OrderlyState, OnceInv, TypeOK, Operations
<1>4. (lock # Nobody => ~Idle(lock))'
  BY <1>2, <1>3 DEF Decide, OrderlyState, OrderlyInv, OnceInv, TypeOK, Idle
<1>5. \A q \in Migrators : (~Idle(q) => PlanInv(q))'
  <2>. SUFFICES ASSUME NEW q \in Migrators, ~Idle(q)' PROVE PlanInv(q)'
    OBVIOUS
  <2>1. CASE q = p
    BY <2>1, DecidePlans
  <2>2. CASE q # p
    <3>1. call'[q] = call[q] /\ Base(q)' = Base(q)
      BY <1>2, <2>2 DEF Decide, Base, Committed
    <3>2. PlanInv(q)
      BY <3>1 DEF OrderlyState, OrderlyInv, Idle
    <3>. QED
      BY <3>1, <3>2 DEF PlanInv, UpwardPlan, DownwardPlan
  <2>. QED
    BY <2>1, <2>2
<1>6. UsageInv'
  <2>1. \A q \in Migrators : q # p => Idle(q)' = Idle(q)
    BY <1>2 DEF Idle
  <2>2. CASE deployment = "operator"
    BY <1>2, <2>1, <2>2 DEF Decide, UsageInv
  <2>3. CASE deployment = "upgrade"
    BY <1>2, <1>3, <2>1, <2>3 DEF Decide, UsageInv, OrderlyState, OrderlyInv
  <2>. QED
    BY <2>2, <2>3 DEF OrderlyState, Orderly, Decide, UsageInv
<1>. QED
  BY <1>1, <1>4, <1>5, <1>6 DEF OrderlyInv

\* A script's step leaves the committed tables and every other call alone, and
\* the process that runs it finds its own draft afterwards.
LEMMA OthersAreUntouched ==
  ASSUME OrderlyState, NEW p \in Migrators, NEW v \in Versions,
         RunMigration(p, v) \/ RollbackMigration(p, v)
  PROVE  /\ deployment' = deployment /\ applied' = applied
         /\ Committed' = Committed
         /\ lock' = p /\ Base(p)' = draft'
         /\ call'[p] = [call[p] EXCEPT !.plan = @ \ {v}]
         /\ call'[p].op = call[p].op /\ call'[p].plan = call[p].plan \ {v}
         /\ \A q \in Migrators \ {p} : call'[q] = call[q] /\ Base(q)' = Base(q)
         /\ ~Idle(p)
<1>1. call \in [Migrators -> Calls]
  BY DEF OrderlyState, OnceInv, TypeOK
<1>2. /\ call' = [call EXCEPT ![p].plan = @ \ {v}]
      /\ deployment' = deployment /\ applied' = applied /\ effects' = effects
      /\ lock' = p
      /\ lock \in {p, Nobody}
      /\ call[p].op \in Operations
  BY DEF RunMigration, RollbackMigration, Operations, Upwards
<1>3. /\ call'[p] = [call[p] EXCEPT !.plan = @ \ {v}]
      /\ \A q \in Migrators \ {p} : call'[q] = call[q]
  BY <1>1, <1>2
<1>4. call'[p].op = call[p].op /\ call'[p].plan = call[p].plan \ {v}
  BY <1>1, <1>3 DEF Calls
<1>5. \A q \in Migrators \ {p} : Base(q)' = Base(q)
  BY <1>2, NobodyAssumption DEF Base, Committed
<1>. QED
  BY <1>2, <1>3, <1>4, <1>5 DEF Base, Committed, Idle, Operations

\* The other calls keep their plans while p runs a script.
LEMMA OthersKeepPlans ==
  ASSUME OrderlyState, NEW p \in Migrators, NEW v \in Versions,
         RunMigration(p, v) \/ RollbackMigration(p, v),
         NEW q \in Migrators \ {p}, ~Idle(q)'
  PROVE  PlanInv(q)'
<1>1. call'[q] = call[q] /\ Base(q)' = Base(q)
  BY OthersAreUntouched
<1>2. PlanInv(q)
  BY <1>1 DEF OrderlyState, OrderlyInv, Idle
<1>. QED
  BY <1>1, <1>2 DEF PlanInv, UpwardPlan, DownwardPlan

\* The least migration of a plan continues what its process finds.
LEMMA RunMigrationOrderly ==
  ASSUME OrderlyState, NEW p \in Migrators, NEW v \in Versions, RunMigration(p, v)
  PROVE  OrderlyInv'
<1>. DEFINE T == Base(p)
<1>1. /\ deployment' = deployment /\ applied' = applied
      /\ Committed' = Committed
      /\ lock' = p /\ Base(p)' = draft'
      /\ call'[p].op = call[p].op /\ call'[p].plan = call[p].plan \ {v}
      /\ \A q \in Migrators \ {p} : call'[q] = call[q]
      /\ ~Idle(p)
  BY OthersAreUntouched
<1>2. AtVersion(T) /\ PlanInv(p) /\ UpwardPlan(p)
  BY <1>1, BaseAtVersion DEF OrderlyState, OrderlyInv, PlanInv, RunMigration
<1>3. /\ T.applied \in SUBSET Versions /\ T.effects \in [Versions -> Int]
      /\ call[p].plan \in SUBSET Versions
  BY Typed DEF OrderlyState, OnceInv
<1>4. draft'.applied = T.applied \cup {v} /\ draft'.effects = [T.effects EXCEPT ![v] = @ + 1]
  BY DEF RunMigration
<1>5. v \in call[p].plan /\ v \in Registry[p] /\ v \notin T.applied
  BY <1>2 DEF RunMigration, Least, PlanInv
<1>6. ASSUME NEW w \in Versions, w <= v, w # v PROVE w \in T.applied
  <2>1. w \in Nat /\ v \in Nat
    BY VersionsArePositive
  <2>2. w < v /\ ~(v <= w)
    BY <1>6, <2>1
  <2>3. w \in Registry[p] \ call[p].plan
    BY <1>5, <1>6, <2>2, RegistriesGrow DEF RunMigration, Least
  <2>. QED
    BY <1>2, <1>5, <2>2, <2>3 DEF UpwardPlan
<1>7. AtVersion(draft')
  <2>1. \A u \in draft'.applied, w \in Versions : w <= u => w \in draft'.applied
    BY <1>2, <1>4, <1>6 DEF AtVersion
  <2>2. \A w \in Versions : draft'.effects[w] = IF w \in draft'.applied THEN 1 ELSE 0
    BY <1>2, <1>3, <1>4, <1>5 DEF AtVersion
  <2>. QED
    BY <2>1, <2>2 DEF AtVersion
<1>8. PlanInv(p)'
  <2>1. UpwardPlan(p)'
    BY <1>1, <1>2, <1>4, <1>5 DEF UpwardPlan
  <2>. QED
    BY <1>1, <1>2, <2>1 DEF PlanInv, RunMigration
<1>9. \A q \in Migrators : (~Idle(q) => PlanInv(q))'
  BY <1>8, OthersKeepPlans
<1>10. UsageInv'
  <2>1. \A q \in Migrators : Idle(q)' = Idle(q)
    BY <1>1 DEF Idle
  <2>2. applied \subseteq T.applied \/ deployment # "upgrade"
    <3>1. CASE lock = p
      BY <3>1, NobodyAssumption DEF OrderlyState, OrderlyInv, UsageInv, Base
    <3>2. CASE lock # p
      BY <3>2 DEF Base, Committed
    <3>. QED
      BY <3>1, <3>2
  <2>3. deployment = "upgrade" => \A q \in Migrators : call'[q].op = call[q].op
    BY <1>1
  <2>. QED
    BY <1>1, <1>4, <2>1, <2>2, <2>3 DEF OrderlyState, OrderlyInv, UsageInv
<1>. QED
  BY <1>1, <1>7, <1>9, <1>10 DEF OrderlyInv, OrderlyState, Orderly, AtVersion, Idle

\* The greatest migration of a plan is the last one its process finds.
LEMMA RollbackMigrationOrderly ==
  ASSUME OrderlyState, NEW p \in Migrators, NEW v \in Versions, RollbackMigration(p, v)
  PROVE  OrderlyInv'
<1>. DEFINE T == Base(p)
<1>1. /\ deployment' = deployment /\ applied' = applied
      /\ Committed' = Committed
      /\ lock' = p /\ Base(p)' = draft'
      /\ call'[p].op = call[p].op /\ call'[p].plan = call[p].plan \ {v}
      /\ \A q \in Migrators \ {p} : call'[q] = call[q]
      /\ ~Idle(p)
  BY OthersAreUntouched
<1>2. AtVersion(T) /\ PlanInv(p) /\ DownwardPlan(p)
  BY <1>1, BaseAtVersion DEF OrderlyState, OrderlyInv, PlanInv, RollbackMigration
<1>3. /\ T.applied \in SUBSET Versions /\ T.effects \in [Versions -> Int]
      /\ call[p].plan \in SUBSET Versions
  BY Typed DEF OrderlyState, OnceInv
<1>4. draft'.applied = T.applied \ {v} /\ draft'.effects = [T.effects EXCEPT ![v] = @ - 1]
  BY DEF RollbackMigration
<1>5. v \in call[p].plan /\ v \in T.applied
  BY <1>2 DEF RollbackMigration, Greatest, DownwardPlan
<1>6. ASSUME NEW u \in T.applied, u # v PROVE ~(v <= u)
  <2>1. u \in Nat /\ v \in Nat
    BY <1>3, VersionsArePositive
  <2>2. CASE v < u
    BY <1>2, <1>5, <2>1, <2>2 DEF DownwardPlan, RollbackMigration, Greatest
  <2>. QED
    BY <1>6, <2>1, <2>2
<1>7. AtVersion(draft')
  <2>1. \A u \in draft'.applied, w \in Versions : w <= u => w \in draft'.applied
    BY <1>2, <1>4, <1>6 DEF AtVersion
  <2>2. \A w \in Versions : draft'.effects[w] = IF w \in draft'.applied THEN 1 ELSE 0
    BY <1>2, <1>3, <1>4, <1>5 DEF AtVersion
  <2>. QED
    BY <2>1, <2>2 DEF AtVersion
<1>8. PlanInv(p)'
  <2>1. DownwardPlan(p)'
    BY <1>1, <1>2, <1>4, <1>5 DEF DownwardPlan
  <2>. QED
    BY <1>1, <1>2, <2>1 DEF PlanInv, RollbackMigration
<1>9. \A q \in Migrators : (~Idle(q) => PlanInv(q))'
  BY <1>8, OthersKeepPlans
<1>10. UsageInv'
  <2>1. \A q \in Migrators : Idle(q)' = Idle(q)
    BY <1>1 DEF Idle
  <2>2. deployment # "upgrade"
    BY <1>1 DEF OrderlyState, OrderlyInv, UsageInv, RollbackMigration
  <2>. QED
    BY <1>1, <2>1, <2>2 DEF OrderlyState, OrderlyInv, UsageInv
<1>. QED
  BY <1>1, <1>7, <1>9, <1>10 DEF OrderlyInv, OrderlyState, Orderly, AtVersion, Idle

\* A commit publishes the draft, which is at a version, and under which the
\* plans of racing upgrades stay good.
LEMMA CommitOrderly ==
  ASSUME OrderlyState, NEW p \in Migrators, Commit(p)
  PROVE  OrderlyInv'
<1>1. /\ lock = p /\ lock' = Nobody /\ p # Nobody
      /\ deployment' = deployment /\ draft' = draft
      /\ applied' = draft.applied /\ effects' = draft.effects
      /\ call'[p] = NoCall
      /\ \A q \in Migrators \ {p} : call'[q] = call[q]
  BY NobodyAssumption DEF Commit, OrderlyState, OnceInv, TypeOK
<1>2. AtVersion(draft) /\ ~Idle(p)
  BY <1>1 DEF OrderlyState, OrderlyInv
<1>3. AtVersion(Committed)'
  BY <1>1, <1>2 DEF AtVersion, Committed
<1>4. Idle(p)' /\ \A q \in Migrators \ {p} : Idle(q)' = Idle(q)
  BY <1>1 DEF Idle, NoCall
<1>5. ASSUME NEW q \in Migrators, ~Idle(q)' PROVE PlanInv(q)'
  <2>1. q # p /\ ~Idle(q) /\ call'[q] = call[q]
    BY <1>1, <1>4, <1>5
  <2>2. deployment = "upgrade" /\ call[q].op \in Upwards /\ applied \subseteq draft.applied
    BY <1>1, <1>2, <2>1 DEF OrderlyState, OrderlyInv, UsageInv, Orderly
  <2>3. PlanInv(q) /\ UpwardPlan(q)
    BY <2>1, <2>2 DEF OrderlyState, OrderlyInv, PlanInv
  <2>4. Base(q).applied \subseteq Base(q)'.applied
    BY <1>1, <2>1, <2>2 DEF Base, Committed
  <2>5. UpwardPlan(q)'
    BY <2>1, <2>3, <2>4 DEF UpwardPlan
  <2>. QED
    BY <2>1, <2>2, <2>3, <2>5 DEF PlanInv
<1>6. UsageInv'
  BY <1>1, <1>4 DEF OrderlyState, OrderlyInv, UsageInv
<1>. QED
  BY <1>1, <1>3, <1>5, <1>6 DEF OrderlyInv

\* An abort leaves the committed tables, which every other call is about.
LEMMA AbortOrderly ==
  ASSUME OrderlyState, NEW p \in Migrators, Abort(p)
  PROVE  OrderlyInv'
<1>1. /\ lock' = IF lock = p THEN Nobody ELSE lock
      /\ deployment' = deployment /\ applied' = applied /\ effects' = effects
      /\ draft' = IF lock = p THEN Committed ELSE draft
      /\ call'[p] = NoCall
      /\ \A q \in Migrators \ {p} : call'[q] = call[q]
  BY DEF Abort, OrderlyState, OnceInv, TypeOK
<1>2. AtVersion(Committed)' /\ AtVersion(Committed)
  BY <1>1 DEF OrderlyState, OrderlyInv, AtVersion, Committed
<1>3. Idle(p)' /\ \A q \in Migrators \ {p} : Idle(q)' = Idle(q)
  BY <1>1 DEF Idle, NoCall
<1>4. (lock # Nobody => AtVersion(draft) /\ ~Idle(lock))'
  BY <1>1, <1>2 DEF OrderlyState, OrderlyInv, AtVersion, Idle, OnceInv, TypeOK
<1>5. ASSUME NEW q \in Migrators, ~Idle(q)' PROVE PlanInv(q)'
  <2>1. q # p /\ ~Idle(q) /\ call'[q] = call[q]
    BY <1>1, <1>3, <1>5
  <2>2. Base(q)' = Base(q)
    BY <1>1, <2>1, NobodyAssumption DEF Base, Committed
  <2>3. PlanInv(q)
    BY <2>1 DEF OrderlyState, OrderlyInv
  <2>. QED
    BY <2>1, <2>2, <2>3 DEF PlanInv, UpwardPlan, DownwardPlan
<1>6. UsageInv'
  BY <1>1, <1>3 DEF OrderlyState, OrderlyInv, UsageInv
<1>. QED
  BY <1>2, <1>4, <1>5, <1>6 DEF OrderlyInv

LEMMA NextOrderly == OnceInv /\ OrderlyInv /\ [Next]_vars => OrderlyInv'
<1>. SUFFICES ASSUME OnceInv, OrderlyInv, [Next]_vars PROVE OrderlyInv'
  OBVIOUS
<1>1. CASE ~Orderly
  <2>1. deployment' = deployment
    BY DEF Next, vars, Decide, RunMigration, RollbackMigration, Commit, Abort
  <2>. QED
    BY <1>1, <2>1 DEF OrderlyInv, Orderly
<1>2. CASE Orderly
  <2>. USE <1>2 DEF OrderlyState
  <2>1. CASE UNCHANGED vars
    BY <2>1 DEF vars, OrderlyInv, Orderly, AtVersion, Committed, Idle, UsageInv, PlanInv,
                UpwardPlan, DownwardPlan, Base
  <2>2. ASSUME NEW p \in Migrators, NEW op \in Operations,
               NEW plan \in SUBSET Registry[p], Decide(p, op, plan)
        PROVE  OrderlyInv'
    BY <2>2, DecideOrderly
  <2>3. ASSUME NEW p \in Migrators, NEW v \in Versions, RunMigration(p, v)
        PROVE  OrderlyInv'
    BY <2>3, RunMigrationOrderly
  <2>4. ASSUME NEW p \in Migrators, NEW v \in Versions, RollbackMigration(p, v)
        PROVE  OrderlyInv'
    BY <2>4, RollbackMigrationOrderly
  <2>5. ASSUME NEW p \in Migrators, Commit(p) PROVE OrderlyInv'
    BY <2>5, CommitOrderly
  <2>6. ASSUME NEW p \in Migrators, Abort(p) PROVE OrderlyInv'
    BY <2>6, AbortOrderly
  <2>. QED
    BY <2>1, <2>2, <2>3, <2>4, <2>5, <2>6 DEF Next
<1>. QED
  BY <1>1, <1>2

\* A commit of a finished migrate_all or rollback_all reached its end, and no
\* other step changes what is applied.
LEMMA NextAllMeansAll ==
  ASSUME OnceInv, OrderlyInv, [Next]_vars,
         NEW p \in Migrators, Orderly, lock = p, lock' = Nobody, applied' # applied
  PROVE  /\ call[p].op = "migrate_all" => Registry[p] \subseteq applied'
         /\ call[p].op = "rollback_all" => applied' = {}
<1>1. PICK q \in Migrators : Commit(q)
  BY DEF Next, vars, Decide, RunMigration, RollbackMigration, Abort
<1>2. q = p /\ call[p].plan = {} /\ applied' = Base(p).applied
  BY <1>1 DEF Commit, Base
<1>3. ~Idle(p) /\ PlanInv(p)
  BY NobodyAssumption DEF OrderlyInv
<1>4. ASSUME call[p].op = "migrate_all" PROVE Registry[p] \subseteq applied'
  BY <1>2, <1>3, <1>4 DEF PlanInv, UpwardPlan, Upwards
<1>5. ASSUME call[p].op = "rollback_all" PROVE applied' = {}
  BY <1>2, <1>3, <1>5 DEF PlanInv, DownwardPlan, Upwards, Operations
<1>. QED
  BY <1>4, <1>5

\* The inductive invariant of orderly usage, for any releases that only append.
THEOREM MigratorOrderly == Spec => [](OnceInv /\ OrderlyInv)
<1>1. Init => OnceInv /\ OrderlyInv
  BY InitOnce, InitOrderly
<1>2. (OnceInv /\ OrderlyInv) /\ [Next]_vars => (OnceInv /\ OrderlyInv)'
  BY NextOnce, NextOrderly
<1>. QED
  BY <1>1, <1>2, PTL DEF Spec

\* Racing upgrades, and calls that do not overlap, leave the database at a
\* version whatever fails or dies (pending_migrations, executed_migrations,
\* in_transaction).
THEOREM DatabaseAtAVersion == Spec => []AtAVersion
<1>1. OrderlyInv => AtAVersion
  BY DEF OrderlyInv, AtAVersion, AtVersion, Committed
<1>. QED
  BY <1>1, MigratorOrderly, PTL

\* migrate_all that committed leaves nothing pending, rollback_all nothing
\* applied, though both decide what to run before their transaction.
THEOREM AllIsAll == Spec => AllMeansAll
<1>1. (OnceInv /\ OrderlyInv) /\ [Next]_vars =>
        [\A p \in Migrators :
           Orderly /\ lock = p /\ lock' = Nobody /\ applied' # applied =>
             /\ call[p].op = "migrate_all" => Registry[p] \subseteq applied'
             /\ call[p].op = "rollback_all" => applied' = {}]_vars
  BY NextAllMeansAll
<1>. QED
  BY <1>1, MigratorOrderly, PTL DEF Spec, AllMeansAll
=============================================================================
