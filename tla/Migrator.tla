------------------------------ MODULE Migrator ------------------------------
(***************************************************************************)
(* The SQLite migrator (database/adapters/sqlite/migrator.rs): several     *)
(* processes, possibly of different releases, that bring one database up   *)
(* or down.                                                                *)
(*                                                                         *)
(* A call first reads the current version and decides what to run, outside *)
(* of any transaction, then runs the scripts and the bookkeeping of all it *)
(* decided in one transaction.  The registry a migrator was built with is  *)
(* strictly increasing (try_new), so it is a set of versions here.         *)
(***************************************************************************)
EXTENDS Integers

CONSTANTS
  Migrators,    \* processes with a Migrator on the database
  Registry,     \* Registry[p]: the versions of the migrations p was built with
  Nobody,       \* no migrator is in its transaction
  Deployments,  \* how the migrators are used, a subset of those below
  ExtraDowns    \* bound: how often a down script may run beyond its up script

\* anyhow: any calls at any time.  upgrade: only migrate_one and migrate_all
\* are called.  operator: any calls, one at a time.
Usages == {"anyhow", "upgrade", "operator"}

Versions == UNION {Registry[p] : p \in Migrators}

ASSUME NobodyAssumption == Nobody \notin Migrators
ASSUME ExtraDownsAssumption == ExtraDowns \in Nat
ASSUME DeploymentsAssumption == Deployments \subseteq Usages
\* Version 0 is what the code takes for an empty table.
ASSUME RegistryAssumption == Registry \in [Migrators -> SUBSET (Nat \ {0})]
\* A release appends to the migrations of the one before.
ASSUME GrowthAssumption ==
  \A p, q \in Migrators :
    \A v \in Registry[p], w \in Registry[q] \ Registry[p] : v < w

VARIABLES
  deployment,  \* which usage this is
  applied,     \* the versions in the migrations table
  effects,     \* effects[v]: how often v's up script ran, less its down script
  draft,       \* both, as the open transaction has them
  lock,        \* the migrator whose transaction is open
  call         \* what each migrator is doing

vars == <<deployment, applied, effects, draft, lock, call>>

Operations == {"migrate_one", "migrate_all", "rollback_one", "rollback_all"}
Upwards == {"migrate_one", "migrate_all"}

NoCall == [op |-> "none", plan |-> {}]
Calls == [op : {"none"} \cup Operations, plan : SUBSET Versions]
Tables == [applied : SUBSET Versions, effects : [Versions -> Int]]

Committed == [applied |-> applied, effects |-> effects]
Idle(p) == call[p].op = "none"

\* What p's next statement finds.
Base(p) == IF lock = p THEN draft ELSE Committed

TypeOK ==
  /\ deployment \in Deployments
  /\ applied \in SUBSET Versions
  /\ effects \in [Versions -> Int]
  /\ draft \in Tables
  /\ lock \in Migrators \cup {Nobody}
  /\ call \in [Migrators -> Calls]

-----------------------------------------------------------------------------
(* What a call decides.                                                    *)

Greatest(v, S) == v \in S /\ \A w \in S : w <= v
Least(v, S) == v \in S /\ \A w \in S : v <= w

\* current_migration_version: the greatest recorded version, 0 without one.
IsCurrent(v) == IF applied = {} THEN v = 0 ELSE Greatest(v, applied)

\* pending_migrations and executed_migrations, when c is current and known.
Known(p, c) == c = 0 \/ c \in Registry[p]
PendingAt(p, c) == {v \in Registry[p] : v > c}
ExecutedAt(p, c) == {v \in Registry[p] : v <= c}

\* Mutant: migrate_one takes the latest pending migration.
PlansLatest(p, op, c, plan) ==
  CASE op = "migrate_all"  -> plan = PendingAt(p, c)
    [] op = "migrate_one"  -> \E v \in PendingAt(p, c) : Greatest(v, PendingAt(p, c)) /\ plan = {v}
    [] op = "rollback_all" -> plan = ExecutedAt(p, c)
    [] op = "rollback_one" -> \E v \in ExecutedAt(p, c) : Greatest(v, ExecutedAt(p, c)) /\ plan = {v}

Plans(p, op, c, plan) ==
  CASE op = "migrate_all"  -> plan = PendingAt(p, c)
    [] op = "migrate_one"  -> \E v \in PendingAt(p, c) : Least(v, PendingAt(p, c)) /\ plan = {v}
    [] op = "rollback_all" -> plan = ExecutedAt(p, c)
    [] op = "rollback_one" -> \E v \in ExecutedAt(p, c) : Greatest(v, ExecutedAt(p, c)) /\ plan = {v}

-----------------------------------------------------------------------------
Init ==
  /\ deployment \in Deployments
  /\ applied = {}
  /\ effects = [v \in Versions |-> 0]
  /\ draft = Committed
  /\ lock = Nobody
  /\ call = [p \in Migrators |-> NoCall]

\* migrate_one, migrate_all, rollback_one and rollback_all up to their
\* transaction.  A current version p does not know is an error, and with
\* nothing to run there is no transaction.
Decide(p, op, plan) ==
  /\ Idle(p)
  /\ deployment = "upgrade" => op \in Upwards
  /\ deployment = "operator" => \A q \in Migrators : Idle(q)
  /\ \E c \in {0} \cup Versions : IsCurrent(c) /\ Known(p, c) /\ Plans(p, op, c, plan)
  /\ plan # {}
  /\ call' = [call EXCEPT ![p] = [op |-> op, plan |-> plan]]
  /\ UNCHANGED <<deployment, applied, effects, draft, lock>>

\* Mutant: the row gets the version the next migration is expected to have.
RunMigrationRecordsNext(p, v) ==
  /\ call[p].op \in Upwards
  /\ lock \in {p, Nobody}
  /\ Least(v, call[p].plan)
  /\ v \notin Base(p).applied
  /\ draft' = [applied |-> Base(p).applied \cup {v + 1},
               effects |-> [Base(p).effects EXCEPT ![v] = @ + 1]]
  /\ lock' = p
  /\ call' = [call EXCEPT ![p].plan = @ \ {v}]
  /\ UNCHANGED <<deployment, applied, effects>>

\* Mutant: the row is written whether or not it is there (INSERT OR REPLACE).
RunMigrationAgain(p, v) ==
  /\ call[p].op \in Upwards
  /\ lock \in {p, Nobody}
  /\ Least(v, call[p].plan)
  /\ draft' = [applied |-> Base(p).applied \cup {v},
               effects |-> [Base(p).effects EXCEPT ![v] = @ + 1]]
  /\ lock' = p
  /\ call' = [call EXCEPT ![p].plan = @ \ {v}]
  /\ UNCHANGED <<deployment, applied, effects>>

\* run_migration: the up script, then the row, whose version is the primary
\* key.  The first statement takes the database's write lock.
RunMigration(p, v) ==
  /\ call[p].op \in Upwards
  /\ lock \in {p, Nobody}
  /\ Least(v, call[p].plan)
  /\ v \notin Base(p).applied
  /\ draft' = [applied |-> Base(p).applied \cup {v},
               effects |-> [Base(p).effects EXCEPT ![v] = @ + 1]]
  /\ lock' = p
  /\ call' = [call EXCEPT ![p].plan = @ \ {v}]
  /\ UNCHANGED <<deployment, applied, effects>>

\* rollback_migration: the down script, then the row goes, if it is there.
RollbackMigration(p, v) ==
  /\ call[p].op \in Operations \ Upwards
  /\ lock \in {p, Nobody}
  /\ Greatest(v, call[p].plan)
  /\ Base(p).effects[v] > -ExtraDowns
  /\ draft' = [applied |-> Base(p).applied \ {v},
               effects |-> [Base(p).effects EXCEPT ![v] = @ - 1]]
  /\ lock' = p
  /\ call' = [call EXCEPT ![p].plan = @ \ {v}]
  /\ UNCHANGED <<deployment, applied, effects>>

\* The transaction commits.
Commit(p) ==
  /\ lock = p
  /\ call[p].plan = {}
  /\ applied' = draft.applied
  /\ effects' = draft.effects
  /\ lock' = Nobody
  /\ call' = [call EXCEPT ![p] = NoCall]
  /\ UNCHANGED <<deployment, draft>>

\* Mutant: what the transaction did so far stays.
AbortKeeps(p) ==
  /\ ~Idle(p)
  /\ applied' = Base(p).applied
  /\ effects' = Base(p).effects
  /\ lock' = IF lock = p THEN Nobody ELSE lock
  /\ call' = [call EXCEPT ![p] = NoCall]
  /\ UNCHANGED <<deployment, draft>>

\* A script, the bookkeeping or the commit fails, the lock is not to be had, or
\* the process dies: the transaction, if it is open, rolls back.
Abort(p) ==
  /\ ~Idle(p)
  /\ lock' = IF lock = p THEN Nobody ELSE lock
  /\ call' = [call EXCEPT ![p] = NoCall]
  /\ draft' = IF lock = p THEN Committed ELSE draft
  /\ UNCHANGED <<deployment, applied, effects>>

Next ==
  \E p \in Migrators :
    \/ \E op \in Operations, plan \in SUBSET Registry[p] : Decide(p, op, plan)
    \/ \E v \in Versions : RunMigration(p, v)
    \/ \E v \in Versions : RollbackMigration(p, v)
    \/ Commit(p)
    \/ Abort(p)

Spec == Init /\ [][Next]_vars

-----------------------------------------------------------------------------
(* Properties.                                                             *)

\* However many migrators race, in whatever direction: no up script is ever
\* committed on top of itself, and one that is in effect is recorded.
NeverRunTwice ==
  \A v \in Versions : effects[v] <= 1 /\ (effects[v] = 1 => v \in applied)

\* The usages under which deciding outside of the transaction is harmless.
Orderly == deployment \in {"upgrade", "operator"}

\* The database is at a version: exactly the migrations up to it are recorded
\* and in effect, after any mix of calls, failures and deaths.
AtAVersion ==
  Orderly =>
    /\ \A v \in applied, w \in Versions : w <= v => w \in applied
    /\ \A v \in Versions : effects[v] = IF v \in applied THEN 1 ELSE 0

\* A migrate_all that ran leaves nothing of its registry pending, whoever
\* migrated while it was deciding, and a rollback_all leaves nothing applied.
AllMeansAll ==
  [][\A p \in Migrators :
       Orderly /\ lock = p /\ lock' = Nobody /\ applied' # applied =>
         /\ call[p].op = "migrate_all" => Registry[p] \subseteq applied'
         /\ call[p].op = "rollback_all" => applied' = {}]_vars
=============================================================================
