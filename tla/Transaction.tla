----------------------------- MODULE Transaction -----------------------------
(***************************************************************************)
(* `Connection::transaction` of the SQLite adapter (database/adapters/     *)
(* sqlite/connection.rs) over pooled connections: the nesting counter the  *)
(* adapter keeps, the SQL it issues at each level, and what SQLite does    *)
(* with that SQL when statements, COMMIT or a savepoint command fail.      *)
(*                                                                         *)
(* Two stacks must agree for the promise of AtomicTransactions to hold:    *)
(* the Rust stack of running closures (frames) and SQLite's stack of open  *)
(* transaction and savepoints (levels).  The only link between them is the *)
(* integer `depth`, which the code moves only when the SQL succeeded.      *)
(*                                                                         *)
(* The engine (levels, snapshot, writer, committed) is SQLite in WAL mode, *)
(* as the pool's preamble sets it up: one writer at a time, a read         *)
(* snapshot per transaction, no write from a stale snapshot.               *)
(***************************************************************************)
EXTENDS Naturals, Sequences

CONSTANTS Connections,  \* the connections of the r2d2 pool
          Writes,       \* identities of the row changes closures make
          Nobody,       \* no connection holds the write lock
          MaxDepth,     \* bound on the nesting counter
          Recovering,   \* connections whose application code may catch the
                        \* Err of a transaction and go on, on the connection.
                        \* The crate's own handlers and store never do.
          Fragile       \* connections on which SQLite may refuse a COMMIT, or
                        \* give up a whole transaction of its own accord

ASSUME NobodyAssumption == Nobody \notin Connections
ASSUME MaxDepthAssumption == MaxDepth \in Nat
ASSUME PoliciesAssumption ==
  Recovering \subseteq Connections /\ Fragile \subseteq Connections

VARIABLES
  mode,       \* what the request that holds the connection is doing
  depth,      \* Connection.depth
  frames,     \* running `transaction` closures, with the writes each made
  result,     \* what the last outermost `transaction` call returned
  levels,     \* SQLite: open transaction and savepoints, oldest first
  snapshot,   \* SQLite: whether the transaction reads an outdated database
  writer,     \* SQLite: the connection holding the write lock
  committed   \* SQLite: the writes in the database file

rust == <<mode, depth, frames, result>>
engine == <<levels, snapshot, writer, committed>>
vars == <<mode, depth, frames, result, levels, snapshot, writer, committed>>

Atomic == INSTANCE AtomicTransactions WITH durable <- committed

Level == [name : Nat, writes : SUBSET Writes]

TypeOK ==
  /\ mode \in [Connections -> {"idle", "running", "failing", "unwinding"}]
  /\ depth \in [Connections -> Nat]
  /\ frames \in [Connections -> Seq(SUBSET Writes)]
  /\ result \in [Connections -> Atomic!Results]
  /\ levels \in [Connections -> Seq(Level)]
  /\ snapshot \in [Connections -> {"none", "fresh", "stale"}]
  /\ writer \in Connections \cup {Nobody}
  /\ committed \in SUBSET Writes

-----------------------------------------------------------------------------
(* The engine's stack.  Level 0 is the transaction BEGIN opened, level n   *)
(* the savepoint `spn`.                                                    *)

\* The engine finds what `COMMIT`/`ROLLBACK` (n = 0) or `spn` refers to.
Finds(c, n) ==
  IF n = 0 THEN levels[c] # <<>>
           ELSE \E i \in DOMAIN levels[c] : levels[c][i].name = n

\* Where it is.  COMMIT and ROLLBACK end everything that is open.
Position(c, n) ==
  IF n = 0 THEN 1
           ELSE CHOOSE i \in DOMAIN levels[c] : levels[c][i].name = n

WritesFrom(c, i) == UNION {levels[c][j].writes : j \in i..Len(levels[c])}
Pending(c) == WritesFrom(c, 1)

\* The stack left by rolling back to level i and releasing it.
Below(c, i) == [j \in 1..i - 1 |-> levels[c][j]]

\* The stack left by releasing level i: its writes pass to the level below.
Released(c, i) ==
  [j \in 1..i - 1 |->
     [name |-> levels[c][j].name,
      writes |-> levels[c][j].writes \cup (IF j = i - 1 THEN WritesFrom(c, i) ELSE {})]]

\* The write lock after c's transaction has ended.
Unlocked(c) == IF writer = c THEN Nobody ELSE writer

\* The snapshots after c's transaction has ended: with ws in the database,
\* every other transaction already reading is outdated.
Published(c, ws) ==
  [x \in Connections |->
     CASE x = c -> "none"
       [] x # c /\ ws # {} /\ snapshot[x] = "fresh" -> "stale"
       [] OTHER -> snapshot[x]]

\* c's transaction ends with ws in the database.
EngineEnds(c, ws) ==
  /\ levels' = [levels EXCEPT ![c] = <<>>]
  /\ snapshot' = Published(c, ws)
  /\ writer' = Unlocked(c)
  /\ committed' = committed \cup ws

\* The level the code is about to close: `depth - 1`.
Closing(c) == depth[c] - 1

-----------------------------------------------------------------------------
Init ==
  /\ mode = [c \in Connections |-> "idle"]
  /\ depth = [c \in Connections |-> 0]
  /\ frames = [c \in Connections |-> <<>>]
  /\ result = [c \in Connections |-> Atomic!NoResult]
  /\ levels = [c \in Connections |-> <<>>]
  /\ snapshot = [c \in Connections |-> "none"]
  /\ writer = Nobody
  /\ committed = {}

\* Pool::acquire wraps an idle handle in a Connection with depth 0.
Acquire(c) ==
  /\ mode[c] = "idle"
  /\ mode' = [mode EXCEPT ![c] = "running"]
  /\ depth' = [depth EXCEPT ![c] = 0]
  /\ UNCHANGED <<frames, result, engine>>

\* begin_transaction: BEGIN at depth 0, SAVEPOINT sp{depth} below, and the
\* counter moves once the SQL succeeded.  BEGIN inside an open transaction is
\* an error, and then the closure never runs.
Begin(c) ==
  /\ mode[c] = "running"
  /\ depth[c] < MaxDepth
  /\ IF depth[c] = 0 /\ levels[c] # <<>>
     THEN /\ mode' = [mode EXCEPT ![c] = "failing"]
          /\ UNCHANGED <<depth, frames, result, engine>>
     ELSE /\ levels' = [levels EXCEPT ![c] =
                          Append(@, [name |-> depth[c], writes |-> {}])]
          /\ depth' = [depth EXCEPT ![c] = @ + 1]
          /\ frames' = [frames EXCEPT ![c] = Append(@, {})]
          /\ result' = [result EXCEPT ![c] =
                          IF frames[c] = <<>> THEN Atomic!NoResult ELSE @]
          /\ UNCHANGED <<mode, snapshot, writer, committed>>

\* The first read of a deferred transaction takes its snapshot.
Read(c) ==
  /\ mode[c] = "running"
  /\ frames[c] # <<>>
  /\ levels[c] # <<>>
  /\ snapshot[c] = "none"
  /\ snapshot' = [snapshot EXCEPT ![c] = "fresh"]
  /\ UNCHANGED <<rust, levels, writer, committed>>

\* A write id stands for one execution of one statement: it is used again only
\* when nothing that happened to it can still be observed.
Unused(w) ==
  /\ w \notin committed
  /\ \A c \in Connections :
       /\ \A i \in DOMAIN frames[c] : w \notin frames[c][i]
       /\ w \notin Pending(c)
       /\ w \notin result[c].writes

\* A write statement succeeds: it needs the write lock and, inside a
\* transaction, a snapshot nobody has committed past (else the engine answers
\* SQLITE_BUSY, which is StatementFails).  With no transaction open it commits
\* by itself.
Write(c, w) ==
  /\ mode[c] = "running"
  /\ frames[c] # <<>>
  /\ Unused(w)
  /\ writer \in {c, Nobody}
  /\ snapshot[c] # "stale"
  /\ frames' = [frames EXCEPT ![c][Len(frames[c])] = @ \cup {w}]
  /\ IF levels[c] = <<>>
     THEN EngineEnds(c, {w})
     ELSE /\ levels' = [levels EXCEPT ![c][Len(levels[c])].writes = @ \cup {w}]
          /\ writer' = c
          /\ snapshot' = [snapshot EXCEPT ![c] = IF @ = "none" THEN "fresh" ELSE @]
          /\ UNCHANGED committed
  /\ UNCHANGED <<mode, depth, result>>

\* A statement fails and the engine undoes that statement alone (a constraint,
\* SQLITE_BUSY, a bad row), or the closure itself decides to return Err.
StatementFails(c) ==
  /\ mode[c] = "running"
  /\ frames[c] # <<>>
  /\ mode' = [mode EXCEPT ![c] = "failing"]
  /\ UNCHANGED <<depth, frames, result, engine>>

\* A statement fails and the engine rolls the whole transaction back: disk
\* full, I/O error, interrupt, ON CONFLICT ROLLBACK, RAISE(ROLLBACK).
EngineAborts(c) ==
  /\ c \in Fragile
  /\ mode[c] = "running"
  /\ frames[c] # <<>>
  /\ levels[c] # <<>>
  /\ mode' = [mode EXCEPT ![c] = "failing"]
  /\ EngineEnds(c, {})
  /\ UNCHANGED <<depth, frames, result>>

\* The Rust side of a closure that returned Ok and whose level was closed.
ReturnOk(c) ==
  /\ depth' = [depth EXCEPT ![c] = @ - 1]
  /\ frames' = [frames EXCEPT ![c] = Atomic!Merge(@)]
  /\ result' = [result EXCEPT ![c] =
                  IF Len(frames[c]) = 1
                  THEN Atomic!Ok(Atomic!Top(frames[c])) ELSE @]
  /\ UNCHANGED mode

\* Mutant: every level commits for good (COMMIT at any depth).
CommitNestedPersists(c) ==
  /\ mode[c] = "running"
  /\ frames[c] # <<>>
  /\ Finds(c, Closing(c))
  /\ Position(c, Closing(c)) > 1
  /\ EngineEnds(c, Pending(c))
  /\ ReturnOk(c)

\* commit_transaction, when the level it names is nested in another one:
\* RELEASE hands that level's writes to the one below.
CommitNested(c) ==
  /\ mode[c] = "running"
  /\ frames[c] # <<>>
  /\ Finds(c, Closing(c))
  /\ LET i == Position(c, Closing(c)) IN
     /\ i > 1
     /\ levels' = [levels EXCEPT ![c] = Released(c, i)]
  /\ ReturnOk(c)
  /\ UNCHANGED <<snapshot, writer, committed>>

\* commit_transaction, when the level it names is the engine's outermost:
\* COMMIT, or RELEASE of a savepoint opened outside any transaction.
CommitOutermost(c) ==
  /\ mode[c] = "running"
  /\ frames[c] # <<>>
  /\ Finds(c, Closing(c))
  /\ Position(c, Closing(c)) = 1
  /\ EngineEnds(c, Pending(c))
  /\ ReturnOk(c)

\* The Rust side of a `transaction` call that returns Err: its closure's work
\* is off the stack, and the caller is failing.
ReturnErr(c) ==
  /\ mode' = [mode EXCEPT ![c] = "failing"]
  /\ frames' = [frames EXCEPT ![c] = Atomic!Pop(@)]
  /\ result' = [result EXCEPT ![c] =
                  IF Len(frames[c]) = 1
                  THEN Atomic!Err(Atomic!Top(frames[c])) ELSE @]

\* Mutant: commit_transaction moves the counter before it runs the SQL.
CommitRefusedCounted(c) ==
  /\ mode[c] = "running"
  /\ frames[c] # <<>>
  /\ Finds(c, Closing(c)) =>
       c \in Fragile /\ Position(c, Closing(c)) = 1 /\ writer = c
  /\ ReturnErr(c)
  /\ depth' = [depth EXCEPT ![c] = @ - 1]
  /\ UNCHANGED engine

\* commit_transaction fails and leaves the engine as it is: the level does not
\* exist, or a COMMIT is refused (SQLITE_BUSY, a violated deferred foreign
\* key) with the transaction left open.  `?` returns before depth moves.
CommitRefused(c) ==
  /\ mode[c] = "running"
  /\ frames[c] # <<>>
  /\ Finds(c, Closing(c)) =>
       c \in Fragile /\ Position(c, Closing(c)) = 1 /\ writer = c
  /\ ReturnErr(c)
  /\ UNCHANGED <<depth, engine>>

\* COMMIT fails with an error that makes the engine roll back.
CommitAborts(c) ==
  /\ c \in Fragile
  /\ mode[c] = "running"
  /\ frames[c] # <<>>
  /\ Finds(c, Closing(c))
  /\ Position(c, Closing(c)) = 1
  /\ writer = c
  /\ EngineEnds(c, {})
  /\ ReturnErr(c)
  /\ UNCHANGED depth

\* Mutant: the Err arm releases the savepoint it should roll back to.
RollbackReleases(c) ==
  /\ mode[c] = "failing"
  /\ frames[c] # <<>>
  /\ Finds(c, Closing(c))
  /\ LET i == Position(c, Closing(c)) IN
     IF i = 1
     THEN EngineEnds(c, {})
     ELSE /\ levels' = [levels EXCEPT ![c] = Released(c, i)]
          /\ UNCHANGED <<snapshot, writer, committed>>
  /\ depth' = [depth EXCEPT ![c] = @ - 1]
  /\ ReturnErr(c)

\* The Err arm: rollback_transaction.  When the engine has no such level the
\* SQL fails, `?` returns that error instead, and depth does not move.
Rollback(c) ==
  /\ mode[c] = "failing"
  /\ frames[c] # <<>>
  /\ IF Finds(c, Closing(c))
     THEN LET i == Position(c, Closing(c)) IN
          /\ IF i = 1
             THEN EngineEnds(c, {})
             ELSE /\ levels' = [levels EXCEPT ![c] = Below(c, i)]
                  /\ UNCHANGED <<snapshot, writer, committed>>
          /\ depth' = [depth EXCEPT ![c] = @ - 1]
     ELSE UNCHANGED <<depth, engine>>
  /\ ReturnErr(c)

\* Application code catches the Err and goes on, inside the closure around
\* the failed one or after the outermost one.
Recover(c) ==
  /\ c \in Recovering
  /\ mode[c] = "failing"
  /\ mode' = [mode EXCEPT ![c] = "running"]
  /\ UNCHANGED <<depth, frames, result, engine>>

\* A closure panics: neither arm of `transaction` runs at any level.
Panic(c) ==
  /\ mode[c] = "running"
  /\ frames[c] # <<>>
  /\ mode' = [mode EXCEPT ![c] = "unwinding"]
  /\ frames' = [frames EXCEPT ![c] = <<>>]
  /\ UNCHANGED <<depth, result, engine>>

\* Mutant: the handle rejoins the pool as it is, with no Drop.
ReleaseAsIs(c) ==
  /\ mode[c] # "idle"
  /\ frames[c] = <<>>
  /\ mode' = [mode EXCEPT ![c] = "idle"]
  /\ UNCHANGED <<depth, frames, result, engine>>

\* Mutant: Drop calls rollback_transaction whatever the depth.
ReleaseUnchecked(c) ==
  /\ mode[c] # "idle"
  /\ frames[c] = <<>>
  /\ mode' = [mode EXCEPT ![c] = "idle"]
  /\ depth' = [depth EXCEPT ![c] = @ - 1]
  /\ EngineEnds(c, {})
  /\ UNCHANGED <<frames, result>>

\* The request is over: Drop rolls back when depth > 0 (a ROLLBACK with nothing
\* open is only logged) and the handle rejoins the pool.
Release(c) ==
  /\ mode[c] # "idle"
  /\ frames[c] = <<>>
  /\ mode' = [mode EXCEPT ![c] = "idle"]
  /\ IF depth[c] > 0 THEN EngineEnds(c, {}) ELSE UNCHANGED engine
  /\ UNCHANGED <<depth, frames, result>>

Next ==
  \E c \in Connections :
    \/ Acquire(c)
    \/ Begin(c)
    \/ Read(c)
    \/ \E w \in Writes : Write(c, w)
    \/ StatementFails(c)
    \/ EngineAborts(c)
    \/ CommitNested(c)
    \/ CommitOutermost(c)
    \/ CommitRefused(c)
    \/ CommitAborts(c)
    \/ Rollback(c)
    \/ Recover(c)
    \/ Panic(c)
    \/ Release(c)

Spec == Init /\ [][Next]_vars

-----------------------------------------------------------------------------
(* Properties.                                                             *)

\* A pooled handle carries nothing over to the request that acquires it next:
\* no open transaction, no read snapshot, no write lock, however the last
\* request ended (Connection::drop).
IdleIsClean ==
  \A c \in Connections :
    mode[c] = "idle" => levels[c] = <<>> /\ snapshot[c] = "none" /\ writer # c

\* The counter stays above both stacks: `depth - 1` never underflows while a
\* closure runs, and what commit and rollback name is the engine's innermost
\* level or no level at all, never one further out.
DepthCoversStacks ==
  \A c \in Connections :
    /\ Len(frames[c]) <= depth[c]
    /\ \A i \in DOMAIN levels[c] : levels[c][i].name < depth[c]
    /\ \A i, j \in DOMAIN levels[c] :
         i < j => levels[c][i].name < levels[c][j].name

\* What SQLite's lock gives, and the inductive invariant needs: whoever has
\* unpublished writes holds it, in an open transaction that is up to date.
OneCurrentWriter ==
  \A c \in Connections :
    /\ Pending(c) # {} => writer = c
    /\ writer = c => levels[c] # <<>> /\ snapshot[c] = "fresh"

\* The inductive strengthening of the properties above: closures run only
\* while a request does, and only an open transaction has a snapshot.
StackInv ==
  /\ TypeOK
  /\ IdleIsClean
  /\ DepthCoversStacks
  /\ OneCurrentWriter
  /\ \A c \in Connections :
       /\ mode[c] \in {"idle", "unwinding"} => frames[c] = <<>>
       /\ snapshot[c] # "none" => levels[c] # <<>>

\* "committing on `Ok`" (database/connection.rs): once the outermost
\* transaction has returned Ok, what its closures did is in the database.
OkIsDurable ==
  \A c \in Connections :
    result[c].outcome = "ok" => result[c].writes \subseteq committed

\* "rolls it back on `Err` ... composing store calls stays atomic"
\* (sqlite/connection.rs): once the outermost transaction has returned Err,
\* nothing its closure did is in the database.
ErrLeavesNothing ==
  \A c \in Connections :
    result[c].outcome = "err" => result[c].writes \cap committed = {}

\* Both halves of the contract.
AtomicOutcome == OkIsDurable /\ ErrLeavesNothing

\* The SQL the adapter issues implements the abstract transactions: at every
\* nesting depth the engine keeps what the closures that returned Ok did and
\* forgets the rest, and durable state moves one outermost transaction at a
\* time.
ImplementsAtomicTransactions == Atomic!Spec
=============================================================================
