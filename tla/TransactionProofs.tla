-------------------------- MODULE TransactionProofs --------------------------
EXTENDS Transaction, SequenceTheorems, TLAPS

(* The operators on stacks.                                                *)

\* Popping a stack drops its last element and nothing else.
LEMMA PopProperties ==
  ASSUME NEW S, NEW stack \in Seq(S), stack # <<>>
  PROVE  /\ Atomic!Pop(stack) \in Seq(S)
         /\ Len(Atomic!Pop(stack)) = Len(stack) - 1
         /\ \A i \in 1..Len(stack) - 1 : Atomic!Pop(stack)[i] = stack[i]
<1>1. Len(stack) \in Nat /\ Len(stack) - 1 \in Nat
  BY EmptySeq, LenProperties
<1>2. Atomic!Pop(stack) \in [1..Len(stack) - 1 -> S]
  BY <1>1, LenProperties DEF Atomic!Pop
<1>3. Atomic!Pop(stack) \in Seq(S)
  BY <1>1, <1>2, SeqDef
<1>4. Len(Atomic!Pop(stack)) = Len(stack) - 1
  BY <1>1, <1>2, <1>3, LenProperties
<1>. QED
  BY <1>3, <1>4 DEF Atomic!Pop

\* Merging keeps every element but the last, whose content joins the one below.
LEMMA MergeProperties ==
  ASSUME NEW S, NEW stack \in Seq(SUBSET S), stack # <<>>
  PROVE  /\ Atomic!Merge(stack) \in Seq(SUBSET S)
         /\ Len(Atomic!Merge(stack)) = Len(stack) - 1
         /\ \A i \in 1..Len(stack) - 1 :
              Atomic!Merge(stack)[i] =
                IF i = Len(stack) - 1 THEN stack[i] \cup stack[Len(stack)]
                                      ELSE stack[i]
<1>1. Len(stack) - 1 \in Nat /\ Len(stack) \in Nat
  BY EmptySeq, LenProperties
<1>2. Atomic!Merge(stack) \in [1..Len(stack) - 1 -> SUBSET S]
  BY <1>1, LenProperties DEF Atomic!Merge, Atomic!Top
<1>3. Atomic!Merge(stack) \in Seq(SUBSET S)
  BY <1>1, <1>2, SeqDef
<1>4. Len(Atomic!Merge(stack)) = Len(stack) - 1
  BY <1>1, <1>2, <1>3, LenProperties
<1>. QED
  BY <1>1, <1>3, <1>4 DEF Atomic!Merge, Atomic!Top

\* Rolling back to a level keeps the levels under it as they are.
LEMMA BelowProperties ==
  ASSUME NEW c \in Connections, levels[c] \in Seq(Level),
         NEW i \in 1..Len(levels[c])
  PROVE  /\ Below(c, i) \in Seq(Level)
         /\ Len(Below(c, i)) = i - 1
         /\ \A j \in 1..i - 1 : Below(c, i)[j] = levels[c][j]
<1>1. Len(levels[c]) \in Nat /\ i - 1 \in Nat
  BY LenProperties
<1>2. Below(c, i) \in [1..i - 1 -> Level]
  BY <1>1, LenProperties DEF Below
<1>3. Below(c, i) \in Seq(Level)
  BY <1>1, <1>2, SeqDef
<1>4. Len(Below(c, i)) = i - 1
  BY <1>1, <1>2, <1>3, LenProperties
<1>. QED
  BY <1>3, <1>4 DEF Below

\* Releasing a level keeps the names under it, and no write of the stack is lost.
LEMMA ReleasedProperties ==
  ASSUME NEW c \in Connections, levels[c] \in Seq(Level),
         NEW i \in 2..Len(levels[c])
  PROVE  /\ Released(c, i) \in Seq(Level)
         /\ Len(Released(c, i)) = i - 1
         /\ \A j \in 1..i - 1 :
              Released(c, i)[j] =
                [name |-> levels[c][j].name,
                 writes |-> levels[c][j].writes \cup
                              (IF j = i - 1 THEN WritesFrom(c, i) ELSE {})]
         /\ WritesFrom(c, i) \subseteq Writes
<1>1. Len(levels[c]) \in Nat /\ levels[c] \in [1..Len(levels[c]) -> Level]
  BY LenProperties
<1>2. WritesFrom(c, i) \subseteq Writes
  BY <1>1 DEF WritesFrom, Level
<1>3. Released(c, i) \in [1..i - 1 -> Level]
  <2>. SUFFICES ASSUME NEW j \in 1..i - 1
                PROVE  [name |-> levels[c][j].name,
                        writes |-> levels[c][j].writes \cup
                                     (IF j = i - 1 THEN WritesFrom(c, i) ELSE {})] \in Level
    BY DEF Released
  <2>1. levels[c][j] \in Level
    BY <1>1
  <2>2. levels[c][j].name \in Nat /\ levels[c][j].writes \subseteq Writes
    BY <2>1 DEF Level
  <2>. QED
    BY <1>2, <2>2 DEF Level
<1>4. Released(c, i) \in Seq(Level)
  BY <1>1, <1>3, SeqDef
<1>. QED
  BY <1>1, <1>2, <1>3, <1>4, LenProperties DEF Released

-----------------------------------------------------------------------------
(* Type correctness.                                                       *)

\* What every case below needs to know of the sequences of a typed state.
LEMMA TypedStacks ==
  ASSUME TypeOK, NEW c \in Connections
  PROVE  /\ frames[c] \in Seq(SUBSET Writes)
         /\ levels[c] \in Seq(Level)
         /\ Len(frames[c]) \in Nat
         /\ Len(levels[c]) \in Nat
         /\ DOMAIN levels[c] = 1..Len(levels[c])
         /\ DOMAIN frames[c] = 1..Len(frames[c])
         /\ frames[c] # <<>> => Len(frames[c]) \in 1..Len(frames[c])
         /\ levels[c] # <<>> => Len(levels[c]) \in 1..Len(levels[c])
         /\ frames[c] = <<>> <=> Len(frames[c]) = 0
         /\ levels[c] = <<>> <=> Len(levels[c]) = 0
         /\ \A i \in 1..Len(levels[c]) : levels[c][i] \in Level
         /\ \A i \in 1..Len(frames[c]) : frames[c][i] \in SUBSET Writes
<1>1. frames[c] \in Seq(SUBSET Writes) /\ levels[c] \in Seq(Level)
  BY DEF TypeOK
<1>. QED
  BY <1>1, LenProperties, EmptySeq, ElementOfSeq

\* Whatever the engine ends, its state keeps its type.
LEMMA EngineEndsTyped ==
  ASSUME TypeOK, NEW c \in Connections, NEW ws \in SUBSET Writes,
         EngineEnds(c, ws)
  PROVE  /\ levels' \in [Connections -> Seq(Level)]
         /\ snapshot' \in [Connections -> {"none", "fresh", "stale"}]
         /\ writer' \in Connections \cup {Nobody}
         /\ committed' \in SUBSET Writes
<1>1. levels' \in [Connections -> Seq(Level)]
  BY EmptySeq DEF TypeOK, EngineEnds
<1>2. snapshot' \in [Connections -> {"none", "fresh", "stale"}]
  BY DEF TypeOK, EngineEnds, Published
<1>3. writer' \in Connections \cup {Nobody} /\ committed' \in SUBSET Writes
  BY DEF TypeOK, EngineEnds, Unlocked
<1>. QED
  BY <1>1, <1>2, <1>3

\* The writes a connection has not published are writes.
LEMMA PendingTyped ==
  ASSUME TypeOK, NEW c \in Connections
  PROVE  Pending(c) \in SUBSET Writes
BY TypedStacks DEF Pending, WritesFrom, Level

\* An engine level the code names is on the engine's stack.
LEMMA PositionInStack ==
  ASSUME TypeOK, NEW c \in Connections, NEW n \in Int, Finds(c, n)
  PROVE  Position(c, n) \in 1..Len(levels[c])
BY TypedStacks DEF Finds, Position

-----------------------------------------------------------------------------
(* StackInv is inductive.                                                  *)

\* Unfolding of StackInv at one connection.
LEMMA StackInvAt ==
  ASSUME StackInv, NEW c \in Connections
  PROVE  /\ mode[c] \in {"idle", "unwinding"} => frames[c] = <<>>
         /\ mode[c] = "idle" => levels[c] = <<>> /\ snapshot[c] = "none" /\ writer # c
         /\ snapshot[c] # "none" => levels[c] # <<>>
         /\ Pending(c) # {} => writer = c
         /\ writer = c => levels[c] # <<>> /\ snapshot[c] = "fresh"
         /\ depth[c] \in Nat
         /\ Len(frames[c]) <= depth[c]
         /\ \A i \in 1..Len(levels[c]) : levels[c][i].name < depth[c]
         /\ \A i, j \in 1..Len(levels[c]) : i < j => levels[c][i].name < levels[c][j].name
         /\ depth[c] = 0 => levels[c] = <<>>
<1>1. TypeOK
  BY DEF StackInv
<1>2. DOMAIN levels[c] = 1..Len(levels[c]) /\ depth[c] \in Nat
  BY <1>1, TypedStacks DEF TypeOK
<1>3. \A i \in 1..Len(levels[c]) : levels[c][i].name < depth[c]
  BY <1>2 DEF StackInv, DepthCoversStacks
<1>4. depth[c] = 0 => levels[c] = <<>>
  <2>. SUFFICES ASSUME depth[c] = 0, levels[c] # <<>> PROVE FALSE
    OBVIOUS
  <2>1. 1 \in 1..Len(levels[c]) /\ levels[c][1].name \in Nat
    BY <1>1, TypedStacks DEF Level
  <2>. QED
    BY <2>1, <1>3
<1>. QED
  BY <1>2, <1>3, <1>4 DEF StackInv, IdleIsClean, DepthCoversStacks, OneCurrentWriter

\* The level the code closes is the engine's innermost: everything under it
\* has a smaller name.
LEMMA ClosingIsInnermost ==
  ASSUME StackInv, NEW c \in Connections, Len(frames[c]) > 0, Finds(c, Closing(c))
  PROVE  /\ Closing(c) \in Nat
         /\ Position(c, Closing(c)) \in 1..Len(levels[c])
         /\ \A j \in 1..Position(c, Closing(c)) - 1 : levels[c][j].name < Closing(c)
         /\ Closing(c) = 0 => Position(c, Closing(c)) = 1
<1>1. Closing(c) \in Nat
  BY StackInvAt, TypedStacks DEF Closing, StackInv
<1>2. Position(c, Closing(c)) \in 1..Len(levels[c])
  BY <1>1, PositionInStack DEF StackInv
<1>3. Closing(c) = 0 => Position(c, Closing(c)) = 1
  BY DEF Position
<1>4. Closing(c) # 0 => levels[c][Position(c, Closing(c))].name = Closing(c)
  BY DEF Position, Finds
<1>. QED
  BY <1>1, <1>2, <1>3, <1>4, StackInvAt

\* Ending a transaction keeps the writer lock and the snapshots consistent.
LEMMA EngineEndsKeeps ==
  ASSUME StackInv, NEW c \in Connections, NEW ws, EngineEnds(c, ws),
         ws # {} => writer \in {c, Nobody}
  PROVE  /\ levels'[c] = <<>> /\ snapshot'[c] = "none" /\ writer' # c
         /\ \A x \in Connections \ {c} :
              /\ levels'[x] = levels[x]
              /\ snapshot[x] = "none" => snapshot'[x] = "none"
              /\ writer' = x <=> writer = x
         /\ OneCurrentWriter'
         /\ \A x \in Connections : snapshot'[x] # "none" => levels'[x] # <<>>
<1>1. /\ levels'[c] = <<>> /\ snapshot'[c] = "none" /\ writer' # c
      /\ \A x \in Connections \ {c} :
           /\ levels'[x] = levels[x]
           /\ snapshot[x] = "none" => snapshot'[x] = "none"
           /\ writer' = x <=> writer = x
  BY NobodyAssumption DEF StackInv, TypeOK, EngineEnds, Published, Unlocked
<1>2. \A x \in Connections : snapshot'[x] # "none" => levels'[x] # <<>>
  BY <1>1 DEF StackInv
<1>3. ASSUME NEW x \in Connections
      PROVE  /\ Pending(x)' # {} => writer' = x
             /\ writer' = x => levels'[x] # <<>> /\ snapshot'[x] = "fresh"
  <2>1. CASE x = c
    <3>1. Pending(c)' = {}
      <4>1. Len(levels'[c]) = 0
        BY <1>1, EmptySeq
      <4>. QED
        BY <4>1 DEF Pending, WritesFrom
    <3>. QED
      BY <2>1, <3>1, <1>1
  <2>2. CASE x # c
    <3>1. Pending(x)' = Pending(x)
      BY <2>2, <1>1 DEF Pending, WritesFrom
    <3>2. writer = x => ws = {}
      BY <2>2, NobodyAssumption
    <3>3. writer = x => snapshot'[x] = snapshot[x]
      BY <3>2, <2>2 DEF EngineEnds, Published
    <3>. QED
      BY <3>1, <3>3, <2>2, <1>1, StackInvAt
  <2>. QED
    BY <2>1, <2>2
<1>4. OneCurrentWriter'
  BY <1>3 DEF OneCurrentWriter
<1>. QED
  BY <1>1, <1>2, <1>4

\* An action of c that leaves the engine alone disturbs no other connection.
LEMMA RustOnlyKeeps ==
  ASSUME StackInv, NEW c \in Connections, UNCHANGED engine, TypeOK',
         \A x \in Connections \ {c} :
           mode'[x] = mode[x] /\ depth'[x] = depth[x] /\ frames'[x] = frames[x],
         mode'[c] \in {"idle", "unwinding"} => frames'[c] = <<>>,
         mode'[c] = "idle" => levels[c] = <<>> /\ snapshot[c] = "none" /\ writer # c,
         Len(frames'[c]) <= depth'[c],
         \A i \in DOMAIN levels[c] : levels[c][i].name < depth'[c]
  PROVE  StackInv'
<1>1. OneCurrentWriter'
  BY DEF StackInv, OneCurrentWriter, Pending, WritesFrom, engine
<1>2. DepthCoversStacks'
  BY DEF StackInv, DepthCoversStacks, engine
<1>3. IdleIsClean'
  BY DEF StackInv, IdleIsClean, engine
<1>. QED
  BY <1>1, <1>2, <1>3 DEF StackInv, engine

\* Acquire, Read, StatementFails, Recover and Panic: no stack grows.
LEMMA AcquireKeeps ==
  ASSUME StackInv, NEW c \in Connections, Acquire(c) PROVE StackInv'
<1>1. TypeOK'
  BY DEF StackInv, TypeOK, Acquire, engine
<1>2. frames[c] = <<>> /\ levels[c] = <<>>
  BY StackInvAt DEF Acquire
<1>3. Len(frames'[c]) <= depth'[c] /\ DOMAIN levels[c] = {}
  BY <1>2, TypedStacks DEF StackInv, TypeOK, Acquire
<1>. QED
  BY <1>1, <1>3, RustOnlyKeeps DEF StackInv, TypeOK, Acquire

LEMMA ReadKeeps ==
  ASSUME StackInv, NEW c \in Connections, Read(c) PROVE StackInv'
<1>1. TypeOK'
  BY DEF StackInv, TypeOK, Read, rust
<1>2. OneCurrentWriter'
  BY DEF StackInv, TypeOK, OneCurrentWriter, Pending, WritesFrom, Read
<1>. QED
  BY <1>1, <1>2
     DEF StackInv, TypeOK, IdleIsClean, DepthCoversStacks, Read, rust

LEMMA StatementFailsKeeps ==
  ASSUME StackInv, NEW c \in Connections, StatementFails(c) PROVE StackInv'
<1>1. TypeOK'
  BY DEF StackInv, TypeOK, StatementFails, engine
<1>2. /\ mode'[c] = "failing" /\ UNCHANGED engine /\ depth' = depth /\ frames' = frames
      /\ \A x \in Connections \ {c} : mode'[x] = mode[x]
  BY DEF StackInv, TypeOK, StatementFails
<1>3. /\ Len(frames'[c]) <= depth'[c]
      /\ \A i \in DOMAIN levels[c] : levels[c][i].name < depth'[c]
  BY <1>2 DEF StackInv, DepthCoversStacks
<1>. QED
  BY <1>1, <1>2, <1>3, RustOnlyKeeps

LEMMA RecoverKeeps ==
  ASSUME StackInv, NEW c \in Connections, Recover(c) PROVE StackInv'
<1>1. TypeOK'
  BY DEF StackInv, TypeOK, Recover, engine
<1>2. /\ mode'[c] = "running" /\ UNCHANGED engine /\ depth' = depth /\ frames' = frames
      /\ \A x \in Connections \ {c} : mode'[x] = mode[x]
  BY DEF StackInv, TypeOK, Recover
<1>3. /\ Len(frames'[c]) <= depth'[c]
      /\ \A i \in DOMAIN levels[c] : levels[c][i].name < depth'[c]
  BY <1>2 DEF StackInv, DepthCoversStacks
<1>. QED
  BY <1>1, <1>2, <1>3, RustOnlyKeeps

LEMMA PanicKeeps ==
  ASSUME StackInv, NEW c \in Connections, Panic(c) PROVE StackInv'
<1>1. TypeOK'
  BY EmptySeq DEF StackInv, TypeOK, Panic, engine
<1>2. Len(frames'[c]) <= depth'[c]
  BY EmptySeq, StackInvAt DEF StackInv, TypeOK, Panic
<1>. QED
  BY <1>1, <1>2, RustOnlyKeeps DEF StackInv, TypeOK, DepthCoversStacks, Panic

\* Begin pushes both stacks, under a name above all others.
LEMMA BeginKeeps ==
  ASSUME StackInv, NEW c \in Connections, Begin(c) PROVE StackInv'
<1>1. ~(depth[c] = 0 /\ levels[c] # <<>>)
  BY StackInvAt
<1>. DEFINE level == [name |-> depth[c], writes |-> {}]
<1>2. /\ levels' = [levels EXCEPT ![c] = Append(@, level)]
      /\ depth' = [depth EXCEPT ![c] = @ + 1]
      /\ frames' = [frames EXCEPT ![c] = Append(@, {})]
      /\ result' = [result EXCEPT ![c] =
                      IF frames[c] = <<>> THEN Atomic!NoResult ELSE @]
      /\ UNCHANGED <<mode, snapshot, writer, committed>>
      /\ mode[c] = "running"
  BY <1>1 DEF Begin
<1>3. level \in Level /\ depth[c] \in Nat
  BY DEF Level, StackInv, TypeOK
<1>. HIDE DEF level
<1>4. /\ Append(levels[c], level) \in Seq(Level)
      /\ Len(Append(levels[c], level)) = Len(levels[c]) + 1
      /\ \A i \in 1..Len(levels[c]) + 1 :
           Append(levels[c], level)[i] =
             IF i = Len(levels[c]) + 1 THEN level ELSE levels[c][i]
      /\ Append(frames[c], {}) \in Seq(SUBSET Writes)
      /\ Len(Append(frames[c], {})) = Len(frames[c]) + 1
  BY <1>3, TypedStacks DEF StackInv
<1>5. TypeOK'
  BY <1>2, <1>3, <1>4 DEF StackInv, TypeOK, Atomic!NoResult, Atomic!Results
<1>6. /\ levels'[c] = Append(levels[c], level)
      /\ frames'[c] = Append(frames[c], {})
      /\ depth'[c] = depth[c] + 1
      /\ \A x \in Connections \ {c} :
           levels'[x] = levels[x] /\ frames'[x] = frames[x] /\ depth'[x] = depth[x]
  BY <1>2 DEF StackInv, TypeOK
<1>7. DepthCoversStacks'
  <2>1. DOMAIN levels'[c] = 1..Len(levels[c]) + 1
    BY <1>4, <1>5, <1>6, LenProperties
  <2>2. Len(frames'[c]) <= depth'[c]
    BY <1>3, <1>4, <1>6, StackInvAt, TypedStacks DEF StackInv
  <2>3. \A i \in DOMAIN levels'[c] : levels'[c][i].name < depth'[c]
    BY <2>1, <1>3, <1>4, <1>6, StackInvAt, TypedStacks DEF level, Level, StackInv
  <2>4. \A i, j \in DOMAIN levels'[c] :
          i < j => levels'[c][i].name < levels'[c][j].name
    BY <2>1, <1>3, <1>4, <1>6, StackInvAt, TypedStacks DEF level, Level, StackInv
  <2>. QED
    BY <2>2, <2>3, <2>4, <1>6 DEF StackInv, DepthCoversStacks
<1>8. OneCurrentWriter'
  <2>1. Pending(c)' = Pending(c)
    BY <1>4, <1>6, TypedStacks DEF Pending, WritesFrom, level, StackInv
  <2>2. \A x \in Connections \ {c} : Pending(x)' = Pending(x)
    BY <1>6 DEF Pending, WritesFrom
  <2>3. levels'[c] # <<>>
    BY <1>4, <1>6, TypedStacks, EmptySeq DEF StackInv
  <2>. QED
    BY <2>1, <2>2, <2>3, <1>2, <1>6 DEF StackInv, OneCurrentWriter
<1>9. IdleIsClean'
  BY <1>2, <1>6 DEF StackInv, IdleIsClean
<1>10. levels'[c] # <<>>
  BY <1>4, <1>6, TypedStacks, EmptySeq DEF StackInv
<1>. QED
  BY <1>2, <1>5, <1>6, <1>7, <1>8, <1>9, <1>10 DEF StackInv

\* An action of c that ends c's engine transaction.
LEMMA EndingKeeps ==
  ASSUME StackInv, NEW c \in Connections, NEW ws, EngineEnds(c, ws),
         ws # {} => writer \in {c, Nobody}, TypeOK',
         \A x \in Connections \ {c} :
           mode'[x] = mode[x] /\ depth'[x] = depth[x] /\ frames'[x] = frames[x],
         mode'[c] \in {"idle", "unwinding"} => frames'[c] = <<>>,
         Len(frames'[c]) <= depth'[c]
  PROVE  StackInv'
<1>1. DOMAIN levels'[c] = {}
  BY EngineEndsKeeps, EmptySeq
<1>2. DepthCoversStacks'
  BY <1>1, EngineEndsKeeps DEF StackInv, DepthCoversStacks
<1>3. IdleIsClean'
  BY EngineEndsKeeps DEF StackInv, IdleIsClean
<1>. QED
  BY <1>2, <1>3, EngineEndsKeeps DEF StackInv

LEMMA EngineAbortsKeeps ==
  ASSUME StackInv, NEW c \in Connections, EngineAborts(c) PROVE StackInv'
<1>1. EngineEnds(c, {}) /\ TypeOK /\ UNCHANGED <<depth, frames, result>>
      /\ mode' = [mode EXCEPT ![c] = "failing"]
  BY DEF EngineAborts, StackInv
<1>2. TypeOK'
  BY <1>1, EngineEndsTyped DEF TypeOK
<1>. QED
  BY <1>1, <1>2, EndingKeeps, StackInvAt DEF TypeOK

LEMMA ReleaseKeeps ==
  ASSUME StackInv, NEW c \in Connections, Release(c) PROVE StackInv'
<1>1. /\ TypeOK /\ UNCHANGED <<depth, frames, result>>
      /\ mode' = [mode EXCEPT ![c] = "idle"] /\ frames[c] = <<>>
      /\ Len(frames'[c]) <= depth'[c]
      /\ \A x \in Connections \ {c} :
           mode'[x] = mode[x] /\ depth'[x] = depth[x] /\ frames'[x] = frames[x]
  BY StackInvAt DEF Release, StackInv, TypeOK
<1>2. CASE depth[c] > 0
  <2>1. EngineEnds(c, {})
    BY <1>2 DEF Release
  <2>2. TypeOK'
    BY <1>1, <2>1, EngineEndsTyped DEF TypeOK
  <2>. QED
    BY <1>1, <2>1, <2>2, EndingKeeps
<1>3. CASE depth[c] = 0
  <2>1. UNCHANGED engine
    BY <1>3 DEF Release
  <2>2. levels[c] = <<>> /\ snapshot[c] = "none" /\ writer # c
    BY <1>3, StackInvAt DEF StackInv, TypeOK
  <2>3. TypeOK'
    BY <1>1, <2>1 DEF TypeOK, engine
  <2>4. \A i \in DOMAIN levels[c] : levels[c][i].name < depth'[c]
    BY <1>1 DEF StackInv, DepthCoversStacks
  <2>. QED
    BY <1>1, <2>1, <2>2, <2>3, <2>4, RustOnlyKeeps
<1>. QED
  BY <1>1, <1>2, <1>3 DEF TypeOK

\* The Rust halves of a return, on the stacks of c.
LEMMA ReturnErrEffect ==
  ASSUME StackInv, NEW c \in Connections, frames[c] # <<>>, ReturnErr(c)
  PROVE  /\ frames' \in [Connections -> Seq(SUBSET Writes)]
         /\ result' \in [Connections -> Atomic!Results]
         /\ mode' \in [Connections -> {"idle", "running", "failing", "unwinding"}]
         /\ mode'[c] = "failing"
         /\ Len(frames'[c]) = Len(frames[c]) - 1
         /\ \A i \in 1..Len(frames[c]) - 1 : frames'[c][i] = frames[c][i]
         /\ \A x \in Connections \ {c} :
              mode'[x] = mode[x] /\ frames'[x] = frames[x] /\ result'[x] = result[x]
<1>1. /\ frames[c] \in Seq(SUBSET Writes)
      /\ Atomic!Top(frames[c]) \in SUBSET Writes
  BY TypedStacks DEF StackInv, Atomic!Top
<1>2. result' \in [Connections -> Atomic!Results]
  BY <1>1 DEF StackInv, TypeOK, ReturnErr, Atomic!Results, Atomic!Err
<1>. QED
  BY <1>1, <1>2, PopProperties DEF StackInv, TypeOK, ReturnErr

LEMMA ReturnOkEffect ==
  ASSUME StackInv, NEW c \in Connections, frames[c] # <<>>, ReturnOk(c)
  PROVE  /\ frames' \in [Connections -> Seq(SUBSET Writes)]
         /\ result' \in [Connections -> Atomic!Results]
         /\ depth' \in [Connections -> Nat]
         /\ UNCHANGED mode
         /\ depth'[c] = depth[c] - 1
         /\ Len(frames'[c]) = Len(frames[c]) - 1
         /\ \A x \in Connections \ {c} :
              depth'[x] = depth[x] /\ frames'[x] = frames[x] /\ result'[x] = result[x]
<1>1. /\ frames[c] \in Seq(SUBSET Writes)
      /\ Len(frames[c]) \in Nat /\ Len(frames[c]) > 0
      /\ Atomic!Top(frames[c]) \in SUBSET Writes
  BY TypedStacks DEF StackInv, Atomic!Top
<1>2. depth' \in [Connections -> Nat] /\ depth'[c] = depth[c] - 1
  BY <1>1, StackInvAt DEF StackInv, TypeOK, ReturnOk
<1>3. result' \in [Connections -> Atomic!Results]
  BY <1>1 DEF StackInv, TypeOK, ReturnOk, Atomic!Results, Atomic!Ok
<1>. QED
  BY <1>1, <1>2, <1>3, MergeProperties DEF StackInv, TypeOK, ReturnOk

LEMMA CommitRefusedKeeps ==
  ASSUME StackInv, NEW c \in Connections, CommitRefused(c) PROVE StackInv'
<1>1. frames[c] # <<>> /\ ReturnErr(c) /\ UNCHANGED depth /\ UNCHANGED engine
  BY DEF CommitRefused
<1>2. TypeOK'
  BY <1>1, ReturnErrEffect DEF StackInv, TypeOK, engine
<1>3. /\ Len(frames'[c]) <= depth'[c]
      /\ \A i \in DOMAIN levels[c] : levels[c][i].name < depth'[c]
  BY <1>1, ReturnErrEffect, StackInvAt, TypedStacks DEF StackInv, DepthCoversStacks
<1>. QED
  BY <1>1, <1>2, <1>3, ReturnErrEffect, RustOnlyKeeps

LEMMA CommitAbortsKeeps ==
  ASSUME StackInv, NEW c \in Connections, CommitAborts(c) PROVE StackInv'
<1>1. frames[c] # <<>> /\ ReturnErr(c) /\ UNCHANGED depth /\ EngineEnds(c, {})
  BY DEF CommitAborts
<1>2. TypeOK'
  BY <1>1, ReturnErrEffect, EngineEndsTyped DEF StackInv, TypeOK
<1>3. Len(frames'[c]) <= depth'[c]
  BY <1>1, ReturnErrEffect, StackInvAt, TypedStacks DEF StackInv
<1>. QED
  BY <1>1, <1>2, <1>3, ReturnErrEffect, EndingKeeps

LEMMA CommitOutermostKeeps ==
  ASSUME StackInv, NEW c \in Connections, CommitOutermost(c) PROVE StackInv'
<1>1. frames[c] # <<>> /\ ReturnOk(c) /\ EngineEnds(c, Pending(c))
      /\ mode[c] = "running"
  BY DEF CommitOutermost
<1>2. Pending(c) \in SUBSET Writes /\ (Pending(c) # {} => writer \in {c, Nobody})
  BY PendingTyped, StackInvAt DEF StackInv
<1>3. TypeOK'
  BY <1>1, <1>2, ReturnOkEffect, EngineEndsTyped DEF StackInv, TypeOK
<1>4. Len(frames'[c]) <= depth'[c]
  BY <1>1, ReturnOkEffect, StackInvAt, TypedStacks DEF StackInv
<1>. QED
  BY <1>1, <1>2, <1>3, <1>4, ReturnOkEffect, EndingKeeps

\* The write joins the innermost closure and the innermost level, and nothing
\* else of either stack changes.
LEMMA FramesAfterWrite ==
  ASSUME TypeOK, NEW c \in Connections, NEW w \in Writes, frames[c] # <<>>,
         frames' = [frames EXCEPT ![c][Len(frames[c])] = @ \cup {w}]
  PROVE  /\ frames' \in [Connections -> Seq(SUBSET Writes)]
         /\ Len(frames'[c]) = Len(frames[c])
         /\ \A x \in Connections \ {c} : frames'[x] = frames[x]
         /\ \A i \in 1..Len(frames[c]) :
              frames'[c][i] = IF i = Len(frames[c]) THEN frames[c][i] \cup {w}
                                                   ELSE frames[c][i]
<1>. DEFINE n == Len(frames[c])
            top == frames[c][n] \cup {w}
            stack == [frames[c] EXCEPT ![n] = top]
<1>1. n \in 1..Len(frames[c]) /\ frames[c] \in Seq(SUBSET Writes) /\ top \in SUBSET Writes
  BY TypedStacks
<1>2. frames' = [frames EXCEPT ![c] = stack]
  OBVIOUS
<1>. HIDE DEF top
<1>3. /\ stack \in Seq(SUBSET Writes)
      /\ Len(stack) = Len(frames[c])
      /\ \A i \in 1..Len(frames[c]) : stack[i] = IF i = n THEN top ELSE frames[c][i]
  BY <1>1, ExceptSeq
<1>. HIDE DEF stack, n
<1>4. frames'[c] = stack /\ \A x \in Connections \ {c} : frames'[x] = frames[x]
  BY <1>2 DEF TypeOK
<1>. QED
  BY <1>2, <1>3, <1>4 DEF TypeOK, top, n

LEMMA LevelsAfterWrite ==
  ASSUME TypeOK, NEW c \in Connections, NEW w \in Writes, levels[c] # <<>>,
         levels' = [levels EXCEPT ![c][Len(levels[c])].writes = @ \cup {w}]
  PROVE  /\ levels' \in [Connections -> Seq(Level)]
         /\ Len(levels'[c]) = Len(levels[c])
         /\ \A x \in Connections \ {c} : levels'[x] = levels[x]
         /\ \A i \in 1..Len(levels[c]) :
              /\ levels'[c][i].name = levels[c][i].name
              /\ levels'[c][i].writes =
                   IF i = Len(levels[c]) THEN levels[c][i].writes \cup {w}
                                         ELSE levels[c][i].writes
<1>. DEFINE n == Len(levels[c])
            top == [levels[c][n] EXCEPT !.writes = @ \cup {w}]
            stack == [levels[c] EXCEPT ![n] = top]
<1>1. n \in 1..Len(levels[c]) /\ levels[c] \in Seq(Level) /\ levels[c][n] \in Level
  BY TypedStacks
<1>2. /\ top \in Level /\ top.name = levels[c][n].name
      /\ top.writes = levels[c][n].writes \cup {w}
  BY <1>1 DEF Level
<1>3. levels' = [levels EXCEPT ![c] = stack]
  OBVIOUS
<1>. HIDE DEF top
<1>4. /\ stack \in Seq(Level)
      /\ Len(stack) = Len(levels[c])
      /\ \A i \in 1..Len(levels[c]) : stack[i] = IF i = n THEN top ELSE levels[c][i]
  BY <1>1, <1>2, ExceptSeq
<1>. HIDE DEF stack, n
<1>5. levels'[c] = stack /\ \A x \in Connections \ {c} : levels'[x] = levels[x]
  BY <1>3 DEF TypeOK
<1>. QED
  BY <1>2, <1>3, <1>4, <1>5 DEF TypeOK, n

LEMMA WriteKeeps ==
  ASSUME StackInv, NEW c \in Connections, NEW w \in Writes, Write(c, w) PROVE StackInv'
<1>1. /\ TypeOK /\ frames[c] # <<>> /\ writer \in {c, Nobody}
      /\ mode[c] = "running" /\ snapshot[c] # "stale"
      /\ frames' = [frames EXCEPT ![c][Len(frames[c])] = @ \cup {w}]
      /\ UNCHANGED <<mode, depth, result>>
  BY DEF Write, StackInv
<1>2. CASE levels[c] = <<>>
  <2>1. EngineEnds(c, {w})
    BY <1>2 DEF Write
  <2>2. TypeOK'
    BY <1>1, <2>1, FramesAfterWrite, EngineEndsTyped DEF TypeOK
  <2>. QED
    BY <1>1, <2>1, <2>2, FramesAfterWrite, StackInvAt, EndingKeeps
<1>3. CASE levels[c] # <<>>
  <2>1. /\ levels' = [levels EXCEPT ![c][Len(levels[c])].writes = @ \cup {w}]
        /\ writer' = c /\ UNCHANGED committed
        /\ snapshot' = [snapshot EXCEPT ![c] = IF @ = "none" THEN "fresh" ELSE @]
    BY <1>3 DEF Write
  <2>2. TypeOK'
    BY <1>1, <1>3, <2>1, FramesAfterWrite, LevelsAfterWrite DEF TypeOK
  <2>3. DOMAIN levels'[c] = 1..Len(levels[c]) /\ levels'[c] # <<>>
    BY <1>1, <1>3, <2>1, <2>2, LevelsAfterWrite, TypedStacks, LenProperties, EmptySeq DEF TypeOK
  <2>4. /\ Len(frames'[c]) <= depth'[c]
        /\ \A i \in DOMAIN levels'[c] : levels'[c][i].name < depth'[c]
        /\ \A i, j \in DOMAIN levels'[c] : i < j => levels'[c][i].name < levels'[c][j].name
    <3>1. \A i \in DOMAIN levels'[c] : levels'[c][i].name = levels[c][i].name
      BY <1>1, <1>3, <2>1, <2>3, LevelsAfterWrite
    <3>2. Len(frames'[c]) = Len(frames[c]) /\ depth'[c] = depth[c]
      BY <1>1, FramesAfterWrite
    <3>3. /\ \A i \in DOMAIN levels'[c] : levels[c][i].name < depth[c]
          /\ \A i, j \in DOMAIN levels'[c] : i < j => levels[c][i].name < levels[c][j].name
      BY <2>3, StackInvAt
    <3>. QED
      BY <3>1, <3>2, <3>3, StackInvAt
  <2>5. DepthCoversStacks'
    BY <1>1, <1>3, <2>1, <2>4, FramesAfterWrite, LevelsAfterWrite
       DEF StackInv, DepthCoversStacks
  <2>6. snapshot'[c] = "fresh" /\ \A x \in Connections \ {c} : snapshot'[x] = snapshot[x]
    BY <1>1, <2>1 DEF TypeOK
  <2>7. \A x \in Connections \ {c} :
          Pending(x)' = Pending(x) /\ levels'[x] = levels[x] /\ writer # x
    BY <1>1, <1>3, <2>1, LevelsAfterWrite, NobodyAssumption DEF Pending, WritesFrom
  <2>8. OneCurrentWriter'
    BY <2>1, <2>3, <2>6, <2>7 DEF StackInv, OneCurrentWriter
  <2>9. IdleIsClean'
    BY <1>1, <2>1, <2>6, <2>7 DEF StackInv, IdleIsClean
  <2>10. \A x \in Connections :
          /\ mode'[x] \in {"idle", "unwinding"} => frames'[x] = <<>>
          /\ snapshot'[x] # "none" => levels'[x] # <<>>
    BY <1>1, <2>3, <2>6, <2>7, FramesAfterWrite DEF StackInv
  <2>. QED
    BY <2>2, <2>5, <2>8, <2>9, <2>10 DEF StackInv
<1>. QED
  BY <1>2, <1>3

\* Whatever replaces c's stack keeps StackInv when it has the same kind of
\* names, all under the level that was closed, and pending writes only of the
\* old stack.
LEMMA ShorterStackKeeps ==
  ASSUME StackInv, NEW c \in Connections, TypeOK', levels'[c] # <<>>,
         UNCHANGED <<snapshot, writer, committed>>,
         mode[c] # "idle", mode'[c] # "idle", mode'[c] # "unwinding",
         \A x \in Connections \ {c} :
           /\ mode'[x] = mode[x] /\ depth'[x] = depth[x]
           /\ frames'[x] = frames[x] /\ levels'[x] = levels[x],
         Len(frames'[c]) <= depth'[c],
         Len(levels'[c]) <= Len(levels[c]), levels[c] # <<>>,
         \A i \in 1..Len(levels'[c]) :
           levels'[c][i].name = levels[c][i].name /\ levels[c][i].name < depth'[c],
         Pending(c)' \subseteq Pending(c)
  PROVE  StackInv'
<1>1. DOMAIN levels'[c] = 1..Len(levels'[c]) /\ Len(levels'[c]) \in Nat
      /\ Len(levels[c]) \in Nat
  BY TypedStacks, LenProperties DEF TypeOK, StackInv
<1>2. \A i, j \in DOMAIN levels'[c] : i < j => levels'[c][i].name < levels'[c][j].name
  <2>1. \A i, j \in DOMAIN levels'[c] : i < j => levels[c][i].name < levels[c][j].name
    BY <1>1, StackInvAt
  <2>. QED
    BY <2>1, <1>1
<1>3. DepthCoversStacks'
  BY <1>1, <1>2 DEF StackInv, DepthCoversStacks
<1>4. \A x \in Connections \ {c} : Pending(x)' = Pending(x)
  BY DEF Pending, WritesFrom
<1>5. OneCurrentWriter'
  BY <1>4 DEF StackInv, OneCurrentWriter
<1>. QED
  BY <1>3, <1>5 DEF StackInv, IdleIsClean

LEMMA CommitNestedKeeps ==
  ASSUME StackInv, NEW c \in Connections, CommitNested(c) PROVE StackInv'
<1>. DEFINE i == Position(c, Closing(c))
<1>1. /\ TypeOK /\ frames[c] # <<>> /\ ReturnOk(c) /\ mode[c] = "running"
      /\ Finds(c, Closing(c)) /\ i > 1
      /\ levels' = [levels EXCEPT ![c] = Released(c, i)]
      /\ UNCHANGED <<snapshot, writer, committed>>
  BY DEF CommitNested, StackInv
<1>2. /\ i \in 2..Len(levels[c]) /\ Len(levels[c]) \in Nat /\ levels[c] \in Seq(Level)
      /\ \A j \in 1..i - 1 : levels[c][j].name < Closing(c)
  BY <1>1, ClosingIsInnermost, TypedStacks
<1>. HIDE DEF i
<1>3. /\ levels'[c] = Released(c, i)
      /\ \A x \in Connections \ {c} : levels'[x] = levels[x]
  BY <1>1 DEF TypeOK
<1>4. /\ Released(c, i) \in Seq(Level) /\ Len(Released(c, i)) = i - 1
      /\ \A j \in 1..i - 1 :
           /\ Released(c, i)[j].name = levels[c][j].name
           /\ Released(c, i)[j].writes =
                levels[c][j].writes \cup (IF j = i - 1 THEN WritesFrom(c, i) ELSE {})
  <2>1. /\ Released(c, i) \in Seq(Level) /\ Len(Released(c, i)) = i - 1
        /\ \A j \in 1..i - 1 :
             Released(c, i)[j] =
               [name |-> levels[c][j].name,
                writes |-> levels[c][j].writes \cup
                             (IF j = i - 1 THEN WritesFrom(c, i) ELSE {})]
    BY <1>2, ReleasedProperties
  <2>2. ASSUME NEW j \in 1..i - 1
        PROVE  /\ Released(c, i)[j].name = levels[c][j].name
               /\ Released(c, i)[j].writes =
                    levels[c][j].writes \cup (IF j = i - 1 THEN WritesFrom(c, i) ELSE {})
    BY <2>1
  <2>. QED
    BY <2>1, <2>2
<1>5. TypeOK'
  BY <1>1, <1>4, ReturnOkEffect DEF TypeOK
<1>6. Pending(c)' \subseteq Pending(c)
  <2>1. \A j \in 1..i - 1 : levels'[c][j].writes \subseteq Pending(c)
    BY <1>2, <1>3, <1>4 DEF Pending, WritesFrom
  <2>2. Len(levels'[c]) = i - 1
    BY <1>3, <1>4
  <2>. QED
    BY <2>1, <2>2 DEF Pending, WritesFrom
<1>7. levels'[c] # <<>> /\ Len(levels'[c]) <= Len(levels[c]) /\ levels[c] # <<>>
  BY <1>2, <1>3, <1>4, EmptySeq
<1>8. /\ UNCHANGED mode /\ depth'[c] = Closing(c) /\ Len(frames'[c]) <= depth'[c]
      /\ \A x \in Connections \ {c} : depth'[x] = depth[x] /\ frames'[x] = frames[x]
  BY <1>1, ReturnOkEffect, StackInvAt, TypedStacks DEF Closing
<1>9. \A j \in 1..Len(levels'[c]) :
        levels'[c][j].name = levels[c][j].name /\ levels[c][j].name < depth'[c]
  BY <1>2, <1>3, <1>4, <1>8
<1>. QED
  BY <1>1, <1>3, <1>5, <1>6, <1>7, <1>8, <1>9, ShorterStackKeeps

LEMMA RollbackKeeps ==
  ASSUME StackInv, NEW c \in Connections, Rollback(c) PROVE StackInv'
<1>. DEFINE i == Position(c, Closing(c))
<1>1. TypeOK /\ frames[c] # <<>> /\ ReturnErr(c) /\ mode[c] = "failing"
  BY DEF Rollback, StackInv
<1>2. /\ Len(frames'[c]) = Len(frames[c]) - 1 /\ Len(frames[c]) \in Nat
      /\ Len(frames[c]) > 0 /\ Len(frames[c]) <= depth[c] /\ depth[c] \in Nat
      /\ mode'[c] = "failing"
      /\ \A x \in Connections \ {c} : mode'[x] = mode[x] /\ frames'[x] = frames[x]
  BY <1>1, ReturnErrEffect, StackInvAt, TypedStacks
<1>3. CASE ~Finds(c, Closing(c))
  <2>1. UNCHANGED depth /\ UNCHANGED engine
    BY <1>3 DEF Rollback
  <2>2. TypeOK'
    BY <1>1, <2>1, ReturnErrEffect DEF TypeOK, engine
  <2>3. /\ Len(frames'[c]) <= depth'[c]
        /\ \A j \in DOMAIN levels[c] : levels[c][j].name < depth'[c]
    BY <1>2, <2>1 DEF StackInv, DepthCoversStacks
  <2>. QED
    BY <1>2, <2>1, <2>2, <2>3, RustOnlyKeeps
<1>4. CASE Finds(c, Closing(c))
  <2>1. depth' = [depth EXCEPT ![c] = @ - 1]
    BY <1>4 DEF Rollback
  <2>2. /\ depth' \in [Connections -> Nat] /\ depth'[c] = Closing(c)
        /\ Len(frames'[c]) <= depth'[c]
        /\ \A x \in Connections \ {c} : depth'[x] = depth[x]
    BY <1>1, <1>2, <2>1 DEF TypeOK, Closing
  <2>3. /\ i \in 1..Len(levels[c]) /\ Len(levels[c]) \in Nat /\ levels[c] \in Seq(Level)
        /\ \A j \in 1..i - 1 : levels[c][j].name < Closing(c)
    BY <1>1, <1>2, <1>4, ClosingIsInnermost, TypedStacks
  <2>4. CASE i = 1
    <3>1. EngineEnds(c, {})
      BY <1>4, <2>4 DEF Rollback
    <3>2. TypeOK'
      BY <1>1, <2>2, <3>1, ReturnErrEffect, EngineEndsTyped DEF TypeOK
    <3>. QED
      BY <1>2, <2>2, <3>1, <3>2, EndingKeeps
  <2>5. CASE i # 1
    <3>1. levels' = [levels EXCEPT ![c] = Below(c, i)]
          /\ UNCHANGED <<snapshot, writer, committed>>
      BY <1>4, <2>5 DEF Rollback
    <3>. HIDE DEF i
    <3>2. /\ levels'[c] = Below(c, i)
          /\ \A x \in Connections \ {c} : levels'[x] = levels[x]
      BY <1>1, <3>1 DEF TypeOK
    <3>3. /\ Below(c, i) \in Seq(Level) /\ Len(Below(c, i)) = i - 1
          /\ \A j \in 1..i - 1 : Below(c, i)[j] = levels[c][j]
      BY <2>3, BelowProperties
    <3>4. TypeOK'
      BY <1>1, <2>2, <3>1, <3>3, ReturnErrEffect DEF TypeOK
    <3>5. Pending(c)' \subseteq Pending(c)
      BY <2>3, <3>2, <3>3 DEF Pending, WritesFrom
    <3>6. levels'[c] # <<>> /\ Len(levels'[c]) <= Len(levels[c]) /\ levels[c] # <<>>
      BY <2>3, <2>5, <3>2, <3>3, EmptySeq
    <3>7. \A j \in 1..Len(levels'[c]) :
            levels'[c][j].name = levels[c][j].name /\ levels[c][j].name < depth'[c]
      BY <2>2, <2>3, <3>2, <3>3
    <3>. QED
      BY <1>1, <1>2, <2>2, <3>1, <3>2, <3>4, <3>5, <3>6, <3>7, ShorterStackKeeps
  <2>. QED
    BY <2>4, <2>5
<1>. QED
  BY <1>3, <1>4

-----------------------------------------------------------------------------
(* The theorems.                                                           *)

LEMMA InitStackInv == Init => StackInv
<1>. SUFFICES ASSUME Init PROVE StackInv
  OBVIOUS
<1>1. TypeOK
  BY EmptySeq DEF Init, TypeOK, Atomic!Results, Atomic!NoResult
<1>2. ASSUME NEW c \in Connections
      PROVE  /\ levels[c] = <<>> /\ Len(levels[c]) = 0 /\ Len(frames[c]) = 0
             /\ depth[c] = 0 /\ writer # c /\ Len(frames[c]) <= depth[c]
             /\ 1..Len(levels[c]) = {} /\ DOMAIN levels[c] = {}
  <2>1. levels[c] = <<>> /\ frames[c] = <<>> /\ depth[c] = 0 /\ writer = Nobody
    BY DEF Init
  <2>2. Len(levels[c]) = 0 /\ Len(frames[c]) = 0
    BY <2>1, EmptySeq
  <2>3. DOMAIN levels[c] = 1..Len(levels[c])
    BY <1>1, TypedStacks
  <2>4. Len(frames[c]) <= depth[c]
    BY <2>1, <2>2
  <2>. QED
    BY <2>1, <2>2, <2>3, <2>4, NobodyAssumption
<1>3. ASSUME NEW c \in Connections PROVE Pending(c) = {}
  BY <1>2 DEF Pending, WritesFrom
<1>4. OneCurrentWriter
  BY <1>2, <1>3 DEF OneCurrentWriter
<1>5. DepthCoversStacks
  <2>1. \A c \in Connections : Len(frames[c]) <= depth[c] /\ DOMAIN levels[c] = {}
    BY <1>2
  <2>. QED
    BY <2>1 DEF DepthCoversStacks
<1>. QED
  BY <1>1, <1>2, <1>4, <1>5 DEF Init, StackInv, IdleIsClean

LEMMA NextStackInv ==
  ASSUME StackInv, [Next]_vars
  PROVE  StackInv'
<1>1. CASE UNCHANGED vars
  BY <1>1 DEF vars, StackInv, TypeOK, IdleIsClean, DepthCoversStacks,
              OneCurrentWriter, Pending, WritesFrom
<1>2. ASSUME NEW c \in Connections, Acquire(c) PROVE StackInv'
  BY <1>2, AcquireKeeps
<1>3. ASSUME NEW c \in Connections, Begin(c) PROVE StackInv'
  BY <1>3, BeginKeeps
<1>4. ASSUME NEW c \in Connections, Read(c) PROVE StackInv'
  BY <1>4, ReadKeeps
<1>5. ASSUME NEW c \in Connections, NEW w \in Writes, Write(c, w) PROVE StackInv'
  BY <1>5, WriteKeeps
<1>6. ASSUME NEW c \in Connections, StatementFails(c) PROVE StackInv'
  BY <1>6, StatementFailsKeeps
<1>7. ASSUME NEW c \in Connections, EngineAborts(c) PROVE StackInv'
  BY <1>7, EngineAbortsKeeps
<1>8. ASSUME NEW c \in Connections, CommitNested(c) PROVE StackInv'
  BY <1>8, CommitNestedKeeps
<1>9. ASSUME NEW c \in Connections, CommitOutermost(c) PROVE StackInv'
  BY <1>9, CommitOutermostKeeps
<1>10. ASSUME NEW c \in Connections, CommitRefused(c) PROVE StackInv'
  BY <1>10, CommitRefusedKeeps
<1>11. ASSUME NEW c \in Connections, CommitAborts(c) PROVE StackInv'
  BY <1>11, CommitAbortsKeeps
<1>12. ASSUME NEW c \in Connections, Rollback(c) PROVE StackInv'
  BY <1>12, RollbackKeeps
<1>13. ASSUME NEW c \in Connections, Recover(c) PROVE StackInv'
  BY <1>13, RecoverKeeps
<1>14. ASSUME NEW c \in Connections, Panic(c) PROVE StackInv'
  BY <1>14, PanicKeeps
<1>15. ASSUME NEW c \in Connections, Release(c) PROVE StackInv'
  BY <1>15, ReleaseKeeps
<1>. QED
  BY <1>1, <1>2, <1>3, <1>4, <1>5, <1>6, <1>7, <1>8, <1>9, <1>10, <1>11, <1>12,
     <1>13, <1>14, <1>15 DEF Next

\* For any pool, any nesting and any failure: the four properties below hold
\* together with what makes them inductive (sqlite/connection.rs).
THEOREM StackInvariant == Spec => []StackInv
<1>1. StackInv /\ [Next]_vars => StackInv'
  BY NextStackInv
<1>. QED
  BY <1>1, InitStackInv, PTL DEF Spec

\* The state is always well typed.
THEOREM TypeCorrect == Spec => []TypeOK
<1>1. StackInv => TypeOK
  BY DEF StackInv
<1>. QED
  BY <1>1, StackInvariant, PTL

\* A handle that rejoins the pool carries nothing over, however the request
\* that held it ended (Connection::drop).
THEOREM HandlesRejoinClean == Spec => []IdleIsClean
<1>1. StackInv => IdleIsClean
  BY DEF StackInv
<1>. QED
  BY <1>1, StackInvariant, PTL

\* The nesting counter never names a level further out than the innermost one
\* and never underflows while a closure runs.
THEOREM CounterCoversStacks == Spec => []DepthCoversStacks
<1>1. StackInv => DepthCoversStacks
  BY DEF StackInv
<1>. QED
  BY <1>1, StackInvariant, PTL

-----------------------------------------------------------------------------
(***************************************************************************)
(* Transaction implements AtomicTransactions, and Ok and Err mean what     *)
(* they say, for any pool and any nesting, wherever no application code    *)
(* catches errors on a connection whose engine gives transactions up (the  *)
(* run that violates OkIsDurable shows what happens when it does).         *)
(***************************************************************************)

\* On no connection does application code go on after an Err, with an engine
\* that may have ended the transaction behind the adapter's back.
NobodyRecoversBlind == Recovering \cap Fragile = {}

\* The closures on c's stack may still commit.
Live(c) == mode[c] = "running" \/ (mode[c] = "failing" /\ c \notin Fragile)

\* Rust's stack and the engine's agree, level by level, and with the counter.
Mirrors(c) ==
  /\ depth[c] = Len(frames[c])
  /\ Len(levels[c]) = Len(frames[c])
  /\ \A i \in 1..Len(frames[c]) :
       levels[c][i].name = i - 1 /\ levels[c][i].writes = frames[c][i]

MirrorInv == StackInv /\ \A c \in Connections : Live(c) => Mirrors(c)

\* A step of the abstract transactions, by a write of which no trace is left.
AbstractStep(c) ==
  \/ Atomic!Enter(c)
  \/ \E w \in Writes : Unused(w) /\ Atomic!Work(c, w)
  \/ Atomic!Succeed(c)
  \/ Atomic!Fail(c)
  \/ Atomic!Vanish(c)
  \/ UNCHANGED Atomic!vars

-----------------------------------------------------------------------------
(* Where the code's commit and rollback bite when the stacks agree.        *)

LEMMA MirroredPosition ==
  ASSUME StackInv, NEW c \in Connections, Mirrors(c), frames[c] # <<>>
  PROVE  /\ Finds(c, Closing(c))
         /\ Position(c, Closing(c)) = Len(frames[c])
         /\ Len(frames[c]) \in Nat /\ Len(frames[c]) > 0
         /\ levels[c] # <<>>
         /\ Closing(c) = Len(frames[c]) - 1
<1>1. /\ Len(frames[c]) \in Nat /\ Len(frames[c]) > 0
      /\ levels[c] # <<>> /\ DOMAIN levels[c] = 1..Len(frames[c])
  BY TypedStacks DEF StackInv, Mirrors
<1>2. Closing(c) = Len(frames[c]) - 1
  BY DEF Closing, Mirrors
<1>3. \A i \in 1..Len(frames[c]) : levels[c][i].name = Closing(c) <=> i = Len(frames[c])
  BY <1>1, <1>2 DEF Mirrors
<1>4. Len(frames[c]) \in 1..Len(frames[c])
  BY <1>1
<1>5. Finds(c, Closing(c))
  BY <1>1, <1>3, <1>4 DEF Finds
<1>6. Position(c, Closing(c)) = Len(frames[c])
  <2>1. CASE Closing(c) = 0
    BY <1>1, <1>2, <2>1 DEF Position
  <2>2. CASE Closing(c) # 0
    BY <1>1, <1>3, <1>4, <2>2 DEF Position
  <2>. QED BY <2>1, <2>2
<1>. QED BY <1>1, <1>2, <1>5, <1>6

\* An outcome that ends nothing durable leaves what is durable alone.
LEMMA EndsWithNothing ==
  ASSUME StackInv, NEW c \in Connections, EngineEnds(c, {})
  PROVE  committed' = committed
BY DEF EngineEnds

-----------------------------------------------------------------------------
(* Each action keeps its own stacks in agreement, and is an abstract step. *)

LEMMA AcquireMirrors ==
  ASSUME StackInv, NEW c \in Connections, Acquire(c)
  PROVE  Mirrors(c)' /\ AbstractStep(c)
<1>1. /\ depth'[c] = 0 /\ frames' = frames /\ levels' = levels
      /\ result' = result /\ committed' = committed
  BY DEF Acquire, StackInv, TypeOK, engine
<1>2. Len(frames[c]) = 0 /\ Len(levels[c]) = 0
  BY StackInvAt, TypedStacks DEF Acquire, StackInv
<1>. QED BY <1>1, <1>2 DEF Mirrors, AbstractStep, Atomic!vars

LEMMA BeginMirrors ==
  ASSUME StackInv, NEW c \in Connections, Mirrors(c), Begin(c)
  PROVE  Mirrors(c)' /\ AbstractStep(c)
<1>1. ~(depth[c] = 0 /\ levels[c] # <<>>)
  BY StackInvAt
<1>. DEFINE level == [name |-> depth[c], writes |-> {}]
<1>2. /\ levels' = [levels EXCEPT ![c] = Append(@, level)]
      /\ depth' = [depth EXCEPT ![c] = @ + 1]
      /\ frames' = [frames EXCEPT ![c] = Append(@, {})]
      /\ result' = [result EXCEPT ![c] =
                      IF frames[c] = <<>> THEN Atomic!NoResult ELSE @]
      /\ UNCHANGED committed
  BY <1>1 DEF Begin
<1>3. Atomic!Enter(c)
  BY <1>2 DEF Atomic!Enter
<1>4. level \in Level /\ depth[c] \in Nat /\ level.name = depth[c] /\ level.writes = {}
  BY DEF Level, StackInv, TypeOK
<1>. HIDE DEF level
<1>5. /\ Len(Append(levels[c], level)) = Len(levels[c]) + 1
      /\ \A i \in 1..Len(levels[c]) + 1 :
           Append(levels[c], level)[i] = IF i = Len(levels[c]) + 1 THEN level ELSE levels[c][i]
      /\ Len(Append(frames[c], {})) = Len(frames[c]) + 1
      /\ \A i \in 1..Len(frames[c]) + 1 :
           Append(frames[c], {})[i] = IF i = Len(frames[c]) + 1 THEN {} ELSE frames[c][i]
  <2>1. levels[c] \in Seq(Level) /\ frames[c] \in Seq(SUBSET Writes) /\ {} \in SUBSET Writes
        /\ Len(levels[c]) \in Nat /\ Len(frames[c]) \in Nat
    BY TypedStacks DEF StackInv
  <2>2. /\ Len(Append(levels[c], level)) = Len(levels[c]) + 1
        /\ \A i \in 1..Len(levels[c]) : Append(levels[c], level)[i] = levels[c][i]
        /\ Append(levels[c], level)[Len(levels[c]) + 1] = level
    BY <1>4, <2>1, AppendProperties
  <2>3. /\ Len(Append(frames[c], {})) = Len(frames[c]) + 1
        /\ \A i \in 1..Len(frames[c]) : Append(frames[c], {})[i] = frames[c][i]
        /\ Append(frames[c], {})[Len(frames[c]) + 1] = {}
    BY <2>1, AppendProperties
  <2>. QED BY <2>1, <2>2, <2>3
<1>6. /\ levels'[c] = Append(levels[c], level) /\ frames'[c] = Append(frames[c], {})
      /\ depth'[c] = depth[c] + 1
  BY <1>2 DEF StackInv, TypeOK
<1>7. Len(frames[c]) \in Nat /\ Len(levels[c]) = Len(frames[c]) /\ depth[c] = Len(frames[c])
  BY TypedStacks DEF StackInv, Mirrors
<1>8. ASSUME NEW i \in 1..Len(frames[c]) + 1
      PROVE  levels'[c][i].name = i - 1 /\ levels'[c][i].writes = frames'[c][i]
  <2>1. CASE i = Len(frames[c]) + 1
    <3>1. levels'[c][i] = level /\ frames'[c][i] = {} /\ i - 1 = depth[c]
      BY <1>5, <1>6, <1>7, <2>1
    <3>. QED BY <1>4, <3>1
  <2>2. CASE i # Len(frames[c]) + 1
    <3>1. i \in 1..Len(frames[c])
      BY <1>7, <2>2
    <3>2. levels'[c][i] = levels[c][i] /\ frames'[c][i] = frames[c][i]
      BY <1>5, <1>6, <1>7, <2>2
    <3>. QED BY <3>1, <3>2 DEF Mirrors
  <2>. QED BY <2>1, <2>2
<1>9. Mirrors(c)'
  BY <1>5, <1>6, <1>7, <1>8 DEF Mirrors
<1>. QED BY <1>3, <1>9 DEF AbstractStep

LEMMA WriteMirrors ==
  ASSUME StackInv, NEW c \in Connections, NEW w \in Writes, Mirrors(c), Write(c, w)
  PROVE  Mirrors(c)' /\ AbstractStep(c)
<1>1. /\ TypeOK /\ frames[c] # <<>> /\ levels[c] # <<>> /\ Unused(w)
      /\ frames' = [frames EXCEPT ![c][Len(frames[c])] = @ \cup {w}]
      /\ UNCHANGED <<mode, depth, result>>
  BY MirroredPosition DEF Write, StackInv
<1>2. /\ levels' = [levels EXCEPT ![c][Len(levels[c])].writes = @ \cup {w}]
      /\ UNCHANGED committed
  BY <1>1 DEF Write
<1>3. Atomic!Work(c, w)
  BY <1>1, <1>2 DEF Atomic!Work
<1>4. Mirrors(c)'
  <2>1. /\ Len(frames'[c]) = Len(frames[c])
        /\ \A i \in 1..Len(frames[c]) :
             frames'[c][i] = IF i = Len(frames[c]) THEN frames[c][i] \cup {w} ELSE frames[c][i]
    BY <1>1, FramesAfterWrite
  <2>2. /\ Len(levels'[c]) = Len(levels[c])
        /\ \A i \in 1..Len(levels[c]) :
             /\ levels'[c][i].name = levels[c][i].name
             /\ levels'[c][i].writes =
                  IF i = Len(levels[c]) THEN levels[c][i].writes \cup {w} ELSE levels[c][i].writes
    BY <1>1, <1>2, LevelsAfterWrite
  <2>3. ASSUME NEW i \in 1..Len(frames[c])
        PROVE  levels'[c][i].name = i - 1 /\ levels'[c][i].writes = frames'[c][i]
    BY <2>1, <2>2 DEF Mirrors
  <2>. QED BY <1>1, <2>1, <2>2, <2>3 DEF Mirrors
<1>. QED BY <1>1, <1>3, <1>4 DEF AbstractStep

LEMMA CommitNestedMirrors ==
  ASSUME StackInv, NEW c \in Connections, Mirrors(c), CommitNested(c)
  PROVE  Mirrors(c)' /\ AbstractStep(c)
<1>. DEFINE n == Len(frames[c])
<1>1. /\ frames[c] # <<>> /\ ReturnOk(c) /\ n \in Nat /\ n > 1
      /\ levels' = [levels EXCEPT ![c] = Released(c, n)]
      /\ UNCHANGED <<snapshot, writer, committed>>
  <2>1. frames[c] # <<>>
    BY DEF CommitNested
  <2>. QED BY <2>1, MirroredPosition DEF CommitNested
<1>2. Atomic!Succeed(c)
  BY <1>1 DEF Atomic!Succeed, ReturnOk, StackInv, TypeOK, Atomic!Top
<1>3. /\ frames[c] \in Seq(SUBSET Writes) /\ levels[c] \in Seq(Level) /\ Len(levels[c]) = n
  BY TypedStacks DEF StackInv, Mirrors
<1>4. /\ levels'[c] = Released(c, n) /\ frames'[c] = Atomic!Merge(frames[c])
      /\ depth'[c] = depth[c] - 1
  BY <1>1 DEF ReturnOk, StackInv, TypeOK
<1>5. /\ Len(Atomic!Merge(frames[c])) = n - 1
      /\ \A i \in 1..n - 1 : Atomic!Merge(frames[c])[i] =
           IF i = n - 1 THEN frames[c][i] \cup frames[c][n] ELSE frames[c][i]
  BY <1>1, <1>3, MergeProperties
<1>6. WritesFrom(c, n) = frames[c][n]
  <2>1. WritesFrom(c, n) = UNION {levels[c][j].writes : j \in {n}}
    BY <1>1, <1>3 DEF WritesFrom
  <2>2. levels[c][n].writes = frames[c][n]
    BY <1>1 DEF Mirrors
  <2>. QED BY <2>1, <2>2
<1>7. n \in 2..Len(levels[c])
  BY <1>1, <1>3
<1>8. /\ Len(Released(c, n)) = n - 1
      /\ \A i \in 1..n - 1 : Released(c, n)[i] =
           [name |-> levels[c][i].name,
            writes |-> levels[c][i].writes \cup (IF i = n - 1 THEN WritesFrom(c, n) ELSE {})]
  BY <1>3, <1>7, ReleasedProperties
<1>9. ASSUME NEW i \in 1..n - 1
      PROVE  levels'[c][i].name = i - 1 /\ levels'[c][i].writes = frames'[c][i]
  <2>1. levels[c][i].name = i - 1 /\ levels[c][i].writes = frames[c][i]
    BY <1>1 DEF Mirrors
  <2>2. /\ levels'[c][i].name = levels[c][i].name
        /\ levels'[c][i].writes = levels[c][i].writes \cup (IF i = n - 1 THEN frames[c][n] ELSE {})
    <3>1. levels'[c][i] = [name |-> levels[c][i].name,
                           writes |-> levels[c][i].writes \cup (IF i = n - 1 THEN frames[c][n] ELSE {})]
      BY <1>4, <1>6, <1>8
    <3>. QED BY <3>1
  <2>3. frames'[c][i] = IF i = n - 1 THEN frames[c][i] \cup frames[c][n] ELSE frames[c][i]
    BY <1>4, <1>5
  <2>. QED BY <2>1, <2>2, <2>3
<1>10. Mirrors(c)'
  BY <1>4, <1>5, <1>8, <1>9 DEF Mirrors
<1>. QED BY <1>2, <1>10 DEF AbstractStep

LEMMA CommitOutermostMirrors ==
  ASSUME StackInv, NEW c \in Connections, Mirrors(c), CommitOutermost(c)
  PROVE  Mirrors(c)' /\ AbstractStep(c)
<1>1. /\ frames[c] # <<>> /\ ReturnOk(c) /\ Len(frames[c]) = 1 /\ EngineEnds(c, Pending(c))
  <2>1. frames[c] # <<>>
    BY DEF CommitOutermost
  <2>. QED BY <2>1, MirroredPosition DEF CommitOutermost
<1>2. Pending(c) = Atomic!Top(frames[c])
  <2>1. Len(levels[c]) = 1 /\ levels[c][1].writes = frames[c][1]
    BY <1>1 DEF Mirrors
  <2>2. Pending(c) = UNION {levels[c][j].writes : j \in {1}}
    BY <2>1 DEF Pending, WritesFrom
  <2>. QED BY <1>1, <2>1, <2>2 DEF Atomic!Top
<1>3. Atomic!Succeed(c)
  BY <1>1, <1>2 DEF Atomic!Succeed, ReturnOk, EngineEnds
<1>4. /\ levels'[c] = <<>> /\ Len(frames'[c]) = 0 /\ depth'[c] = 0
  <2>1. levels'[c] = <<>>
    BY <1>1 DEF EngineEnds, StackInv, TypeOK
  <2>2. Len(frames'[c]) = Len(frames[c]) - 1 /\ depth'[c] = depth[c] - 1
    BY <1>1, ReturnOkEffect
  <2>. QED BY <1>1, <2>1, <2>2 DEF Mirrors
<1>5. Mirrors(c)'
  BY <1>4, EmptySeq DEF Mirrors
<1>. QED BY <1>3, <1>5 DEF AbstractStep

\* A commit that fails is the engine's doing.
LEMMA CommitRefusedMirrors ==
  ASSUME StackInv, NEW c \in Connections, Mirrors(c), CommitRefused(c)
  PROVE  ~Live(c)' /\ AbstractStep(c)
<1>1. /\ frames[c] # <<>> /\ ReturnErr(c) /\ UNCHANGED <<depth, engine>>
      /\ Finds(c, Closing(c)) => c \in Fragile
  BY DEF CommitRefused
<1>2. c \in Fragile /\ mode'[c] = "failing"
  BY <1>1, MirroredPosition, ReturnErrEffect
<1>3. Atomic!Fail(c)
  BY <1>1 DEF Atomic!Fail, ReturnErr, engine
<1>. QED BY <1>2, <1>3 DEF Live, AbstractStep

LEMMA CommitAbortsMirrors ==
  ASSUME StackInv, NEW c \in Connections, CommitAborts(c)
  PROVE  ~Live(c)' /\ AbstractStep(c)
<1>1. c \in Fragile /\ frames[c] # <<>> /\ ReturnErr(c) /\ EngineEnds(c, {})
  BY DEF CommitAborts
<1>2. mode'[c] = "failing"
  BY <1>1, ReturnErrEffect
<1>3. Atomic!Fail(c)
  BY <1>1, EndsWithNothing DEF Atomic!Fail, ReturnErr
<1>. QED BY <1>1, <1>2, <1>3 DEF Live, AbstractStep

LEMMA RollbackMirrors ==
  ASSUME StackInv, NEW c \in Connections, Live(c) => Mirrors(c), Rollback(c)
  PROVE  (Live(c) => Mirrors(c))' /\ AbstractStep(c)
<1>1. /\ frames[c] # <<>> /\ ReturnErr(c) /\ mode[c] = "failing"
  BY DEF Rollback
<1>2. committed' = committed
  BY EndsWithNothing DEF Rollback, engine
<1>3. Atomic!Fail(c)
  BY <1>1, <1>2 DEF Atomic!Fail, ReturnErr
<1>4. mode'[c] = "failing" /\ Len(frames'[c]) = Len(frames[c]) - 1
      /\ \A i \in 1..Len(frames[c]) - 1 : frames'[c][i] = frames[c][i]
  BY <1>1, ReturnErrEffect
<1>5. CASE c \in Fragile
  BY <1>3, <1>4, <1>5 DEF Live, AbstractStep
<1>6. CASE c \notin Fragile
  <2>. DEFINE n == Len(frames[c])
  <2>1. Mirrors(c)
    BY <1>1, <1>6 DEF Live
  <2>2. /\ Finds(c, Closing(c)) /\ Position(c, Closing(c)) = n /\ n \in Nat /\ n > 0
        /\ Len(levels[c]) = n /\ levels[c] \in Seq(Level)
    BY <1>1, <2>1, MirroredPosition, TypedStacks DEF Mirrors, StackInv
  <2>3. depth'[c] = n - 1
    BY <2>1, <2>2 DEF Rollback, StackInv, TypeOK, Mirrors
  <2>4. CASE n = 1
    <3>1. levels'[c] = <<>>
      BY <2>2, <2>4 DEF Rollback, EngineEnds, StackInv, TypeOK
    <3>2. Mirrors(c)'
      BY <1>4, <2>3, <2>4, <3>1, EmptySeq DEF Mirrors
    <3>. QED BY <1>3, <3>2 DEF AbstractStep
  <2>5. CASE n # 1
    <3>1. levels'[c] = Below(c, n)
      BY <2>2, <2>5 DEF Rollback, StackInv, TypeOK
    <3>2. n \in 1..Len(levels[c])
      BY <2>2
    <3>3. Len(Below(c, n)) = n - 1 /\ \A i \in 1..n - 1 : Below(c, n)[i] = levels[c][i]
      BY <2>2, <3>2, BelowProperties
    <3>4. Mirrors(c)'
      <4>1. ASSUME NEW i \in 1..n - 1
            PROVE  levels'[c][i].name = i - 1 /\ levels'[c][i].writes = frames'[c][i]
        <5>1. levels'[c][i] = levels[c][i] /\ frames'[c][i] = frames[c][i]
          BY <1>4, <3>1, <3>3
        <5>2. i \in 1..n
          BY <2>2
        <5>3. levels[c][i].name = i - 1 /\ levels[c][i].writes = frames[c][i]
          BY <2>1, <5>2 DEF Mirrors
        <5>. QED BY <5>1, <5>3
      <4>. QED BY <1>4, <2>3, <3>1, <3>3, <4>1 DEF Mirrors
    <3>. QED BY <1>3, <3>4 DEF AbstractStep
  <2>. QED BY <2>4, <2>5
<1>. QED BY <1>5, <1>6

\* The actions that move one stack only end what may commit.
LEMMA RestMirrors ==
  ASSUME NobodyRecoversBlind, StackInv, NEW c \in Connections, Live(c) => Mirrors(c),
         Read(c) \/ StatementFails(c) \/ EngineAborts(c) \/ Recover(c) \/ Panic(c) \/ Release(c)
  PROVE  (Live(c) => Mirrors(c))' /\ AbstractStep(c)
<1>1. CASE Read(c)
  <2>1. UNCHANGED <<mode, depth, frames, result, levels, committed>>
    BY <1>1 DEF Read, rust
  <2>. QED BY <2>1 DEF Live, Mirrors, AbstractStep, Atomic!vars
<1>2. CASE StatementFails(c)
  <2>1. UNCHANGED <<depth, frames, result, levels, committed>> /\ mode[c] = "running"
    BY <1>2 DEF StatementFails, engine
  <2>. QED BY <2>1 DEF Live, Mirrors, AbstractStep, Atomic!vars
<1>3. CASE EngineAborts(c)
  <2>1. c \in Fragile /\ mode'[c] = "failing" /\ UNCHANGED <<frames, result, committed>>
    BY <1>3, EndsWithNothing DEF EngineAborts, StackInv, TypeOK
  <2>. QED BY <2>1 DEF Live, AbstractStep, Atomic!vars
<1>4. CASE Recover(c)
  <2>1. c \notin Fragile /\ mode[c] = "failing" /\ UNCHANGED <<depth, frames, result, levels, committed>>
    BY <1>4 DEF Recover, engine, NobodyRecoversBlind
  <2>. QED BY <2>1 DEF Live, Mirrors, AbstractStep, Atomic!vars
<1>5. CASE Panic(c)
  <2>1. mode'[c] = "unwinding" /\ Atomic!Vanish(c)
    BY <1>5 DEF Panic, Atomic!Vanish, engine, StackInv, TypeOK
  <2>. QED BY <2>1 DEF Live, AbstractStep
<1>6. CASE Release(c)
  <2>1. mode'[c] = "idle" /\ UNCHANGED <<frames, result, committed>>
    BY <1>6, EndsWithNothing DEF Release, engine, StackInv, TypeOK
  <2>. QED BY <2>1 DEF Live, AbstractStep, Atomic!vars
<1>. QED BY <1>1, <1>2, <1>3, <1>4, <1>5, <1>6

\* A step of c.
StepOf(c) ==
  \/ Acquire(c) \/ Begin(c) \/ Read(c) \/ (\E w \in Writes : Write(c, w)) \/ StatementFails(c)
  \/ EngineAborts(c) \/ CommitNested(c) \/ CommitOutermost(c) \/ CommitRefused(c)
  \/ CommitAborts(c) \/ Rollback(c) \/ Recover(c) \/ Panic(c) \/ Release(c)

LEMMA OwnStep ==
  ASSUME NobodyRecoversBlind, StackInv, NEW c \in Connections, Live(c) => Mirrors(c), StepOf(c)
  PROVE  (Live(c) => Mirrors(c))' /\ AbstractStep(c)
<1>1. mode[c] = "running" => Mirrors(c)
  BY DEF Live
<1>2. CASE Acquire(c)
  BY <1>2, AcquireMirrors
<1>3. CASE Begin(c)
  BY <1>1, <1>3, BeginMirrors DEF Begin
<1>4. ASSUME NEW w \in Writes, Write(c, w) PROVE (Live(c) => Mirrors(c))' /\ AbstractStep(c)
  BY <1>1, <1>4, WriteMirrors DEF Write
<1>5. CASE CommitNested(c)
  BY <1>1, <1>5, CommitNestedMirrors DEF CommitNested
<1>6. CASE CommitOutermost(c)
  BY <1>1, <1>6, CommitOutermostMirrors DEF CommitOutermost
<1>7. CASE CommitRefused(c)
  BY <1>1, <1>7, CommitRefusedMirrors DEF CommitRefused
<1>8. CASE CommitAborts(c)
  BY <1>8, CommitAbortsMirrors
<1>9. CASE Rollback(c)
  BY <1>9, RollbackMirrors
<1>10. CASE Read(c) \/ StatementFails(c) \/ EngineAborts(c) \/ Recover(c) \/ Panic(c) \/ Release(c)
  BY <1>10, RestMirrors
<1>. QED BY <1>2, <1>3, <1>4, <1>5, <1>6, <1>7, <1>8, <1>9, <1>10 DEF StepOf

\* No connection moves another's stacks.
LEMMA OtherStacks ==
  ASSUME StackInv, NEW c \in Connections, StepOf(c), NEW d \in Connections \ {c}
  PROVE  mode'[d] = mode[d] /\ depth'[d] = depth[d] /\ frames'[d] = frames[d] /\ levels'[d] = levels[d]
<1>. USE DEF StackInv, TypeOK
<1>1. CASE Acquire(c)          BY <1>1 DEF Acquire, engine
<1>2. CASE Begin(c)            BY <1>2 DEF Begin, engine
<1>3. CASE Read(c)             BY <1>3 DEF Read, rust
<1>4. ASSUME NEW w \in Writes, Write(c, w)
      PROVE  mode'[d] = mode[d] /\ depth'[d] = depth[d] /\ frames'[d] = frames[d] /\ levels'[d] = levels[d]
  BY <1>4 DEF Write, EngineEnds
<1>5. CASE StatementFails(c)   BY <1>5 DEF StatementFails, engine
<1>6. CASE EngineAborts(c)     BY <1>6 DEF EngineAborts, EngineEnds
<1>7. CASE CommitNested(c)     BY <1>7 DEF CommitNested, ReturnOk
<1>8. CASE CommitOutermost(c)  BY <1>8 DEF CommitOutermost, EngineEnds, ReturnOk
<1>9. CASE CommitRefused(c)    BY <1>9 DEF CommitRefused, ReturnErr, engine
<1>10. CASE CommitAborts(c)    BY <1>10 DEF CommitAborts, EngineEnds, ReturnErr
<1>11. CASE Rollback(c)        BY <1>11 DEF Rollback, EngineEnds, ReturnErr, engine
<1>12. CASE Recover(c)         BY <1>12 DEF Recover, engine
<1>13. CASE Panic(c)           BY <1>13 DEF Panic, engine
<1>14. CASE Release(c)         BY <1>14 DEF Release, EngineEnds, engine
<1>. QED BY <1>1, <1>2, <1>3, <1>4, <1>5, <1>6, <1>7, <1>8, <1>9, <1>10, <1>11, <1>12, <1>13,
            <1>14 DEF StepOf

LEMMA InitMirrors == Init => MirrorInv
<1>1. ASSUME Init, NEW c \in Connections PROVE ~Live(c)
  BY <1>1 DEF Init, Live
<1>. QED BY <1>1, InitStackInv DEF MirrorInv

LEMMA NextMirrors ==
  ASSUME NobodyRecoversBlind, MirrorInv, [Next]_vars
  PROVE  /\ MirrorInv'
         /\ (\E c \in Connections : AbstractStep(c)) \/ UNCHANGED Atomic!vars
<1>1. StackInv'
  BY NextStackInv DEF MirrorInv
<1>2. CASE UNCHANGED vars
  <2>1. \A c \in Connections : (Live(c) => Mirrors(c))'
    BY <1>2 DEF MirrorInv, Live, Mirrors, vars
  <2>. QED BY <1>1, <1>2, <2>1 DEF MirrorInv, vars, Atomic!vars
<1>3. CASE Next
  <2>1. PICK c \in Connections : StepOf(c)
    BY <1>3 DEF Next, StepOf
  <2>2. (Live(c) => Mirrors(c))' /\ AbstractStep(c)
    BY <2>1, OwnStep DEF MirrorInv
  <2>3. ASSUME NEW d \in Connections \ {c} PROVE (Live(d) => Mirrors(d))'
    BY <2>1, OtherStacks DEF MirrorInv, Live, Mirrors
  <2>. QED BY <1>1, <2>2, <2>3 DEF MirrorInv
<1>. QED BY <1>2, <1>3

-----------------------------------------------------------------------------
(* Ok and Err, on the abstract steps alone.                                *)

\* What the closures running on c have done, and not yet committed.
Undecided(c) == UNION {frames[c][i] : i \in 1..Len(frames[c])}

\* No write belongs to two closures' stacks, to a stack and the database, or
\* to a stack and a transaction that has failed.
Separate ==
  /\ \A c \in Connections : Undecided(c) \cap committed = {}
  /\ \A c, d \in Connections : c # d => Undecided(c) \cap Undecided(d) = {}
  /\ \A c, d \in Connections :
       result[d].outcome = "err" => Undecided(c) \cap result[d].writes = {}

\* What an abstract step of c does to what c has not yet committed.
LEMMA UndecidedAfter ==
  ASSUME TypeOK, TypeOK', NEW c \in Connections
  PROVE  /\ Atomic!Enter(c) => Undecided(c)' \subseteq Undecided(c)
         /\ \A w \in Writes : Atomic!Work(c, w) => Undecided(c)' \subseteq Undecided(c) \cup {w}
         /\ Atomic!Succeed(c) \/ Atomic!Fail(c) =>
              /\ Undecided(c)' \subseteq Undecided(c)
              /\ Atomic!Top(frames[c]) \subseteq Undecided(c)
              /\ Len(frames[c]) = 1 => Undecided(c)' = {}
         /\ Atomic!Vanish(c) => Undecided(c)' = {}
<1>1. frames[c] \in Seq(SUBSET Writes) /\ Len(frames[c]) \in Nat
  BY TypedStacks
<1>2. ASSUME Atomic!Enter(c) PROVE Undecided(c)' \subseteq Undecided(c)
  <2>1. frames'[c] = Append(frames[c], {}) /\ {} \in SUBSET Writes
    BY <1>2 DEF Atomic!Enter, TypeOK
  <2>2. /\ Len(frames'[c]) = Len(frames[c]) + 1
        /\ \A i \in 1..Len(frames[c]) : frames'[c][i] = frames[c][i]
        /\ frames'[c][Len(frames[c]) + 1] = {}
    BY <1>1, <2>1, AppendProperties
  <2>3. ASSUME NEW i \in 1..Len(frames'[c]) PROVE frames'[c][i] \subseteq Undecided(c)
    BY <1>1, <2>2 DEF Undecided
  <2>. QED BY <2>3 DEF Undecided
<1>3. ASSUME NEW w \in Writes, Atomic!Work(c, w)
      PROVE  Undecided(c)' \subseteq Undecided(c) \cup {w}
  <2>1. frames[c] # <<>> /\ frames' = [frames EXCEPT ![c][Len(frames[c])] = @ \cup {w}]
    BY <1>3 DEF Atomic!Work
  <2>2. /\ Len(frames'[c]) = Len(frames[c])
        /\ \A i \in 1..Len(frames[c]) : frames'[c][i] \subseteq frames[c][i] \cup {w}
    BY <2>1, FramesAfterWrite
  <2>. QED BY <2>2 DEF Undecided
<1>4. ASSUME Atomic!Succeed(c) \/ Atomic!Fail(c)
      PROVE  /\ Undecided(c)' \subseteq Undecided(c)
             /\ Atomic!Top(frames[c]) \subseteq Undecided(c)
             /\ Len(frames[c]) = 1 => Undecided(c)' = {}
  <2>1. frames[c] # <<>> /\ Len(frames[c]) > 0
    BY <1>1, <1>4, TypedStacks DEF Atomic!Succeed, Atomic!Fail
  <2>2. frames'[c] = Atomic!Merge(frames[c]) \/ frames'[c] = Atomic!Pop(frames[c])
    BY <1>4 DEF Atomic!Succeed, Atomic!Fail, TypeOK
  <2>3. /\ Len(frames'[c]) = Len(frames[c]) - 1
        /\ \A i \in 1..Len(frames[c]) - 1 : frames'[c][i] \subseteq frames[c][i] \cup frames[c][Len(frames[c])]
    <3>1. CASE frames'[c] = Atomic!Merge(frames[c])
      BY <1>1, <2>1, <3>1, MergeProperties
    <3>2. CASE frames'[c] = Atomic!Pop(frames[c])
      BY <1>1, <2>1, <3>2, PopProperties
    <3>. QED BY <2>2, <3>1, <3>2
  <2>4. \A i \in 1..Len(frames[c]) : frames[c][i] \subseteq Undecided(c)
    BY DEF Undecided
  <2>5. Atomic!Top(frames[c]) \subseteq Undecided(c)
    BY <1>1, <2>1, <2>4 DEF Atomic!Top
  <2>6. ASSUME NEW i \in 1..Len(frames'[c]) PROVE frames'[c][i] \subseteq Undecided(c)
    BY <1>1, <2>1, <2>3, <2>4
  <2>7. Len(frames[c]) = 1 => Undecided(c)' = {}
    BY <2>3 DEF Undecided
  <2>. QED BY <2>5, <2>6, <2>7 DEF Undecided
<1>5. ASSUME Atomic!Vanish(c) PROVE Undecided(c)' = {}
  <2>1. frames'[c] = <<>>
    BY <1>5 DEF Atomic!Vanish, TypeOK
  <2>. QED BY <2>1, EmptySeq DEF Undecided
<1>. QED BY <1>2, <1>3, <1>4, <1>5

LEMMA StutterSeparates ==
  ASSUME Separate, AtomicOutcome, UNCHANGED Atomic!vars
  PROVE  Separate' /\ AtomicOutcome'
<1>1. frames' = frames /\ committed' = committed /\ result' = result
  BY DEF Atomic!vars
<1>2. \A c \in Connections : Undecided(c)' = Undecided(c)
  BY <1>1 DEF Undecided
<1>. QED BY <1>1, <1>2 DEF Separate, AtomicOutcome, OkIsDurable, ErrLeavesNothing

LEMMA AbstractStepSeparates ==
  ASSUME TypeOK, TypeOK', Separate, AtomicOutcome, NEW c \in Connections, AbstractStep(c)
  PROVE  Separate' /\ AtomicOutcome'
<1>1. \A d \in Connections \ {c} :
        UNCHANGED Atomic!vars \/ (frames'[d] = frames[d] /\ result'[d] = result[d])
  BY DEF AbstractStep, Atomic!Enter, Atomic!Work, Atomic!Succeed, Atomic!Fail, Atomic!Vanish, TypeOK
<1>2. CASE UNCHANGED Atomic!vars
  BY <1>2, StutterSeparates
<1>. SUFFICES ASSUME ~UNCHANGED Atomic!vars PROVE Separate' /\ AtomicOutcome'
  BY <1>2
<1>3. \A d \in Connections \ {c} : Undecided(d)' = Undecided(d) /\ result'[d] = result[d]
  BY <1>1 DEF Undecided
<1>4. CASE Atomic!Enter(c)
  <2>1. /\ Undecided(c)' \subseteq Undecided(c) /\ committed' = committed
        /\ result'[c] = result[c] \/ result'[c].outcome = "none"
    BY <1>4, UndecidedAfter DEF Atomic!Enter, Atomic!NoResult, TypeOK
  <2>. QED BY <1>3, <2>1 DEF Separate, AtomicOutcome, OkIsDurable, ErrLeavesNothing
<1>5. ASSUME NEW w \in Writes, Unused(w), Atomic!Work(c, w) PROVE Separate' /\ AtomicOutcome'
  <2>1. Undecided(c)' \subseteq Undecided(c) \cup {w} /\ committed' = committed /\ result' = result
    BY <1>5, UndecidedAfter DEF Atomic!Work
  <2>2. /\ w \notin committed
        /\ \A d \in Connections : w \notin Undecided(d) /\ w \notin result[d].writes
    BY <1>5, TypedStacks DEF Unused, Undecided
  <2>. QED BY <1>3, <2>1, <2>2 DEF Separate, AtomicOutcome, OkIsDurable, ErrLeavesNothing
<1>6. CASE Atomic!Succeed(c)
  <2>1. /\ Undecided(c)' \subseteq Undecided(c) /\ Atomic!Top(frames[c]) \subseteq Undecided(c)
        /\ Len(frames[c]) = 1 => Undecided(c)' = {}
    BY <1>6, UndecidedAfter
  <2>2. CASE Len(frames[c]) = 1
    <3>1. /\ committed' = committed \cup Atomic!Top(frames[c])
          /\ result'[c].outcome = "ok" /\ result'[c].writes = Atomic!Top(frames[c])
      BY <1>6, <2>2 DEF Atomic!Succeed, Atomic!Ok, TypeOK
    <3>. QED BY <1>3, <2>1, <2>2, <3>1 DEF Separate, AtomicOutcome, OkIsDurable, ErrLeavesNothing
  <2>3. CASE Len(frames[c]) # 1
    <3>1. committed' = committed /\ result' = result
      BY <1>6, <2>3 DEF Atomic!Succeed
    <3>. QED BY <1>3, <2>1, <3>1 DEF Separate, AtomicOutcome, OkIsDurable, ErrLeavesNothing
  <2>. QED BY <2>2, <2>3
<1>7. CASE Atomic!Fail(c)
  <2>1. /\ Undecided(c)' \subseteq Undecided(c) /\ Atomic!Top(frames[c]) \subseteq Undecided(c)
        /\ Len(frames[c]) = 1 => Undecided(c)' = {}
        /\ committed' = committed
    BY <1>7, UndecidedAfter DEF Atomic!Fail
  <2>2. CASE Len(frames[c]) = 1
    <3>1. result'[c].outcome = "err" /\ result'[c].writes = Atomic!Top(frames[c])
      BY <1>7, <2>2 DEF Atomic!Fail, Atomic!Err, TypeOK
    <3>. QED BY <1>3, <2>1, <2>2, <3>1 DEF Separate, AtomicOutcome, OkIsDurable, ErrLeavesNothing
  <2>3. CASE Len(frames[c]) # 1
    <3>1. result'[c] = result[c]
      BY <1>7, <2>3 DEF Atomic!Fail, TypeOK
    <3>. QED BY <1>3, <2>1, <3>1 DEF Separate, AtomicOutcome, OkIsDurable, ErrLeavesNothing
  <2>. QED BY <2>2, <2>3
<1>8. CASE Atomic!Vanish(c)
  <2>1. Undecided(c)' = {} /\ committed' = committed /\ result' = result
    BY <1>8, UndecidedAfter DEF Atomic!Vanish
  <2>. QED BY <1>3, <2>1 DEF Separate, AtomicOutcome, OkIsDurable, ErrLeavesNothing
<1>. QED BY <1>4, <1>5, <1>6, <1>7, <1>8 DEF AbstractStep

-----------------------------------------------------------------------------
(* The theorems.                                                           *)

AtomicInv == MirrorInv /\ Separate /\ AtomicOutcome

LEMMA InitAtomic == Init => AtomicInv /\ Atomic!Init
<1>. SUFFICES ASSUME Init PROVE AtomicInv /\ Atomic!Init
  OBVIOUS
<1>1. Atomic!Init
  BY DEF Init, Atomic!Init
<1>2. \A c \in Connections : Undecided(c) = {} /\ result[c].outcome = "none"
  <2>1. \A c \in Connections : frames[c] = <<>> /\ result[c].outcome = "none"
    BY DEF Init, Atomic!NoResult
  <2>2. ASSUME NEW c \in Connections PROVE 1..Len(frames[c]) = {}
    <3>1. Len(frames[c]) = 0
      BY <2>1, EmptySeq
    <3>. QED BY <3>1
  <2>. QED BY <2>1, <2>2 DEF Undecided
<1>. QED BY <1>1, <1>2, InitMirrors DEF AtomicInv, Separate, AtomicOutcome, OkIsDurable, ErrLeavesNothing

LEMMA NextAtomic ==
  ASSUME NobodyRecoversBlind, AtomicInv, [Next]_vars
  PROVE  AtomicInv' /\ [Atomic!Next]_(Atomic!vars)
<1>1. /\ MirrorInv'
      /\ (\E c \in Connections : AbstractStep(c)) \/ UNCHANGED Atomic!vars
  BY NextMirrors DEF AtomicInv
<1>2. TypeOK /\ TypeOK'
  BY <1>1 DEF AtomicInv, MirrorInv, StackInv
<1>3. CASE UNCHANGED Atomic!vars
  BY <1>1, <1>3, StutterSeparates DEF AtomicInv
<1>4. ASSUME NEW c \in Connections, AbstractStep(c)
      PROVE  AtomicInv' /\ [Atomic!Next]_(Atomic!vars)
  <2>1. Separate' /\ AtomicOutcome'
    BY <1>2, <1>4, AbstractStepSeparates DEF AtomicInv
  <2>2. [Atomic!Next]_(Atomic!vars)
    BY <1>4 DEF AbstractStep, Atomic!Next
  <2>. QED BY <1>1, <2>1, <2>2 DEF AtomicInv
<1>. QED BY <1>1, <1>3, <1>4

\* The contract of Connection::transaction: once the outermost call returned Ok
\* all its closures did is in the database, once it returned Err nothing is.
THEOREM TransactionsAreAtomic ==
  ASSUME NobodyRecoversBlind
  PROVE  Spec => []AtomicOutcome
<1>1. AtomicInv /\ [Next]_vars => AtomicInv'
  BY NextAtomic
<1>2. Init => AtomicInv
  BY InitAtomic
<1>3. AtomicInv => AtomicOutcome
  BY DEF AtomicInv
<1>. QED BY <1>1, <1>2, <1>3, PTL DEF Spec

\* The SQL of the adapter, savepoints and counter included, implements the
\* abstract transactions.
THEOREM SqlImplementsTransactions ==
  ASSUME NobodyRecoversBlind
  PROVE  Spec => ImplementsAtomicTransactions
<1>1. AtomicInv /\ [Next]_vars => AtomicInv' /\ [Atomic!Next]_(Atomic!vars)
  BY NextAtomic
<1>2. Init => AtomicInv /\ Atomic!Init
  BY InitAtomic
<1>. QED BY <1>1, <1>2, PTL DEF Spec, ImplementsAtomicTransactions, Atomic!Spec
=============================================================================
