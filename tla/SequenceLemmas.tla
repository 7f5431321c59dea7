--------------------------- MODULE SequenceLemmas ---------------------------
(***************************************************************************)
(* Facts about sequences, positions and definitions by recursion that the  *)
(* proofs of more than one component rest on.  The induction is over a set *)
(* of numbers, which a lemma can take as a parameter.                      *)
(***************************************************************************)
EXTENDS Naturals, Sequences, FiniteSets, SequencesExt, FiniteSetsExt,
        FiniteSetTheorems, SequenceTheorems, WellFoundedInduction, TLAPS

-----------------------------------------------------------------------------
(* Induction over numbers, and the functions it defines. *)

LEMMA Induction ==
    ASSUME NEW S, 0 \in S, \A n \in Nat : n \in S => n + 1 \in S
    PROVE  Nat \subseteq S
<1>. SUFFICES ASSUME Nat \ S # {} PROVE FALSE
  OBVIOUS
<1>1. PICK x \in Nat \ S : \A y \in Nat \ S : ~ (<<y, x>> \in OpToRel(<, Nat))
  BY NatLessThanWellFounded, WFMin
<1>2. \A y \in Nat : y < x => <<y, x>> \in OpToRel(<, Nat)
  BY DEF OpToRel
<1>3. x # 0 /\ x - 1 \in Nat /\ x - 1 < x /\ (x - 1) + 1 = x
  OBVIOUS
<1>4. x - 1 \in S
  BY <1>1, <1>2, <1>3
<1>. QED BY <1>1, <1>3, <1>4

LEMMA BoundedInduction ==
    ASSUME NEW n \in Nat, NEW S, 0 \in S, \A i \in 1..n : i - 1 \in S => i \in S
    PROVE  0..n \subseteq S
<1>. DEFINE T == {i \in Nat : i <= n => i \in S}
<1>1. 0 \in T
  OBVIOUS
<1>2. ASSUME NEW i \in Nat, i \in T PROVE i + 1 \in T
  <2>1. CASE i + 1 <= n
    <3>1. i + 1 \in 1..n /\ (i + 1) - 1 = i /\ i \in S
      BY <1>2, <2>1
    <3>. QED BY <3>1
  <2>2. CASE ~(i + 1 <= n)
    BY <2>2
  <2>. QED BY <2>1, <2>2
<1>. HIDE DEF T
<1>3. Nat \subseteq T
  BY <1>1, <1>2, Induction
<1>. QED BY <1>3 DEF T

\* A function on 0..n may be given by its first value and each value after.
Unfolds(f, n, b, step) == f[0] = b /\ \A i \in 1..n : f[i] = step[i][f[i - 1]]

LEMMA Recursion ==
    ASSUME NEW n \in Nat, NEW V, NEW b \in V, NEW step \in [1..n -> [V -> V]]
    PROVE  \E f \in [0..n -> V] : Unfolds(f, n, b, step)
<1>. DEFINE S == {k \in 0..n : \E f \in [0..k -> V] : Unfolds(f, k, b, step)}
<1>1. 0 \in S
  <2>1. [i \in 0..0 |-> b] \in [0..0 -> V] /\ Unfolds([i \in 0..0 |-> b], 0, b, step)
    BY DEF Unfolds
  <2>2. 0 \in 0..n
    OBVIOUS
  <2>. QED BY <2>1, <2>2
<1>2. ASSUME NEW k \in 1..n, k - 1 \in S PROVE k \in S
  <2>1. PICK f \in [0..(k - 1) -> V] : Unfolds(f, k - 1, b, step)
    BY <1>2
  <2>. DEFINE g == [i \in 0..k |-> IF i = k THEN step[k][f[k - 1]] ELSE f[i]]
  <2>2. g \in [0..k -> V]
    <3>1. f[k - 1] \in V /\ step[k] \in [V -> V]
      BY <2>1
    <3>. QED BY <3>1
  <2>3. g[0] = b
    BY <2>1 DEF Unfolds
  <2>4. ASSUME NEW i \in 1..k PROVE g[i] = step[i][g[i - 1]]
    BY <2>1 DEF Unfolds
  <2>. HIDE DEF g
  <2>5. Unfolds(g, k, b, step)
    BY <2>3, <2>4 DEF Unfolds
  <2>6. k \in 0..n
    OBVIOUS
  <2>. QED BY <2>2, <2>5, <2>6
<1>. HIDE DEF S
<1>3. 0..n \subseteq S
  BY <1>1, <1>2, BoundedInduction
<1>4. n \in 0..n
  OBVIOUS
<1>. QED BY <1>3, <1>4 DEF S

-----------------------------------------------------------------------------
(* FlattenSeq, and what is a prefix of what. *)

Flattening(seqs, f) ==
    f = [i \in 1..Len(seqs) |-> IF i = 1 THEN seqs[i] ELSE f[i - 1] \o seqs[i]]

\* FlattenSeq is the last of the concatenations of the first so many.
Concatenations(seqs, f) == f[0] = <<>> /\ \A i \in 1..Len(seqs) : f[i] = f[i - 1] \o seqs[i]

LEMMA ConcatenationsExist ==
    ASSUME NEW X, NEW seqs \in Seq(Seq(X))
    PROVE  \E f \in [0..Len(seqs) -> Seq(X)] : Concatenations(seqs, f)
<1>. DEFINE n == Len(seqs)
            V == Seq(X)
            none == <<>>
            step == [i \in 1..n |-> [v \in V |-> v \o seqs[i]]]
<1>1. step \in [1..n -> [V -> V]] /\ n \in Nat /\ none \in V
  OBVIOUS
<1>2. PICK f \in [0..n -> V] : Unfolds(f, n, none, step)
  <2>. HIDE DEF step, n, V, none
  <2>. QED BY <1>1, Recursion
<1>3. ASSUME NEW i \in 1..n PROVE f[i] = f[i - 1] \o seqs[i]
  <2>1. i - 1 \in 0..n
    BY <1>1
  <2>2. f[i - 1] \in V
    BY <1>2, <2>1
  <2>. QED BY <1>2, <2>2 DEF Unfolds
<1>. QED BY <1>2, <1>3 DEF Concatenations, Unfolds

SameUpTo(n, s, t) == \A i \in 1..n : s[i] = t[i]

LEMMA ConcatenationsAgree ==
    ASSUME NEW seqs, NEW others, NEW f, NEW g, NEW n \in Nat, Len(seqs) \in Nat, Len(others) \in Nat,
           n <= Len(seqs), n <= Len(others), SameUpTo(n, seqs, others),
           Concatenations(seqs, f), Concatenations(others, g)
    PROVE  f[n] = g[n]
<1>. DEFINE S == {i \in 0..n : f[i] = g[i]}
<1>1. 0 \in S
  BY DEF Concatenations
<1>2. ASSUME NEW i \in 1..n, i - 1 \in S PROVE i \in S
  <2>1. i \in 1..Len(seqs) /\ i \in 1..Len(others) /\ i \in 0..n
    OBVIOUS
  <2>2. f[i] = f[i - 1] \o seqs[i] /\ g[i] = g[i - 1] \o others[i]
    BY <2>1 DEF Concatenations
  <2>. QED BY <1>2, <2>1, <2>2 DEF SameUpTo
<1>3. n \in Nat /\ n \in 0..n
  OBVIOUS
<1>. HIDE DEF S
<1>4. 0..n \subseteq S
  BY <1>1, <1>2, <1>3, BoundedInduction
<1>. QED BY <1>3, <1>4 DEF S

LEMMA FlattenIs ==
    ASSUME NEW X, NEW seqs \in Seq(Seq(X)), NEW f \in [0..Len(seqs) -> Seq(X)], Concatenations(seqs, f)
    PROVE  FlattenSeq(seqs) = f[Len(seqs)]
<1>1. CASE Len(seqs) = 0
  <2>1. seqs = <<>>
    BY <1>1, EmptySeq
  <2>. QED BY <1>1, <2>1 DEF FlattenSeq, Concatenations
<1>2. Len(seqs) # 0 => f[1] = seqs[1]
  <2>. SUFFICES ASSUME Len(seqs) # 0 PROVE f[1] = seqs[1]
    OBVIOUS
  <2>1. 1 \in 1..Len(seqs) /\ 1 - 1 = 0
    OBVIOUS
  <2>2. f[1] = <<>> \o seqs[1]
    BY <2>1 DEF Concatenations
  <2>3. seqs[1] \in Seq(X)
    BY <2>1
  <2>. QED BY <2>2, <2>3
<1>3. CASE Len(seqs) # 0
  <2>. DEFINE n == Len(seqs)
              h == [i \in 1..n |-> f[i]]
              g == CHOOSE x : Flattening(seqs, x)
  <2>1. n \in Nat /\ n \in 1..n /\ n \in 0..n
    BY <1>3
  <2>2. Flattening(seqs, h)
    <3>1. ASSUME NEW i \in 1..n PROVE h[i] = IF i = 1 THEN seqs[i] ELSE h[i - 1] \o seqs[i]
      <4>1. CASE i = 1
        BY <1>2, <4>1
      <4>2. CASE i # 1
        <5>1. i - 1 \in 1..n
          BY <4>2
        <5>2. h[i - 1] = f[i - 1] /\ h[i] = f[i]
          BY <5>1
        <5>. QED BY <4>2, <5>2 DEF Concatenations
      <4>. QED BY <4>1, <4>2
    <3>. QED BY <3>1 DEF Flattening
  <2>3. Flattening(seqs, g)
    BY <2>2
  <2>4. FlattenSeq(seqs) = g[n]
    BY <1>3 DEF FlattenSeq, Flattening
  <2>. HIDE DEF h, g
  <2>5. g[1] = seqs[1] /\ \A i \in 1..n : i # 1 => g[i] = g[i - 1] \o seqs[i]
    <3>1. g = [i \in 1..n |-> IF i = 1 THEN seqs[i] ELSE g[i - 1] \o seqs[i]]
      BY <2>3 DEF Flattening
    <3>2. \A i \in 1..n : g[i] = IF i = 1 THEN seqs[i] ELSE g[i - 1] \o seqs[i]
      <4>. DEFINE G(i) == IF i = 1 THEN seqs[i] ELSE g[i - 1] \o seqs[i]
      <4>1. g = [i \in 1..n |-> G(i)]
        BY <3>1
      <4>. HIDE DEF G
      <4>2. \A i \in 1..n : g[i] = G(i)
        BY <4>1
      <4>. QED BY <4>2 DEF G
    <3>3. 1 \in 1..n
      BY <1>3, <2>1
    <3>. QED BY <3>2, <3>3
  <2>6. f[1] = seqs[1]
    BY <1>3, <1>2
  <2>. DEFINE S == {i \in 0..n : i # 0 => f[i] = g[i]}
  <2>7. 0 \in S
    BY <2>1
  <2>8. ASSUME NEW i \in 1..n, i - 1 \in S PROVE i \in S
    <3>1. CASE i = 1
      BY <2>5, <2>6, <3>1
    <3>2. CASE i # 1
      <4>1. i - 1 # 0 /\ i \in 0..n
        BY <3>2
      <4>. QED BY <2>5, <2>8, <3>2, <4>1 DEF Concatenations
    <3>. QED BY <3>1, <3>2
  <2>. HIDE DEF S
  <2>9. 0..n \subseteq S
    BY <2>1, <2>7, <2>8, BoundedInduction
  <2>. QED BY <1>3, <2>1, <2>4, <2>9 DEF S
<1>. QED BY <1>1, <1>3

LEMMA FlattenTyped ==
    ASSUME NEW X, NEW seqs \in Seq(Seq(X))
    PROVE  FlattenSeq(seqs) \in Seq(X)
<1>1. PICK f \in [0..Len(seqs) -> Seq(X)] : Concatenations(seqs, f)
  BY ConcatenationsExist
<1>2. FlattenSeq(seqs) = f[Len(seqs)] /\ Len(seqs) \in 0..Len(seqs)
  BY <1>1, FlattenIs
<1>. QED BY <1>2

LEMMA FlattenAppend ==
    ASSUME NEW X, NEW seqs \in Seq(Seq(X)), NEW s \in Seq(X)
    PROVE  FlattenSeq(Append(seqs, s)) = FlattenSeq(seqs) \o s
<1>. DEFINE longer == Append(seqs, s)
            n == Len(seqs)
<1>1. /\ longer \in Seq(Seq(X)) /\ Len(longer) = n + 1 /\ longer[n + 1] = s /\ n \in Nat
      /\ \A i \in 1..n : seqs[i] = longer[i]
  BY AppendProperties
<1>. HIDE DEF longer
<1>2. PICK f \in [0..n -> Seq(X)] : Concatenations(seqs, f)
  BY ConcatenationsExist
<1>3. PICK g \in [0..Len(longer) -> Seq(X)] : Concatenations(longer, g)
  BY <1>1, ConcatenationsExist
<1>4. f[n] = g[n]
  <2>1. n \in Nat /\ Len(seqs) \in Nat /\ n <= Len(seqs) /\ Len(longer) \in Nat /\ n <= Len(longer)
    BY <1>1
  <2>2. SameUpTo(n, seqs, longer)
    BY <1>1 DEF SameUpTo
  <2>. HIDE DEF n
  <2>. QED BY <1>2, <1>3, <2>1, <2>2, ConcatenationsAgree
<1>5. g[n + 1] = g[n] \o s
  <2>1. n + 1 \in 1..Len(longer) /\ (n + 1) - 1 = n
    BY <1>1
  <2>. QED BY <1>1, <1>3, <2>1 DEF Concatenations
<1>6. FlattenSeq(seqs) = f[n] /\ FlattenSeq(longer) = g[n + 1]
  BY <1>1, <1>2, <1>3, FlattenIs
<1>. QED BY <1>4, <1>5, <1>6 DEF longer

LEMMA FlattenOne ==
    ASSUME NEW X, NEW s \in Seq(X)
    PROVE  FlattenSeq(<<s>>) = s
<1>1. <<>> \in Seq(Seq(X)) /\ Append(<<>>, s) = <<s>> /\ <<>> \o s = s
  OBVIOUS
<1>2. FlattenSeq(<<>>) = <<>>
  BY DEF FlattenSeq
<1>. QED BY <1>1, <1>2, FlattenAppend

LEMMA PrefixOfConcat ==
    ASSUME NEW X, NEW s \in Seq(X), NEW t \in Seq(X)
    PROVE  IsPrefix(s, s \o t)
<1>1. s \o t \in Seq(X) /\ Len(s \o t) = Len(s) + Len(t) /\ Len(s) \in Nat /\ Len(t) \in Nat
  BY ConcatProperties
<1>2. \A i \in 1..Len(s) : (s \o t)[i] = s[i]
  BY ConcatProperties
<1>3. SubSeq(s, 1, Len(s)) = SubSeq(s \o t, 1, Len(s))
  BY <1>1, <1>2
<1>. QED BY <1>1, <1>3 DEF IsPrefix

-----------------------------------------------------------------------------
(* The first and the last of some positions.                               *)

\* The sets of the positions up to each of them are finite, so that one of
\* them has no other inside: it belongs to the least.
LEMMA LeastIsMember ==
    ASSUME NEW n \in Nat, NEW S, S \subseteq 1..n, S # {}
    PROVE  Min(S) \in S /\ \A y \in S : Min(S) <= y
<1>. DEFINE UpTo(i) == {j \in 1..n : j <= i}
            T == {UpTo(i) : i \in S}
<1>1. IsFiniteSet(1..n)
  BY FS_Interval
<1>2. T \subseteq FiniteSubsetsOf(1..n) /\ T # {}
  <2>1. ASSUME NEW i \in S PROVE UpTo(i) \in FiniteSubsetsOf(1..n)
    <3>1. UpTo(i) \in SUBSET (1..n)
      OBVIOUS
    <3>2. IsFiniteSet(UpTo(i))
      BY <1>1, <3>1, FS_Subset
    <3>. QED BY <3>1, <3>2 DEF FiniteSubsetsOf
  <2>. QED BY <2>1
<1>3. PICK X \in T : \A Y \in T : ~(<<Y, X>> \in StrictSubsetOrdering(1..n))
  BY <1>2, FS_StrictSubsetOrderingWellFounded, WFMin
<1>4. PICK x \in S : X = UpTo(x)
  BY <1>3
<1>5. ASSUME NEW y \in S PROVE x <= y
  <2>1. SUFFICES ASSUME y < x PROVE FALSE
    OBVIOUS
  <2>2. UpTo(y) \subseteq UpTo(x) /\ x \in UpTo(x) /\ x \notin UpTo(y)
    BY <2>1
  <2>3. <<UpTo(y), UpTo(x)>> \in StrictSubsetOrdering(1..n)
    BY <2>2 DEF StrictSubsetOrdering
  <2>. QED BY <1>3, <1>4, <2>3
<1>. QED BY <1>5 DEF Min

LEMMA GreatestIsMember ==
    ASSUME NEW n \in Nat, NEW S, S \subseteq 1..n, S # {}
    PROVE  Max(S) \in S
<1>. DEFINE T == {n + 1 - i : i \in S}
<1>1. T \subseteq 1..n /\ T # {}
  <2>1. ASSUME NEW i \in S PROVE n + 1 - i \in 1..n
    <3>1. i \in Nat /\ 1 <= i /\ i <= n
      OBVIOUS
    <3>. QED BY <3>1
  <2>. QED BY <2>1
<1>2. Min(T) \in T /\ \A y \in T : Min(T) <= y
  BY <1>1, LeastIsMember
<1>3. PICK x \in S : Min(T) = n + 1 - x
  BY <1>2
<1>4. \A y \in S : n + 1 - x <= n + 1 - y
  BY <1>2, <1>3
<1>5. \A y \in S : x >= y
  BY <1>4
<1>. QED BY <1>5 DEF Max

-----------------------------------------------------------------------------
(* Sequences of whatever they hold. *)

\* A sequence of whatever it holds.
LEMMA ItsOwnElements ==
    ASSUME NEW X, NEW t \in Seq(X)
    PROVE  t \in Seq(ToSet(t)) /\ Len(t) \in Nat /\ DOMAIN t = 1..Len(t)
<1>1. Len(t) \in Nat /\ t \in [1..Len(t) -> X] /\ DOMAIN t = 1..Len(t)
  OBVIOUS
<1>2. t \in [1..Len(t) -> ToSet(t)]
  BY <1>1 DEF ToSet
<1>. QED BY <1>1, <1>2

LEMMA SequenceIs ==
    ASSUME NEW s, s \in Seq(ToSet(s))
    PROVE  Len(s) \in Nat /\ DOMAIN s = 1..Len(s) /\ s = [i \in 1..Len(s) |-> s[i]]
  OBVIOUS

LEMMA AppendIs ==
    ASSUME NEW s, s \in Seq(ToSet(s)), NEW e
    PROVE  /\ Append(s, e) \in Seq(ToSet(Append(s, e)))
           /\ Len(Append(s, e)) = Len(s) + 1
           /\ \A i \in 1..Len(s) : Append(s, e)[i] = s[i]
           /\ Append(s, e)[Len(s) + 1] = e
<1>. DEFINE X == ToSet(s) \cup {e}
            t == Append(s, e)
<1>1. s \in Seq(X)
  <2>1. Len(s) \in Nat /\ s \in [1..Len(s) -> ToSet(s)]
    OBVIOUS
  <2>2. s \in [1..Len(s) -> X]
    BY <2>1
  <2>. QED BY <2>1, <2>2
<1>2. e \in X
  OBVIOUS
<1>. HIDE DEF X
<1>3. /\ t \in Seq(X) /\ Len(t) = Len(s) + 1 /\ t[Len(s) + 1] = e
      /\ \A i \in 1..Len(s) : t[i] = s[i]
  BY <1>1, <1>2, AppendProperties
<1>. HIDE DEF t
<1>4. t \in Seq(ToSet(t))
  BY <1>3, ItsOwnElements
<1>. QED BY <1>3, <1>4 DEF t

LEMMA FrontIs ==
    ASSUME NEW s, s \in Seq(ToSet(s)), Len(s) > 0
    PROVE  LET t == SubSeq(s, 1, Len(s) - 1)
           IN /\ t \in Seq(ToSet(t)) /\ Len(t) = Len(s) - 1
              /\ \A i \in 1..(Len(s) - 1) : t[i] = s[i]
<1>. DEFINE t == SubSeq(s, 1, Len(s) - 1)
            X == ToSet(s)
<1>1. t \in Seq(X) /\ Len(t) = Len(s) - 1 /\ \A i \in 1..(Len(s) - 1) : t[i] = s[i]
  <2>1. s \in Seq(X) /\ Len(s) \in Nat /\ Len(s) - 1 \in 0..Len(s)
    OBVIOUS
  <2>. HIDE DEF X
  <2>. QED BY <2>1, SubSeqProperties
<1>. HIDE DEF X, t
<1>2. t \in Seq(ToSet(t))
  BY <1>1, ItsOwnElements
<1>. QED BY <1>1, <1>2 DEF t

LEMMA TailIs ==
    ASSUME NEW s, s \in Seq(ToSet(s)), s # <<>>
    PROVE  /\ Tail(s) \in Seq(ToSet(Tail(s))) /\ Len(Tail(s)) = Len(s) - 1 /\ Len(s) > 0
           /\ \A i \in 1..(Len(s) - 1) : Tail(s)[i] = s[i + 1]
           /\ Head(s) = s[1]
<1>. DEFINE t == Tail(s)
            X == ToSet(s)
<1>1. /\ t \in Seq(X) /\ Len(t) = Len(s) - 1 /\ Len(s) > 0 /\ Head(s) = s[1]
      /\ \A i \in 1..(Len(s) - 1) : t[i] = s[i + 1]
  <2>1. s \in Seq(X) /\ Len(s) \in Nat
    OBVIOUS
  <2>. HIDE DEF X
  <2>. QED BY <2>1
<1>. HIDE DEF X, t
<1>2. t \in Seq(ToSet(t))
  BY <1>1, ItsOwnElements
<1>. QED BY <1>1, <1>2 DEF t

LEMMA ExceptIs ==
    ASSUME NEW s, s \in Seq(ToSet(s)), NEW k \in 1..Len(s), NEW e
    PROVE  LET t == [s EXCEPT ![k] = e]
           IN /\ t \in Seq(ToSet(t)) /\ Len(t) = Len(s) /\ t[k] = e
              /\ \A i \in 1..Len(s) : i # k => t[i] = s[i]
<1>. DEFINE t == [s EXCEPT ![k] = e]
            X == ToSet(s) \cup {e}
<1>1. Len(s) \in Nat /\ s \in [1..Len(s) -> ToSet(s)]
  OBVIOUS
<1>2. t \in [1..Len(s) -> X]
  BY <1>1
<1>3. t[k] = e /\ \A i \in 1..Len(s) : i # k => t[i] = s[i]
  BY <1>1
<1>. HIDE DEF X, t
<1>4. t \in Seq(X) /\ Len(t) = Len(s)
  BY <1>1, <1>2
<1>5. t \in Seq(ToSet(t))
  BY <1>4, ItsOwnElements
<1>. QED BY <1>3, <1>4, <1>5 DEF t

-----------------------------------------------------------------------------
(* Counting off a finite set along a total order. *)

TotalOrder(R, S) ==
  /\ \A x \in S : <<x, x>> \notin R
  /\ \A x, y \in S : x # y => <<x, y>> \in R \/ <<y, x>> \in R
  /\ \A x, y, z \in S : <<x, y>> \in R /\ <<y, z>> \in R => <<x, z>> \in R

Below(R, S, x) == {y \in S : <<y, x>> \in R}

\* Each element once.
Lists(t, S) ==
  /\ t \in Seq(S)
  /\ \A i, j \in 1..Len(t) : t[i] = t[j] => i = j

LEMMA EveryRankIsTaken ==
    ASSUME NEW S, IsFiniteSet(S), NEW R, TotalOrder(R, S)
    PROVE  /\ \A x \in S : Cardinality(Below(R, S, x)) + 1 \in 1..Cardinality(S)
           /\ \A i \in 1..Cardinality(S) : \E x \in S : Cardinality(Below(R, S, x)) = i - 1
           /\ \A x, y \in S : Cardinality(Below(R, S, x)) = Cardinality(Below(R, S, y)) => x = y
<1>. DEFINE n == Cardinality(S)
            rank == [x \in S |-> Cardinality(Below(R, S, x)) + 1]
<1>1. n \in Nat
  BY FS_CardinalityType
<1>2. ASSUME NEW x \in S PROVE Cardinality(Below(R, S, x)) \in Nat /\ Cardinality(Below(R, S, x)) + 1 \in 1..n
  <2>. DEFINE T == S \ {x}
              B == Below(R, S, x)
  <2>1. IsFiniteSet(T) /\ Cardinality(T) = n - 1
    BY FS_RemoveElement
  <2>2. B \subseteq T
    BY DEF Below, TotalOrder
  <2>. HIDE DEF B, T
  <2>3. IsFiniteSet(B) /\ Cardinality(B) <= n - 1
    BY <2>1, <2>2, FS_Subset
  <2>4. Cardinality(B) \in Nat
    BY <2>3, FS_CardinalityType
  <2>. HIDE DEF n
  <2>. QED BY <1>1, <2>3, <2>4 DEF B
<1>3. ASSUME NEW x \in S, NEW y \in S, <<x, y>> \in R
      PROVE  Cardinality(Below(R, S, x)) # Cardinality(Below(R, S, y))
  <2>. DEFINE A == Below(R, S, x)
              B == Below(R, S, y)
  <2>1. A \subseteq B /\ x \in B /\ x \notin A
    BY <1>3 DEF Below, TotalOrder
  <2>2. IsFiniteSet(B)
    <3>1. B \subseteq S
      BY DEF Below
    <3>. QED BY <3>1, FS_Subset
  <2>. HIDE DEF A, B
  <2>3. Cardinality(A) # Cardinality(B)
    BY <2>1, <2>2, FS_Subset
  <2>. QED BY <2>3 DEF A, B
<1>4. ASSUME NEW x \in S, NEW y \in S, Cardinality(Below(R, S, x)) = Cardinality(Below(R, S, y))
      PROVE  x = y
  BY <1>3, <1>4 DEF TotalOrder
<1>5. rank \in Injection(S, 1..n)
  <2>. DEFINE c(x) == Cardinality(Below(R, S, x))
  <2>1. \A x \in S : c(x) \in Nat /\ c(x) + 1 \in 1..n
    BY <1>2
  <2>2. \A x, y \in S : c(x) = c(y) => x = y
    BY <1>4
  <2>3. rank = [x \in S |-> c(x) + 1]
    OBVIOUS
  <2>. HIDE DEF c, rank, n
  <2>4. rank \in [S -> 1..n]
    BY <2>1, <2>3
  <2>5. \A x, y \in S : rank[x] = rank[y] => x = y
    <3>1. \A x \in S : rank[x] = c(x) + 1
      BY <2>3
    <3>2. \A x, y \in S : c(x) + 1 = c(y) + 1 => c(x) = c(y)
      BY <2>1
    <3>. QED BY <2>2, <3>1, <3>2
  <2>. QED BY <2>4, <2>5 DEF Injection, IsInjective
<1>6. IsFiniteSet(1..n) /\ Cardinality(1..n) = n
  BY <1>1, FS_Interval
<1>. HIDE DEF rank
<1>7. rank \in Surjection(S, 1..n)
  BY <1>5, <1>6, FS_Injection
<1>8. ASSUME NEW i \in 1..n PROVE \E x \in S : Cardinality(Below(R, S, x)) = i - 1
  <2>1. PICK x \in S : rank[x] = i
    BY <1>7 DEF Surjection
  <2>2. Cardinality(Below(R, S, x)) \in Nat /\ Cardinality(Below(R, S, x)) + 1 = i
    BY <1>2, <2>1 DEF rank
  <2>. HIDE DEF n
  <2>. QED BY <2>2
<1>. QED BY <1>2, <1>4, <1>8

LEMMA ListIs ==
    ASSUME NEW S, NEW n \in Nat, NEW t, t \in [1..n -> S]
    PROVE  t \in Seq(S) /\ Len(t) = n /\ DOMAIN t = 1..n
  OBVIOUS

\* In each place, the element of that rank if there is one.
Ranked(t, R, S) ==
  /\ t = [i \in 1..Cardinality(S) |-> t[i]]
  /\ \A i \in 1..Cardinality(S) :
       (\E x \in S : Cardinality(Below(R, S, x)) = i - 1) =>
          t[i] \in S /\ Cardinality(Below(R, S, t[i])) = i - 1

LEMMA Enumerated ==
    ASSUME NEW S, IsFiniteSet(S), NEW R, TotalOrder(R, S), NEW t, Ranked(t, R, S)
    PROVE  Lists(t, S) /\ ToSet(t) = S
<1>. DEFINE n == Cardinality(S)
            c(x) == Cardinality(Below(R, S, x))
<1>1. n \in Nat
  BY FS_CardinalityType
<1>2. \A i \in 1..n : t[i] \in S /\ c(t[i]) = i - 1
  BY EveryRankIsTaken DEF Ranked
<1>3. \A x \in S : c(x) + 1 \in 1..n
  BY EveryRankIsTaken
<1>4. \A x, y \in S : c(x) = c(y) => x = y
  BY EveryRankIsTaken
<1>5. \A x \in S : c(x) \in Nat
  <2>1. \A x \in S : IsFiniteSet(Below(R, S, x))
    <3>1. \A x \in S : Below(R, S, x) \subseteq S
      BY DEF Below
    <3>. QED BY <3>1, FS_Subset
  <2>. QED BY <2>1, FS_CardinalityType
<1>. HIDE DEF n, c
<1>6. t \in Seq(S) /\ Len(t) = n /\ DOMAIN t = 1..n
  <2>1. t \in [1..n -> S]
    BY <1>2 DEF n, Ranked
  <2>. QED BY <1>1, <2>1, ListIs
<1>7. ASSUME NEW i \in 1..n, NEW j \in 1..n, t[i] = t[j] PROVE i = j
  <2>1. i - 1 = j - 1
    <3>1. c(t[i]) = i - 1 /\ c(t[j]) = j - 1
      BY <1>2
    <3>. QED BY <1>7, <3>1
  <2>. QED BY <1>1, <2>1
<1>8. ASSUME NEW x \in S PROVE x \in ToSet(t)
  <2>. DEFINE i == c(x) + 1
  <2>1. i \in 1..n /\ i - 1 = c(x)
    BY <1>3, <1>5
  <2>2. t[i] \in S /\ c(t[i]) = c(x)
    BY <1>2, <2>1
  <2>3. t[i] = x
    BY <1>4, <2>2
  <2>. QED BY <1>6, <2>1, <2>3 DEF ToSet
<1>9. ToSet(t) \subseteq S
  BY <1>2, <1>6 DEF ToSet
<1>. QED BY <1>6, <1>7, <1>8, <1>9 DEF Lists

-----------------------------------------------------------------------------
(* Finite sets. *)

LEMMA ImageIsFinite ==
    ASSUME NEW S, IsFiniteSet(S), NEW f, DOMAIN f = S, f = [x \in S |-> f[x]]
    PROVE  IsFiniteSet({f[x] : x \in S})
<1>. DEFINE T == {f[x] : x \in S}
<1>1. f \in [S -> T] /\ \A y \in T : \E x \in S : f[x] = y
  <2>1. \A x \in S : f[x] \in T
    OBVIOUS
  <2>2. \A y \in T : \E x \in S : f[x] = y
    OBVIOUS
  <2>. HIDE DEF T
  <2>. QED BY <2>1, <2>2
<1>. HIDE DEF T
<1>2. f \in Surjection(S, T)
  BY <1>1 DEF Surjection
<1>3. IsFiniteSet(T)
  BY <1>2, FS_Surjection
<1>. QED BY <1>3 DEF T

LEMMA GreatestOfFinite ==
    ASSUME NEW S, IsFiniteSet(S), S \subseteq Nat, S # {}
    PROVE  Max(S) \in S
<1>0. PICK n \in Nat : \E f \in [1..n -> S] : \A x \in S : \E i \in 1..n : f[i] = x
  <2>1. PICK n \in Nat : ExistsBijection(1..n, S)
    BY FS_NatBijection
  <2>2. PICK f : f \in Bijection(1..n, S)
    BY <2>1 DEF ExistsBijection
  <2>3. f \in [1..n -> S] /\ \A x \in S : \E i \in 1..n : f[i] = x
    BY <2>2 DEF Bijection, Injection, Surjection
  <2>. QED BY <2>3
<1>1. PICK f \in [1..n -> S] : \A x \in S : \E i \in 1..n : f[i] = x
  BY <1>0
<1>. DEFINE Greatest(j, k) == \A l \in 1..k : f[j] >= f[l]
            T == {k \in 0..n : k = 0 \/ \E j \in 1..k : Greatest(j, k)}
<1>2. \A j \in 1..n : f[j] \in Nat
  OBVIOUS
<1>3. 0 \in T
  OBVIOUS
<1>4. ASSUME NEW k \in 1..n, k - 1 \in T PROVE k \in T
  <2>1. CASE k - 1 = 0
    <3>1. k = 1
      BY <2>1
    <3>2. Greatest(1, k)
      BY <1>2, <3>1
    <3>. QED BY <3>1, <3>2
  <2>2. CASE k - 1 # 0
    <3>1. PICK j \in 1..(k - 1) : Greatest(j, k - 1)
      BY <1>4, <2>2
    <3>2. Greatest(j, k) \/ Greatest(k, k)
      <4>1. \A l \in 1..k : l = k \/ l \in 1..(k - 1)
        OBVIOUS
      <4>2. CASE f[j] >= f[k]
        BY <3>1, <4>1, <4>2
      <4>3. CASE ~ f[j] >= f[k]
        <5>1. f[j] \in Nat /\ f[k] \in Nat /\ f[k] >= f[j]
          BY <1>2, <4>3
        <5>2. ASSUME NEW l \in 1..k PROVE f[k] >= f[l]
          <6>1. f[l] \in Nat
            BY <1>2
          <6>2. CASE l = k
            BY <6>1, <6>2
          <6>3. CASE l # k
            <7>1. f[j] >= f[l]
              BY <3>1, <4>1, <6>3
            <7>. QED BY <5>1, <6>1, <7>1
          <6>. QED BY <6>2, <6>3
        <5>. QED BY <5>2
      <4>. QED BY <4>2, <4>3
    <3>. QED BY <3>2
  <2>. QED BY <2>1, <2>2
<1>5. 0..n \subseteq T
  <2>. HIDE DEF T
  <2>. QED BY <1>3, <1>4, BoundedInduction
<1>6. n \in T /\ n # 0
  <2>1. PICK x \in S : TRUE
    OBVIOUS
  <2>2. PICK i \in 1..n : f[i] = x
    BY <1>1, <2>1
  <2>3. n \in 0..n /\ n # 0
    BY <2>2
  <2>. HIDE DEF T
  <2>. QED BY <1>5, <2>3
<1>7. PICK j \in 1..n : Greatest(j, n)
  BY <1>6
<1>8. f[j] \in S /\ \A y \in S : f[j] >= y
  BY <1>1, <1>7
<1>. QED BY <1>8 DEF Max
=============================================================================
