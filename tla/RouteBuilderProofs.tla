------------------------- MODULE RouteBuilderProofs -------------------------
(***************************************************************************)
(* What the nested builder calls promise of the router they leave, for any *)
(* schemas, calls and depth.  The invariant is local: it says of each open *)
(* builder what its own list holds, so that leaving a block has only to    *)
(* show that two sound lists make a sound one.                             *)
(***************************************************************************)
EXTENDS RouteBuilders, SequenceLemmas

-----------------------------------------------------------------------------
(* The shapes of what a builder keeps. *)

(* Every word the code writes is a string, which the provers do not know.  *)
Words == {Ok, Raw, Always, "", "id", "relationships", "none", "custom", "index", "show", "create", "update",
          "delete", "forbidden", "linkage", "related", "relink", "link", "unlink",
          "GET", "POST", "PUT", "PATCH", "DELETE", "NamedGlob", "MisplacedGlob", "DuplicateParameter",
          "ResourceMiddlewareOnPrimaryRoute", "DuplicateRelationshipSlot", "UnknownRelationship"}
Text == STRING \cup Words
Part == [kind : {"static", "param", "glob"}, name : Text]

Kinds == DOMAIN Schemas \cup {Raw}
SlotPairs == Text \X {"linkage", "related"}
Templates == UNION {[slots -> Seq(Part)] : slots \in SUBSET SlotPairs}
Middlewares == [tier : {"primary", "resource"}, guard : Guards \cup {Always}]
Handlers == [kind : Kinds, operation : Text, relationship : Text]
Marks == [blocks : Seq(Text), readOnly : BOOLEAN, scoped : BOOLEAN]
EntryRecords == [fault : Text, method : Text, path : Seq(Part), middleware : Seq(Middlewares),
                 handler : Handlers, mark : Marks]
Mounts == [kind : DOMAIN Schemas, base : Seq(Part), templates : Templates]

(* The two tiers of a middleware chain: the byte tier's alone, or those    *)
(* and then the boundary in front of the resource tier's.                  *)
AllPrimary(chain) == \A i \in DOMAIN chain : chain[i].tier = "primary" /\ chain[i].guard # Always
BoundaryAt(chain, b) ==
    /\ chain[b] = Boundary
    /\ \A i \in 1..(b - 1) : chain[i].tier = "primary" /\ chain[i].guard # Always
    /\ \A i \in (b + 1)..Len(chain) : chain[i].tier = "resource" /\ chain[i].guard # Always
Tiered(chain, kind) ==
    IF kind = Raw THEN AllPrimary(chain) ELSE \E b \in DOMAIN chain : BoundaryAt(chain, b)

Endpoints == {"linkage", "related"}
GoodEntries ==
    {e \in EntryRecords :
        /\ Guarding(e.middleware) = e.mark.blocks
        /\ Tiered(e.middleware, e.handler.kind)
        /\ e.handler.operation \in Endpoints => e.method = "GET"
        /\ e.handler.kind = Raw => e.handler.operation \notin Writes}

Builders == [tier : {"primary", "resource", "member"},
             opened : {"root", "scope", "middleware", "resource", "member"},
             guard : Guards \cup {Always}, path : Seq(Part), middleware : Seq(Middlewares),
             schema : Kinds, readOnly : BOOLEAN, routes : Seq(GoodEntries), mounts : Seq(Mounts),
             claimed : SUBSET SlotPairs, templates : Templates]

-----------------------------------------------------------------------------
(* What a builder's list holds. *)

IsEndpoint(e, kind, slot) ==
    /\ e.handler = [kind |-> kind, operation |-> slot[2], relationship |-> slot[1]]
    /\ ~e.mark.scoped
FirstEndpoint(entries, kind, slot, j) ==
    /\ j \in DOMAIN entries /\ IsEndpoint(entries[j], kind, slot)
    /\ \A i \in 1..(j - 1) : ~IsEndpoint(entries[i], kind, slot)

(* The templates of a kind lead to the first endpoint of each slot that has *)
(* one outside a scope, and to nothing else.                               *)
SlotLinked(entries, kind, templates, slot) ==
    IF slot \in DOMAIN templates
    THEN \E j \in DOMAIN entries :
            FirstEndpoint(entries, kind, slot, j) /\ templates[slot] = entries[j].path
    ELSE \A j \in DOMAIN entries : ~IsEndpoint(entries[j], kind, slot)
Linked(entries, kind, templates) ==
    \A slot \in SlotPairs : SlotLinked(entries, kind, templates, slot)

(* Every entry of `kind` was declared read-only as `readOnly` says. *)
Declaring(kind, readOnly) ==
    {e \in GoodEntries : e.handler.kind = kind =>
        e.mark.readOnly = readOnly /\ (readOnly => e.handler.operation \notin Writes)}
Without(kind) == {e \in GoodEntries : e.handler.kind # kind}

(* A kind mounted once in a list is linked and read-only as its mount is,  *)
(* one not mounted has nothing there, and one mounted twice is refused.    *)
MountedAt(mounts, kind) == {i \in DOMAIN mounts : mounts[i].kind = kind}
KindSound(entries, mounts, kind) ==
    /\ MountedAt(mounts, kind) = {} => entries \in Seq(Without(kind))
    /\ \A i \in DOMAIN mounts : MountedAt(mounts, kind) = {i} =>
          /\ Linked(entries, kind, mounts[i].templates)
          /\ \E readOnly \in BOOLEAN : entries \in Seq(Declaring(kind, readOnly))

(* The entries a builder of the resource tier may hold. *)
EntriesOf(builder, scoped) ==
    {e \in GoodEntries :
        /\ e.handler.kind = builder.schema
        /\ e.mark.readOnly = builder.readOnly
        /\ builder.readOnly => e.handler.operation \notin Writes
        /\ scoped => e.mark.scoped
        /\ builder.tier = "member" => e.handler.operation = "custom"}

Sound(builder, scoped) ==
    /\ builder \in Builders
    /\ builder.tier = "primary" <=> builder.schema = Raw
    /\ builder.claimed = DOMAIN builder.templates
    /\ Tiered(builder.middleware, builder.schema)
    /\ builder.tier = "primary" =>
          /\ ~builder.readOnly
          /\ \A kind \in DOMAIN Schemas : KindSound(builder.routes, builder.mounts, kind)
    /\ builder.tier # "primary" =>
          /\ builder.mounts = <<>>
          /\ builder.routes \in Seq(EntriesOf(builder, scoped))
    /\ builder.tier = "resource" /\ ~scoped => Linked(builder.routes, builder.schema, builder.templates)

-----------------------------------------------------------------------------
(* How the open builders nest. *)

Inherits(child, parent) == child.schema = parent.schema /\ child.readOnly = parent.readOnly
Nested(parent, child) ==
    \/ child.opened \in {"scope", "middleware"} /\ child.tier = parent.tier /\ Inherits(child, parent)
    \/ child.opened = "member" /\ child.tier = "member" /\ parent.tier = "resource" /\ Inherits(child, parent)
    \/ child.opened = "resource" /\ child.tier = "resource" /\ parent.tier = "primary"

ScopedAt(s, n) == \E j \in 1..n : s[j].tier = "resource" /\ s[j].opened = "scope"
ReadOnlyAt(s, n) == \E j \in 1..n : s[j].opened = "resource" /\ s[j].readOnly

Placed(s, n) ==
    /\ n = 1 => s[1].opened = "root" /\ s[1].tier = "primary"
    /\ n # 1 => Nested(s[n - 1], s[n])
    /\ s[n].tier = "primary" => \A j \in 1..n : s[j].tier = "primary"
    /\ Sound(s[n], ScopedAt(s, n))
    /\ Guarding(s[n].middleware) = Guarding(SubSeq(s, 1, n))
    /\ s[n].readOnly = ReadOnlyAt(s, n)
Stacked(s) == s \in Seq(Builders) /\ Len(s) \in 1..MaxDepth /\ \A n \in 1..Len(s) : Placed(s, n)

(* What the router kept of the outermost builder when it was resolved.     *)
ServesTheRoot ==
    LET root == stack[1]
    IN /\ Len(stack) = 1 /\ routes = root.routes
       /\ DOMAIN table = {root.mounts[i].kind : i \in DOMAIN root.mounts}
       /\ \A i \in DOMAIN root.mounts :
             table[root.mounts[i].kind] = root.mounts[i] /\ MountedAt(root.mounts, root.mounts[i].kind) = {i}

IInv ==
    /\ Stacked(stack)
    /\ calls \in 0..MaxCalls
    /\ router.state \in {"building", "refused", "serving"}
    /\ Building => router = [state |-> "building", fault |-> Ok]
    /\ ~IsServing => routes = <<>> /\ table = <<>>
    /\ IsServing => ServesTheRoot

-----------------------------------------------------------------------------
(* The guards of a chain, or of the open builders, in order. *)

GuardedBy(s) == Len(s) \in Nat /\ \A i \in 1..Len(s) : s[i].guard \in Text
Guards1(guards, x) == IF x.guard = Always THEN guards ELSE Append(guards, x.guard)
GuardsUpTo(s, f) == f[0] = <<>> /\ \A i \in 1..Len(s) : f[i] = Guards1(f[i - 1], s[i])

LEMMA GuardsUpToExist ==
    ASSUME NEW s, GuardedBy(s)
    PROVE  \E f \in [0..Len(s) -> Seq(Text)] : GuardsUpTo(s, f)
<1>. DEFINE n == Len(s)
            V == Seq(Text)
            none == <<>>
            step == [i \in 1..n |-> [v \in V |-> Guards1(v, s[i])]]
<1>1. n \in Nat /\ none \in V
  BY DEF GuardedBy
<1>2. step \in [1..n -> [V -> V]]
  <2>1. ASSUME NEW i \in 1..n, NEW v \in V PROVE Guards1(v, s[i]) \in V
    <3>1. s[i].guard \in Text /\ v \in Seq(Text)
      BY DEF GuardedBy
    <3>2. Append(v, s[i].guard) \in Seq(Text)
      BY <3>1, AppendProperties
    <3>. QED BY <3>1, <3>2 DEF Guards1
  <2>. QED BY <2>1
<1>3. PICK f \in [0..n -> V] : Unfolds(f, n, none, step)
  <2>. HIDE DEF step, n, V, none
  <2>. QED BY <1>1, <1>2, Recursion
<1>4. ASSUME NEW i \in 1..n PROVE f[i] = Guards1(f[i - 1], s[i])
  <2>1. i - 1 \in 0..n
    BY <1>1
  <2>2. f[i - 1] \in V
    BY <1>3, <2>1
  <2>. QED BY <1>3, <2>2 DEF Unfolds
<1>. QED BY <1>3, <1>4 DEF GuardsUpTo, Unfolds

LEMMA GuardingUnfolds ==
    ASSUME NEW s, GuardedBy(s)
    PROVE  \E g : GuardsUpTo(s, g) /\ Guarding(s) = g[Len(s)]
<1>. DEFINE n == Len(s)
            G(h, i) == IF i = 0 THEN <<>> ELSE Guards1(h[i - 1], s[i])
            g == CHOOSE h : h = [i \in 0..n |-> G(h, i)]
<1>1. PICK f \in [0..n -> Seq(Text)] : GuardsUpTo(s, f)
  BY GuardsUpToExist
<1>2. f = [i \in 0..n |-> G(f, i)]
  <2>1. ASSUME NEW i \in 0..n PROVE f[i] = G(f, i)
    <3>1. CASE i = 0
      BY <1>1, <3>1 DEF GuardsUpTo
    <3>2. CASE i # 0
      <4>1. i \in 1..n
        BY <3>2 DEF GuardedBy
      <4>. QED BY <1>1, <3>2, <4>1 DEF GuardsUpTo
    <3>. QED BY <3>1, <3>2
  <2>. HIDE DEF G
  <2>. QED BY <2>1
<1>3. g = [i \in 0..n |-> G(g, i)]
  <2>. HIDE DEF G
  <2>. QED BY <1>2
<1>4. Guarding(s) = g[n]
  BY DEF Guarding, Guards1
<1>. HIDE DEF g
<1>5. ASSUME NEW i \in 0..n PROVE g[i] = G(g, i)
  <2>. HIDE DEF G
  <2>. QED BY <1>3
<1>6. g[0] = <<>>
  <2>1. 0 \in 0..n
    BY DEF GuardedBy
  <2>. QED BY <1>5, <2>1
<1>7. ASSUME NEW i \in 1..n PROVE g[i] = Guards1(g[i - 1], s[i])
  <2>1. i \in 0..n /\ i # 0
    BY DEF GuardedBy
  <2>. QED BY <1>5, <2>1
<1>. QED BY <1>4, <1>6, <1>7 DEF GuardsUpTo

SameGuards(n, s, t) == \A i \in 1..n : s[i].guard = t[i].guard

LEMMA GuardsAgree ==
    ASSUME NEW s, NEW t, NEW f, NEW g, NEW n \in Nat, GuardedBy(s), GuardedBy(t),
           n <= Len(s), n <= Len(t), SameGuards(n, s, t), GuardsUpTo(s, f), GuardsUpTo(t, g)
    PROVE  f[n] = g[n]
<1>. DEFINE S == {i \in 0..n : f[i] = g[i]}
<1>1. 0 \in S
  BY DEF GuardsUpTo
<1>2. ASSUME NEW i \in 1..n, i - 1 \in S PROVE i \in S
  <2>1. i \in 1..Len(s) /\ i \in 1..Len(t) /\ i \in 0..n
    BY DEF GuardedBy
  <2>2. f[i] = Guards1(f[i - 1], s[i]) /\ g[i] = Guards1(g[i - 1], t[i])
    BY <2>1 DEF GuardsUpTo
  <2>. QED BY <1>2, <2>1, <2>2 DEF SameGuards, Guards1
<1>. HIDE DEF S
<1>3. 0..n \subseteq S
  BY <1>1, <1>2, BoundedInduction
<1>4. n \in 0..n
  OBVIOUS
<1>. QED BY <1>3, <1>4 DEF S

\* The guards of two sequences that carry the same guards are the same.
LEMMA GuardingSame ==
    ASSUME NEW s, NEW t, GuardedBy(s), Len(t) = Len(s), SameGuards(Len(s), s, t)
    PROVE  Guarding(s) = Guarding(t)
<1>1. GuardedBy(t)
  BY DEF GuardedBy, SameGuards
<1>2. PICK f : GuardsUpTo(s, f) /\ Guarding(s) = f[Len(s)]
  BY GuardingUnfolds
<1>3. PICK g : GuardsUpTo(t, g) /\ Guarding(t) = g[Len(t)]
  BY <1>1, GuardingUnfolds
<1>4. f[Len(s)] = g[Len(s)]
  <2>1. Len(s) \in Nat /\ Len(s) <= Len(s) /\ Len(s) <= Len(t)
    BY DEF GuardedBy
  <2>. QED BY <1>1, <1>2, <1>3, <2>1, GuardsAgree
<1>. QED BY <1>2, <1>3, <1>4

LEMMA GuardingTyped ==
    ASSUME NEW s, GuardedBy(s)
    PROVE  Guarding(s) \in Seq(Text)
<1>1. PICK f \in [0..Len(s) -> Seq(Text)] : GuardsUpTo(s, f)
  BY GuardsUpToExist
<1>2. PICK g : GuardsUpTo(s, g) /\ Guarding(s) = g[Len(s)]
  BY GuardingUnfolds
<1>3. Len(s) \in Nat /\ Len(s) <= Len(s) /\ Len(s) \in 0..Len(s) /\ SameGuards(Len(s), s, s)
  BY DEF GuardedBy, SameGuards
<1>4. f[Len(s)] = g[Len(s)]
  BY <1>1, <1>2, <1>3, GuardsAgree
<1>. QED BY <1>1, <1>2, <1>3, <1>4

\* One more of them adds its guard, unless that is the one that admits all.
LEMMA GuardingOneMore ==
    ASSUME NEW s, NEW t, GuardedBy(s), GuardedBy(t), Len(t) = Len(s) + 1, SameGuards(Len(s), s, t)
    PROVE  Guarding(t) = Guards1(Guarding(s), t[Len(t)])
<1>. DEFINE n == Len(s)
<1>1. PICK f : GuardsUpTo(s, f) /\ Guarding(s) = f[n]
  BY GuardingUnfolds
<1>2. PICK g : GuardsUpTo(t, g) /\ Guarding(t) = g[n + 1]
  BY GuardingUnfolds
<1>3. f[n] = g[n]
  <2>1. n \in Nat /\ n <= Len(s) /\ n <= Len(t)
    BY DEF GuardedBy
  <2>. QED BY <1>1, <1>2, <2>1, GuardsAgree
<1>4. g[n + 1] = Guards1(g[n], t[n + 1])
  <2>1. n + 1 \in 1..Len(t) /\ (n + 1) - 1 = n
    BY DEF GuardedBy
  <2>. QED BY <1>2, <2>1 DEF GuardsUpTo
<1>. QED BY <1>1, <1>2, <1>3, <1>4

LEMMA GuardingNone == Guarding(<<>>) = <<>>
<1>1. GuardedBy(<<>>)
  BY DEF GuardedBy
<1>2. PICK g : GuardsUpTo(<<>>, g) /\ Guarding(<<>>) = g[Len(<<>>)]
  BY <1>1, GuardingUnfolds
<1>. QED BY <1>2 DEF GuardsUpTo

-----------------------------------------------------------------------------
(* Links of two lists, one behind the other. *)

LEMMA SplitConcat ==
    ASSUME NEW X, NEW s \in Seq(X), NEW t \in Seq(X)
    PROVE  /\ s \o t \in Seq(X) /\ Len(s \o t) = Len(s) + Len(t)
           /\ Len(s) \in Nat /\ Len(t) \in Nat
           /\ DOMAIN s = 1..Len(s) /\ DOMAIN t = 1..Len(t) /\ DOMAIN (s \o t) = 1..(Len(s) + Len(t))
           /\ \A i \in 1..Len(s) : (s \o t)[i] = s[i]
           /\ \A i \in 1..Len(t) : (s \o t)[Len(s) + i] = t[i]
<1>1. /\ s \o t \in Seq(X) /\ Len(s \o t) = Len(s) + Len(t)
      /\ Len(s) \in Nat /\ Len(t) \in Nat
  BY ConcatProperties
<1>2. DOMAIN (s \o t) = 1..(Len(s) + Len(t)) /\ DOMAIN s = 1..Len(s) /\ DOMAIN t = 1..Len(t)
  BY <1>1
<1>3. \A i \in 1..Len(s) : (s \o t)[i] = s[i]
  BY <1>1, ConcatProperties
<1>4. ASSUME NEW i \in 1..Len(t) PROVE (s \o t)[Len(s) + i] = t[i]
  <2>1. Len(s) + i \in 1..(Len(s) + Len(t)) /\ ~(Len(s) + i <= Len(s)) /\ (Len(s) + i) - Len(s) = i
    BY <1>1
  <2>. QED BY <2>1, ConcatProperties
<1>. QED BY <1>1, <1>2, <1>3, <1>4

Joins(V, T, U) ==
    /\ DOMAIN V = DOMAIN T \cup DOMAIN U
    /\ \A slot \in DOMAIN T : V[slot] = T[slot]
    /\ \A slot \in DOMAIN U : slot \notin DOMAIN T => V[slot] = U[slot]

LEMMA LinkedConcat ==
    ASSUME NEW X, NEW s \in Seq(X), NEW t \in Seq(X), NEW kind, NEW T, NEW U, NEW V,
           Linked(s, kind, T), Linked(t, kind, U), Joins(V, T, U)
    PROVE  Linked(s \o t, kind, V)
<1>. DEFINE st == s \o t
            n == Len(s)
            m == Len(t)
<1>. SUFFICES ASSUME NEW slot \in SlotPairs PROVE SlotLinked(st, kind, V, slot)
  BY DEF Linked
<1>1. /\ n \in Nat /\ m \in Nat /\ DOMAIN s = 1..n /\ DOMAIN t = 1..m /\ DOMAIN st = 1..(n + m)
      /\ \A i \in 1..n : st[i] = s[i]
      /\ \A i \in 1..m : st[n + i] = t[i]
  BY SplitConcat
<1>. DEFINE E(e) == IsEndpoint(e, kind, slot)
<1>2. SlotLinked(s, kind, T, slot) /\ SlotLinked(t, kind, U, slot)
  BY DEF Linked
<1>. HIDE DEF st, n, m
<1>3. CASE slot \in DOMAIN T
  <2>1. PICK j \in 1..n : FirstEndpoint(s, kind, slot, j) /\ T[slot] = s[j].path
    BY <1>1, <1>2, <1>3 DEF SlotLinked
  <2>2. j \in 1..(n + m) /\ st[j] = s[j] /\ \A i \in 1..(j - 1) : st[i] = s[i]
    BY <1>1
  <2>3. FirstEndpoint(st, kind, slot, j) /\ V[slot] = st[j].path /\ slot \in DOMAIN V
    BY <1>1, <1>3, <2>1, <2>2 DEF FirstEndpoint, Joins
  <2>. QED BY <1>1, <2>2, <2>3 DEF SlotLinked
<1>4. CASE slot \notin DOMAIN T /\ slot \in DOMAIN U
  <2>1. PICK j \in 1..m : FirstEndpoint(t, kind, slot, j) /\ U[slot] = t[j].path
    BY <1>1, <1>2, <1>4 DEF SlotLinked
  <2>2. \A i \in 1..n : ~E(st[i])
    BY <1>1, <1>2, <1>4 DEF SlotLinked
  <2>3. n + j \in 1..(n + m) /\ st[n + j] = t[j]
    BY <1>1
  <2>4. ASSUME NEW i \in 1..((n + j) - 1) PROVE ~E(st[i])
    <3>1. CASE i \in 1..n
      BY <2>2, <3>1
    <3>2. CASE i \notin 1..n
      <4>1. i - n \in 1..(j - 1) /\ i - n \in 1..m /\ n + (i - n) = i
        BY <1>1, <3>2
      <4>2. st[i] = t[i - n]
        BY <1>1, <4>1
      <4>. QED BY <2>1, <4>1, <4>2 DEF FirstEndpoint
    <3>. QED BY <3>1, <3>2
  <2>5. FirstEndpoint(st, kind, slot, n + j) /\ V[slot] = st[n + j].path /\ slot \in DOMAIN V
    BY <1>1, <1>4, <2>1, <2>3, <2>4 DEF FirstEndpoint, Joins
  <2>. QED BY <1>1, <2>3, <2>5 DEF SlotLinked
<1>5. CASE slot \notin DOMAIN T /\ slot \notin DOMAIN U
  <2>1. ASSUME NEW i \in 1..(n + m) PROVE ~E(st[i])
    <3>1. CASE i \in 1..n
      BY <1>1, <1>2, <1>5, <3>1 DEF SlotLinked
    <3>2. CASE i \notin 1..n
      <4>1. i - n \in 1..m /\ n + (i - n) = i
        BY <1>1, <3>2
      <4>2. st[i] = t[i - n]
        BY <1>1, <4>1
      <4>. QED BY <1>1, <1>2, <1>5, <4>1, <4>2 DEF SlotLinked
    <3>. QED BY <3>1, <3>2
  <2>2. slot \notin DOMAIN V
    BY <1>5 DEF Joins
  <2>. QED BY <1>1, <2>1, <2>2 DEF SlotLinked
<1>. QED BY <1>3, <1>4, <1>5

NoEndpoint(e, kind) == \A slot \in SlotPairs : ~IsEndpoint(e, kind, slot)

LEMMA LinkedNone ==
    ASSUME NEW s, NEW kind, \A i \in DOMAIN s : NoEndpoint(s[i], kind)
    PROVE  Linked(s, kind, <<>>)
<1>1. DOMAIN <<>> = {}
  OBVIOUS
<1>. QED BY <1>1 DEF Linked, SlotLinked, NoEndpoint

\* Only a linkage or a related endpoint of the kind outside a scope is one.
LEMMA NotAnEndpoint ==
    ASSUME NEW e, NEW kind,
           e.handler.kind # kind \/ e.handler.operation \notin Endpoints \/ e.mark.scoped
    PROVE  NoEndpoint(e, kind)
<1>. SUFFICES ASSUME NEW slot \in SlotPairs, IsEndpoint(e, kind, slot) PROVE FALSE
  BY DEF NoEndpoint
<1>1. slot[2] \in Endpoints
  BY DEF SlotPairs, Endpoints
<1>. QED BY <1>1 DEF IsEndpoint

-----------------------------------------------------------------------------
(* Two sound lists of a primary builder make a sound one. *)

LEMMA KindConcat ==
    ASSUME NEW s \in Seq(GoodEntries), NEW t \in Seq(GoodEntries),
           NEW ms \in Seq(Mounts), NEW mt \in Seq(Mounts), NEW kind \in DOMAIN Schemas,
           KindSound(s, ms, kind), KindSound(t, mt, kind)
    PROVE  KindSound(s \o t, ms \o mt, kind)
<1>. DEFINE st == s \o t
            m == ms \o mt
            n == Len(ms)
<1>1. /\ n \in Nat /\ Len(mt) \in Nat /\ DOMAIN ms = 1..n /\ DOMAIN mt = 1..Len(mt)
      /\ DOMAIN m = 1..(n + Len(mt))
      /\ \A i \in 1..n : m[i] = ms[i]
      /\ \A i \in 1..Len(mt) : m[n + i] = mt[i]
  BY SplitConcat
<1>. HIDE DEF m, n
<1>2. \A i \in 1..n : i \in MountedAt(m, kind) <=> i \in MountedAt(ms, kind)
  BY <1>1 DEF MountedAt
<1>3. \A i \in 1..Len(mt) : n + i \in MountedAt(m, kind) <=> i \in MountedAt(mt, kind)
  BY <1>1 DEF MountedAt
<1>4. MountedAt(ms, kind) \subseteq 1..n /\ MountedAt(mt, kind) \subseteq 1..Len(mt)
  BY <1>1 DEF MountedAt
<1>5. \A i \in MountedAt(m, kind) : i \in 1..n \/ (i - n \in 1..Len(mt) /\ n + (i - n) = i)
  BY <1>1 DEF MountedAt
<1>6. ASSUME MountedAt(m, kind) = {} PROVE st \in Seq(Without(kind))
  <2>1. MountedAt(ms, kind) = {} /\ MountedAt(mt, kind) = {}
    BY <1>2, <1>3, <1>4, <1>6
  <2>2. s \in Seq(Without(kind)) /\ t \in Seq(Without(kind))
    BY <2>1 DEF KindSound
  <2>. QED BY <2>2, ConcatProperties
<1>7. ASSUME NEW i \in DOMAIN m, MountedAt(m, kind) = {i}
      PROVE  /\ Linked(st, kind, m[i].templates)
             /\ \E readOnly \in BOOLEAN : st \in Seq(Declaring(kind, readOnly))
  <2>0. \A readOnly \in BOOLEAN : Without(kind) \subseteq Declaring(kind, readOnly)
    BY DEF Without, Declaring
  <2>1. CASE i \in 1..n
    <3>1. MountedAt(ms, kind) = {i} /\ MountedAt(mt, kind) = {}
      <4>1. \A k \in MountedAt(ms, kind) : k = i
        BY <1>2, <1>4, <1>7
      <4>2. \A k \in MountedAt(mt, kind) : n + k = i /\ k \in 1..Len(mt)
        BY <1>3, <1>4, <1>7
      <4>3. \A k \in 1..Len(mt) : n + k # i
        BY <1>1, <2>1
      <4>. QED BY <1>2, <1>7, <2>1, <4>1, <4>2, <4>3
    <3>2. m[i] = ms[i] /\ i \in DOMAIN ms
      BY <1>1, <2>1
    <3>3. Linked(s, kind, m[i].templates) /\ t \in Seq(Without(kind))
      BY <3>1, <3>2 DEF KindSound
    <3>4. Linked(t, kind, <<>>)
      <4>1. \A k \in DOMAIN t : t[k].handler.kind # kind
        BY <3>3 DEF Without
      <4>. QED BY <4>1, NotAnEndpoint, LinkedNone
    <3>5. Joins(m[i].templates, m[i].templates, <<>>)
      BY DEF Joins
    <3>6. PICK readOnly \in BOOLEAN : s \in Seq(Declaring(kind, readOnly))
      BY <3>1, <3>2 DEF KindSound
    <3>7. t \in Seq(Declaring(kind, readOnly))
      BY <2>0, <3>3, SeqMonotonic
    <3>8. st \in Seq(Declaring(kind, readOnly))
      BY <3>6, <3>7, ConcatProperties
    <3>. QED BY <3>3, <3>4, <3>5, <3>8, LinkedConcat
  <2>2. CASE i \notin 1..n
    <3>. DEFINE k == i - n
    <3>1. k \in 1..Len(mt) /\ n + k = i
      BY <1>5, <1>7, <2>2
    <3>. HIDE DEF k
    <3>2. MountedAt(mt, kind) = {k} /\ MountedAt(ms, kind) = {}
      <4>1. \A j \in MountedAt(mt, kind) : n + j = n + k /\ j \in Nat
        BY <1>3, <1>4, <1>7, <3>1
      <4>2. \A j \in MountedAt(mt, kind) : j = k
        BY <1>1, <3>1, <4>1
      <4>3. \A j \in MountedAt(ms, kind) : j = i
        BY <1>2, <1>4, <1>7
      <4>. QED BY <1>3, <1>4, <1>7, <2>2, <3>1, <4>2, <4>3
    <3>3. m[i] = mt[k] /\ k \in DOMAIN mt
      BY <1>1, <3>1
    <3>4. Linked(t, kind, m[i].templates) /\ s \in Seq(Without(kind))
      BY <3>2, <3>3 DEF KindSound
    <3>5. Linked(s, kind, <<>>)
      <4>1. \A j \in DOMAIN s : s[j].handler.kind # kind
        BY <3>4 DEF Without
      <4>. QED BY <4>1, NotAnEndpoint, LinkedNone
    <3>6. Joins(m[i].templates, <<>>, m[i].templates)
      BY DEF Joins
    <3>7. PICK readOnly \in BOOLEAN : t \in Seq(Declaring(kind, readOnly))
      BY <3>2, <3>3 DEF KindSound
    <3>8. s \in Seq(Declaring(kind, readOnly))
      BY <2>0, <3>4, SeqMonotonic
    <3>9. st \in Seq(Declaring(kind, readOnly))
      BY <3>7, <3>8, ConcatProperties
    <3>. QED BY <3>4, <3>5, <3>6, <3>9, LinkedConcat
  <2>. QED BY <2>1, <2>2
<1>. QED BY <1>6, <1>7 DEF KindSound, m

-----------------------------------------------------------------------------
(* What one call mounts. *)

LEMMA CallsTyped ==
    /\ Methods \subseteq Text /\ Guards \subseteq Text /\ Always \in Text /\ Always \notin Guards
    /\ Leaves \subseteq Seq(Part) /\ Segments \subseteq Seq(Part)
    /\ Raw \notin DOMAIN Schemas
    /\ \A kind \in DOMAIN Schemas : Schemas[kind] \in Seq([name : Text, kind : Text])
    /\ Configs \subseteq [readOnly : BOOLEAN, segment : Text, keyword : Text]
    /\ Resources \subseteq [kind : DOMAIN Schemas, segments : Seq(Part), readOnly : BOOLEAN]
<1>1. STRING \subseteq Text /\ Always \in Text
  BY DEF Text, Words
<1>2. Segment \subseteq Part
  BY <1>1 DEF Segment, Part
<1>3. Seq(Segment) \subseteq Seq(Part)
  BY <1>2, SeqMonotonic
<1>4. [name : STRING, kind : STRING] \subseteq [name : Text, kind : Text]
  BY <1>1
<1>5. Seq([name : STRING, kind : STRING]) \subseteq Seq([name : Text, kind : Text])
  BY <1>4, SeqMonotonic
<1>6. \A kind \in DOMAIN Schemas : Schemas[kind] \in Seq([name : Text, kind : Text])
  BY <1>5, CallsAssumption
<1>7. Configs \subseteq [readOnly : BOOLEAN, segment : Text, keyword : Text]
  BY <1>1, CallsAssumption
<1>8. Resources \subseteq [kind : DOMAIN Schemas, segments : Seq(Part), readOnly : BOOLEAN]
  BY <1>3, CallsAssumption
<1>9. Methods \subseteq Text /\ Guards \subseteq Text /\ Always \notin Guards /\ Raw \notin DOMAIN Schemas
  BY <1>1, CallsAssumption
<1>10. Leaves \subseteq Seq(Part) /\ Segments \subseteq Seq(Part)
  BY <1>3, CallsAssumption
<1>. QED BY <1>1, <1>6, <1>7, <1>8, <1>9, <1>10

LEMMA SegmentsTyped ==
    /\ \A name \in Text : Param(name) \in Part /\ Static(name) \in Part
    /\ \A name, default \in Text : Relocated(name, default) \in Part
<1>1. \A name \in Text : Param(name) \in Part /\ Static(name) \in Part
  BY DEF Part, Param, Static
<1>2. \A name, default \in Text : Relocated(name, default) \in Part
  BY <1>1 DEF Relocated
<1>. QED BY <1>1, <1>2

LEMMA MountFaultTyped ==
    ASSUME NEW path, NEW middleware, NEW handler
    PROVE  MountFault(path, middleware, handler) \in Text
<1>1. MountFault(path, middleware, handler) \in
         {"NamedGlob", "MisplacedGlob", "DuplicateParameter", "ResourceMiddlewareOnPrimaryRoute", Ok}
  BY Zenon DEF MountFault
<1>2. {"NamedGlob", "MisplacedGlob", "DuplicateParameter", "ResourceMiddlewareOnPrimaryRoute", Ok}
         \subseteq Text
  BY DEF Text, Words
<1>. QED BY <1>1, <1>2

\* The builders a call may leave of `b`: its list longer, the rest as it was.
Keeps(x, b) ==
    /\ x.tier = b.tier /\ x.opened = b.opened /\ x.guard = b.guard /\ x.path = b.path
    /\ x.middleware = b.middleware /\ x.schema = b.schema /\ x.readOnly = b.readOnly
Lengthens(x, b) == \E entries \in Seq(GoodEntries) : x.routes = b.routes \o entries
Grown(b, scoped) == {x \in Builders : Sound(x, scoped) /\ Keeps(x, b) /\ x.mounts = b.mounts /\ Lengthens(x, b)}

(* Where a call is made: the innermost of soundly stacked builders.        *)
Depth == Len(stack)
Scoping == ScopedAt(stack, Depth)

LEMMA TopIs ==
    ASSUME Stacked(stack)
    PROVE  /\ Depth \in Nat /\ Depth \in 1..Len(stack) /\ Depth \in 1..MaxDepth
           /\ Top = stack[Depth] /\ Top \in Builders /\ Sound(Top, Scoping)
           /\ Mark = [blocks |-> Guarding(Top.middleware), readOnly |-> Top.readOnly, scoped |-> Scoping]
           /\ Scoping \in BOOLEAN
<1>1. stack \in Seq(Builders) /\ Len(stack) \in 1..MaxDepth /\ MaxDepth \in Nat
  BY CallsAssumption DEF Stacked
<1>2. Depth \in Nat /\ Depth \in 1..Len(stack) /\ Depth \in 1..MaxDepth
  BY <1>1 DEF Depth
<1>3. Top = stack[Depth] /\ Top \in Builders
  BY <1>1, <1>2 DEF Top, Depth, Last
<1>4. Sound(Top, Scoping)
  BY <1>2, <1>3 DEF Stacked, Placed, Scoping
<1>5. Guarding(Top.middleware) = OpenGuards
  <2>1. SubSeq(stack, 1, Depth) = stack
    BY <1>1 DEF Depth
  <2>2. Guarding(Top.middleware) = Guarding(SubSeq(stack, 1, Depth))
    BY <1>2, <1>3 DEF Stacked, Placed
  <2>. QED BY <2>1, <2>2 DEF OpenGuards
<1>6. DOMAIN stack = 1..Depth
  BY <1>1 DEF Depth
<1>7. Top.readOnly = (\E i \in DOMAIN stack : stack[i].opened = "resource" /\ stack[i].readOnly)
  BY <1>2, <1>3, <1>6 DEF Stacked, Placed, ReadOnlyAt
<1>8. Scoping = InnerScope
  BY <1>6 DEF Scoping, ScopedAt, InnerScope
<1>9. Scoping \in BOOLEAN
  BY DEF Scoping, ScopedAt
<1>. QED BY <1>2, <1>3, <1>4, <1>5, <1>7, <1>8, <1>9 DEF Mark

LEMMA EntryTyped ==
    ASSUME NEW fault \in Text, NEW method \in Text, NEW path \in Seq(Part), NEW middleware \in Seq(Middlewares),
           NEW handler \in Handlers, NEW mark \in Marks
    PROVE  [fault |-> fault, method |-> method, path |-> path, middleware |-> middleware,
            handler |-> handler, mark |-> mark] \in EntryRecords
BY DEF EntryRecords

\* An entry a call mounts is one its builder may hold.
LEMMA MountedEntry ==
    ASSUME Stacked(stack), NEW x \in Grown(Top, Scoping),
           NEW method \in Text, NEW segments \in Seq(Part), NEW operation \in Text,
           NEW relationship \in Text, operation \in Endpoints => method = "GET",
           x.tier # "resource" => operation = "custom",
           x.readOnly => operation \notin Writes
    PROVE  LET e == Mounted(x, method, segments, Handler(x, operation, relationship))
           IN /\ e \in EntriesOf(x, Scoping) /\ e.method = method /\ e.path = x.path \o segments
              /\ e.handler = [kind |-> x.schema, operation |-> operation, relationship |-> relationship]
              /\ e.mark.scoped = Scoping
<1>. DEFINE e == Mounted(x, method, segments, Handler(x, operation, relationship))
<1>1. x \in Builders /\ Sound(x, Scoping) /\ Keeps(x, Top)
  BY DEF Grown
<1>2. x.path \o segments \in Seq(Part)
  BY <1>1, ConcatProperties DEF Builders
<1>3. GuardedBy(x.middleware)
  <2>1. x.middleware \in Seq(Middlewares)
    BY <1>1 DEF Builders
  <2>2. \A m \in Middlewares : m.guard \in Text
    <3>1. Guards \cup {Always} \subseteq Text
      BY CallsTyped
    <3>. QED BY <3>1 DEF Middlewares
  <2>. QED BY <2>1, <2>2 DEF GuardedBy
<1>4. Guarding(x.middleware) \in Seq(Text)
  BY <1>3, GuardingTyped
<1>5. Mark = [blocks |-> Guarding(x.middleware), readOnly |-> x.readOnly, scoped |-> Scoping]
      /\ Scoping \in BOOLEAN
  BY <1>1, TopIs DEF Keeps
<1>6. e = [fault |-> MountFault(x.path \o segments, x.middleware, e.handler),
           method |-> method, path |-> x.path \o segments, middleware |-> x.middleware,
           handler |-> [kind |-> x.schema, operation |-> operation, relationship |-> relationship],
           mark |-> [blocks |-> Guarding(x.middleware), readOnly |-> x.readOnly, scoped |-> Scoping]]
  BY <1>5 DEF Mounted, Handler
<1>7. /\ x.schema \in Kinds /\ x.readOnly \in BOOLEAN /\ x.middleware \in Seq(Middlewares)
      /\ x.tier \in {"primary", "resource", "member"}
  BY <1>1 DEF Builders
<1>. HIDE DEF e
<1>8. e \in EntryRecords
  <2>1. e.fault \in Text
    BY <1>6, MountFaultTyped
  <2>2. e.handler \in Handlers
    BY <1>6, <1>7 DEF Handlers
  <2>3. e.mark \in Marks
    BY <1>4, <1>5, <1>6, <1>7 DEF Marks
  <2>4. e = [fault |-> e.fault, method |-> method, path |-> x.path \o segments,
             middleware |-> x.middleware, handler |-> e.handler, mark |-> e.mark]
    BY <1>6
  <2>5. x.middleware \in Seq(Middlewares)
    BY <1>7
  <2>. QED BY <1>2, <2>1, <2>2, <2>3, <2>4, <2>5, EntryTyped
<1>9. e \in GoodEntries
  <2>1. Tiered(e.middleware, e.handler.kind)
    BY <1>1, <1>6 DEF Sound
  <2>2. x.schema = Raw => operation = "custom"
    BY <1>1 DEF Sound
  <2>3. "custom" \notin Writes
    BY DEF Writes
  <2>. QED BY <1>6, <1>8, <2>1, <2>2, <2>3 DEF GoodEntries
<1>10. e \in EntriesOf(x, Scoping)
  BY <1>6, <1>9 DEF EntriesOf
<1>. QED BY <1>6, <1>10 DEF e

\* The templates of two lists, one behind the other, are those of the first
\* where it has one.
LEMMA OverJoins ==
    ASSUME NEW T \in Templates, NEW U \in Templates
    PROVE  Over(T, U) \in Templates /\ Joins(Over(T, U), T, U) /\ Joins(T, T, <<>>) /\ Joins(T, <<>>, T)
<1>1. DOMAIN T \in SUBSET SlotPairs /\ DOMAIN U \in SUBSET SlotPairs
  BY DEF Templates
<1>2. \A slot \in DOMAIN T : T[slot] \in Seq(Part)
  BY DEF Templates
<1>3. \A slot \in DOMAIN U : U[slot] \in Seq(Part)
  BY DEF Templates
<1>4. Over(T, U) \in [DOMAIN T \cup DOMAIN U -> Seq(Part)]
  BY <1>2, <1>3 DEF Over
<1>5. Over(T, U) \in Templates
  BY <1>1, <1>4 DEF Templates
<1>6. Joins(Over(T, U), T, U)
  BY DEF Over, Joins
<1>7. Joins(T, T, <<>>) /\ Joins(T, <<>>, T)
  BY DEF Joins
<1>. QED BY <1>5, <1>6, <1>7

\* The first of some entries is the one endpoint among them.
Single(slot, path) == [s \in {slot} |-> path]
OnlyTheFirst(es, kind) == \A i \in DOMAIN es : i # 1 => NoEndpoint(es[i], kind)

LEMMA LinkedFirst ==
    ASSUME NEW es, NEW kind, NEW slot \in SlotPairs, NEW path, 1 \in DOMAIN es,
           DOMAIN es \subseteq Nat \ {0},
           IsEndpoint(es[1], kind, slot), es[1].path = path, OnlyTheFirst(es, kind)
    PROVE  Linked(es, kind, Single(slot, path))
<1>. SUFFICES ASSUME NEW other \in SlotPairs PROVE SlotLinked(es, kind, Single(slot, path), other)
  BY DEF Linked
<1>3. DOMAIN Single(slot, path) = {slot} /\ Single(slot, path)[slot] = path
  BY DEF Single
<1>1. CASE other = slot
  <2>1. FirstEndpoint(es, kind, slot, 1)
    BY DEF FirstEndpoint
  <2>. QED BY <1>1, <1>3, <2>1 DEF SlotLinked
<1>2. CASE other # slot
  <2>1. ~IsEndpoint(es[1], kind, other)
    <3>. SUFFICES ASSUME IsEndpoint(es[1], kind, other) PROVE FALSE
      OBVIOUS
    <3>1. other[1] = slot[1] /\ other[2] = slot[2]
      BY DEF IsEndpoint
    <3>. QED BY <1>2, <3>1 DEF SlotPairs
  <2>. QED BY <1>2, <1>3, <2>1 DEF SlotLinked, NoEndpoint, OnlyTheFirst
<1>. QED BY <1>1, <1>2

-----------------------------------------------------------------------------
(* The calls that mount leave a builder that is sound and only longer. *)

LEMMA EntriesAreGood ==
    ASSUME NEW b, NEW scoped
    PROVE  EntriesOf(b, scoped) \subseteq GoodEntries /\ Seq(EntriesOf(b, scoped)) \subseteq Seq(GoodEntries)
<1>1. EntriesOf(b, scoped) \subseteq GoodEntries
  BY DEF EntriesOf
<1>. QED BY <1>1, SeqMonotonic

LEMMA GrownStart ==
    ASSUME Stacked(stack)
    PROVE  Top \in Grown(Top, Scoping)
<1>1. Top \in Builders /\ Sound(Top, Scoping)
  BY TopIs
<1>2. Top.routes \in Seq(GoodEntries)
  BY <1>1 DEF Builders
<1>3. Top.routes = Top.routes \o <<>> /\ <<>> \in Seq(GoodEntries)
  BY <1>2, ConcatEmptySeq
<1>. QED BY <1>1, <1>3 DEF Grown, Keeps, Lengthens

\* The entries of a primary builder are no schema's.
LEMMA PrimaryKinds ==
    ASSUME NEW x, NEW y \in Builders, NEW scoped, NEW es \in Seq(EntriesOf(x, scoped)), x \in Builders,
           Sound(x, scoped), x.tier = "primary", y.routes = x.routes \o es, y.mounts = x.mounts
    PROVE  \A kind \in DOMAIN Schemas : KindSound(y.routes, y.mounts, kind)
<1>. SUFFICES ASSUME NEW kind \in DOMAIN Schemas PROVE KindSound(y.routes, y.mounts, kind)
  OBVIOUS
<1>1. x.schema = Raw /\ KindSound(x.routes, x.mounts, kind)
  BY DEF Sound
<1>2. es \in Seq(Without(kind))
  <2>1. EntriesOf(x, scoped) \subseteq Without(kind)
    BY <1>1, CallsTyped DEF EntriesOf, Without
  <2>. QED BY <2>1, SeqMonotonic
<1>3. KindSound(es, <<>>, kind)
  BY <1>2 DEF KindSound, MountedAt
<1>4. x.mounts \in Seq(Mounts) /\ x.routes \in Seq(GoodEntries) /\ es \in Seq(GoodEntries)
      /\ <<>> \in Seq(Mounts) /\ x.mounts \o <<>> = x.mounts
  BY EntriesAreGood, ConcatEmptySeq DEF Builders
<1>. QED BY <1>1, <1>3, <1>4, KindConcat

\* A builder stays sound with more of the entries it may hold, linked.
LEMMA LongerSound ==
    ASSUME NEW x \in Builders, NEW scoped, Sound(x, scoped), NEW es \in Seq(EntriesOf(x, scoped)),
           NEW y \in Builders, Keeps(y, x), y.mounts = x.mounts, y.routes = x.routes \o es,
           y.claimed = DOMAIN y.templates, NEW U, Joins(y.templates, x.templates, U),
           Linked(es, x.schema, U) \/ scoped \/ x.tier # "resource"
    PROVE  Sound(y, scoped)
<1>1. x.routes \in Seq(GoodEntries) /\ es \in Seq(GoodEntries)
  BY EntriesAreGood DEF Builders
<1>2. y.tier = "primary" => /\ ~y.readOnly
                            /\ \A kind \in DOMAIN Schemas : KindSound(y.routes, y.mounts, kind)
  <2>. SUFFICES ASSUME y.tier = "primary"
                PROVE  ~y.readOnly /\ \A kind \in DOMAIN Schemas : KindSound(y.routes, y.mounts, kind)
    OBVIOUS
  <2>1. x.tier = "primary" /\ ~y.readOnly
    BY DEF Keeps, Sound
  <2>. QED BY <2>1, PrimaryKinds
<1>3. y.tier # "primary" => y.mounts = <<>> /\ y.routes \in Seq(EntriesOf(y, scoped))
  <2>. SUFFICES ASSUME y.tier # "primary"
                PROVE  y.mounts = <<>> /\ y.routes \in Seq(EntriesOf(y, scoped))
    OBVIOUS
  <2>1. x.mounts = <<>> /\ x.routes \in Seq(EntriesOf(x, scoped)) /\ y.mounts = x.mounts
    BY DEF Keeps, Sound
  <2>2. EntriesOf(y, scoped) = EntriesOf(x, scoped)
    BY DEF EntriesOf, Keeps
  <2>. QED BY <2>1, <2>2, ConcatProperties
<1>4. y.tier = "resource" /\ ~scoped => Linked(y.routes, y.schema, y.templates)
  <2>. SUFFICES ASSUME y.tier = "resource", ~scoped PROVE Linked(y.routes, y.schema, y.templates)
    OBVIOUS
  <2>1. Linked(x.routes, x.schema, x.templates) /\ y.schema = x.schema /\ x.tier = "resource"
    BY DEF Keeps, Sound
  <2>. QED BY <1>1, <2>1, LinkedConcat
<1>5. (y.tier = "primary" <=> y.schema = Raw) /\ Tiered(y.middleware, y.schema)
  BY DEF Keeps, Sound
<1>. QED BY <1>2, <1>3, <1>4, <1>5 DEF Sound

LEMMA MountGrows ==
    ASSUME Stacked(stack), NEW x \in Grown(Top, Scoping), NEW es \in Seq(EntriesOf(x, Scoping)),
           NEW y \in Builders, Keeps(y, x), y.mounts = x.mounts, y.routes = x.routes \o es,
           y.claimed = DOMAIN y.templates,
           NEW U, Linked(es, x.schema, U) \/ Scoping, Joins(y.templates, x.templates, U)
    PROVE  y \in Grown(Top, Scoping)
<1>1. x \in Builders /\ Sound(x, Scoping) /\ Keeps(x, Top) /\ x.mounts = Top.mounts /\ Lengthens(x, Top)
  BY DEF Grown
<1>2. Top.routes \in Seq(GoodEntries) /\ es \in Seq(GoodEntries)
  BY <1>1, TopIs, EntriesAreGood DEF Builders
<1>3. Lengthens(y, Top)
  <2>1. PICK entries \in Seq(GoodEntries) : x.routes = Top.routes \o entries
    BY <1>1 DEF Lengthens
  <2>2. y.routes = Top.routes \o (entries \o es) /\ entries \o es \in Seq(GoodEntries)
    <3>. DEFINE r == Top.routes
    <3>1. r \in Seq(GoodEntries)
      BY <1>2
    <3>. HIDE DEF r
    <3>2. (r \o entries) \o es = r \o (entries \o es)
      BY <1>2, <3>1
    <3>3. entries \o es \in Seq(GoodEntries)
      BY <1>2, ConcatProperties
    <3>. QED BY <2>1, <3>2, <3>3 DEF r
  <2>. QED BY <2>2 DEF Lengthens
<1>4. Keeps(y, Top) /\ y.mounts = Top.mounts
  BY <1>1 DEF Keeps
<1>5. Sound(y, Scoping)
  BY <1>1, LongerSound
<1>. QED BY <1>3, <1>4, <1>5 DEF Grown

\* Entries that are no endpoints change no template.
LEMMA PlainMountGrows ==
    ASSUME Stacked(stack), NEW x \in Grown(Top, Scoping), NEW es \in Seq(EntriesOf(x, Scoping)),
           \A i \in DOMAIN es : es[i].handler.operation \notin Endpoints
    PROVE  Mount(x, es) \in Grown(Top, Scoping)
<1>. DEFINE y == Mount(x, es)
<1>1. x \in Builders /\ Sound(x, Scoping)
  BY DEF Grown
<1>2. es \in Seq(GoodEntries) /\ x.routes \in Seq(GoodEntries)
  BY <1>1, EntriesAreGood DEF Builders
<1>3. x.routes \o es \in Seq(GoodEntries)
  BY <1>2, ConcatProperties
<1>4. y \in Builders
  BY <1>1, <1>3 DEF Mount, Builders
<1>5. /\ Keeps(y, x) /\ y.mounts = x.mounts /\ y.routes = x.routes \o es
      /\ y.claimed = x.claimed /\ y.templates = x.templates
  BY <1>1 DEF Mount, Keeps, Builders
<1>6. Linked(es, x.schema, <<>>)
  BY NotAnEndpoint, LinkedNone
<1>7. Joins(y.templates, x.templates, <<>>)
  <2>1. x.templates \in Templates
    BY <1>1 DEF Builders
  <2>. QED BY <1>5, <2>1, OverJoins
<1>8. y.claimed = DOMAIN y.templates
  BY <1>1, <1>5 DEF Sound
<1>. HIDE DEF y
<1>. QED BY <1>4, <1>5, <1>6, <1>7, <1>8, MountGrows DEF y

LEMMA PushErrorGrows ==
    ASSUME Stacked(stack), NEW x \in Grown(Top, Scoping), Top.tier = "resource", NEW fault \in Text
    PROVE  PushError(x, fault) \in Grown(Top, Scoping)
<1>. DEFINE here == <<>>
            e == Mounted(x, "GET", here, Handler(x, "none", "none"))
            f == [e EXCEPT !.fault = fault]
<1>1. x.tier = "resource"
  BY DEF Grown, Keeps
<1>2. /\ e \in EntriesOf(x, Scoping)
      /\ e.handler = [kind |-> x.schema, operation |-> "none", relationship |-> "none"]
  <2>1. "GET" \in Text /\ "none" \in Text
    BY DEF Text, Words
  <2>2. "none" \notin Writes /\ "none" \notin Endpoints
    BY DEF Writes, Endpoints
  <2>3. here \in Seq(Part)
    OBVIOUS
  <2>. HIDE DEF here
  <2>. QED BY <1>1, <2>1, <2>2, <2>3, MountedEntry
<1>. HIDE DEF e
<1>3. f \in EntryRecords
  BY <1>2 DEF EntriesOf, GoodEntries, EntryRecords
<1>4. f \in GoodEntries
  BY <1>2, <1>3 DEF EntriesOf, GoodEntries, EntryRecords
<1>5. f \in EntriesOf(x, Scoping) /\ f.handler = e.handler
  BY <1>2, <1>4 DEF EntriesOf, GoodEntries, EntryRecords
<1>6. PushError(x, fault) = Mount(x, <<f>>)
  BY DEF PushError, e, here
<1>. HIDE DEF f
<1>7. <<f>> \in Seq(EntriesOf(x, Scoping)) /\ \A i \in DOMAIN <<f>> : <<f>>[i].handler.operation \notin Endpoints
  BY <1>2, <1>5 DEF Endpoints
<1>. QED BY <1>6, <1>7, PlainMountGrows

Relationships == [name : Text, kind : Text]
(* A configuration as default_config resolves it for the innermost builder. *)
Resolutions == {c \in [readOnly : BOOLEAN, segment : Text, keyword : Text] : Top.readOnly => c.readOnly}

OthersPlain(es) == \A i \in 2..Len(es) : es[i].handler.operation \notin Endpoints

\* A slot's endpoints, the first the one it is linked to, are claimed once.
LEMMA ClaimGrows ==
    ASSUME Stacked(stack), NEW x \in Grown(Top, Scoping), Top.tier = "resource",
           NEW slot \in SlotPairs, slot \notin x.claimed, NEW path \in Seq(Part),
           NEW es \in Seq(EntriesOf(x, Scoping)), Len(es) \in Nat \ {0}, es[1].path = path,
           es[1].handler = [kind |-> x.schema, operation |-> slot[2], relationship |-> slot[1]],
           es[1].mark.scoped = Scoping,
           OthersPlain(es)
    PROVE  Mount(Claim(x, slot, path), es) \in Grown(Top, Scoping)
<1>. DEFINE y == Mount(Claim(x, slot, path), es)
            U == Single(slot, path)
<1>1. x \in Builders /\ Sound(x, Scoping) /\ x.templates \in Templates
  BY DEF Grown, Builders
<1>2. es \in Seq(GoodEntries) /\ x.routes \in Seq(GoodEntries)
  BY <1>1, EntriesAreGood DEF Builders
<1>3. x.routes \o es \in Seq(GoodEntries)
  BY <1>2, ConcatProperties
<1>4. U \in Templates
  <2>1. U \in [{slot} -> Seq(Part)] /\ {slot} \in SUBSET SlotPairs
    BY DEF Single
  <2>. QED BY <2>1 DEF Templates
<1>5. Over(U, x.templates) \in Templates /\ Joins(Over(U, x.templates), U, x.templates)
  BY <1>1, <1>4, OverJoins
<1>6. y = [x EXCEPT !.claimed = @ \cup {slot}, !.templates = Over(U, x.templates), !.routes = @ \o es]
  BY <1>1 DEF Mount, Claim, Single
<1>7. /\ Keeps(y, x) /\ y.mounts = x.mounts /\ y.routes = x.routes \o es
      /\ y.claimed = x.claimed \cup {slot} /\ y.templates = Over(U, x.templates)
  BY <1>1, <1>6 DEF Keeps, Builders
<1>8. y \in Builders
  <2>1. x.claimed \cup {slot} \in SUBSET SlotPairs
    BY <1>1 DEF Builders
  <2>. HIDE DEF U, y
  <2>. QED BY <1>1, <1>3, <1>5, <1>6, <2>1 DEF Builders
<1>9. Linked(es, x.schema, U) \/ Scoping
  <2>. SUFFICES ASSUME ~Scoping PROVE Linked(es, x.schema, U)
    OBVIOUS
  <2>1. IsEndpoint(es[1], x.schema, slot)
    BY DEF IsEndpoint
  <2>2. DOMAIN es = 1..Len(es) /\ 1 \in DOMAIN es /\ DOMAIN es \subseteq Nat \ {0}
    OBVIOUS
  <2>3. OnlyTheFirst(es, x.schema)
    BY <2>2, NotAnEndpoint DEF OnlyTheFirst, OthersPlain
  <2>. QED BY <2>1, <2>2, <2>3, LinkedFirst
<1>10. DOMAIN U = {slot} /\ x.claimed = DOMAIN x.templates
  BY <1>1 DEF Sound, Single
<1>. HIDE DEF U, y
<1>11. Joins(y.templates, x.templates, U) /\ y.claimed = DOMAIN y.templates
  BY <1>5, <1>7, <1>10 DEF Joins
<1>. QED BY <1>7, <1>8, <1>9, <1>11, MountGrows DEF y

LEMMA WordsAreText ==
    /\ "GET" \in Text /\ "POST" \in Text /\ "PUT" \in Text /\ "PATCH" \in Text /\ "DELETE" \in Text
    /\ "id" \in Text /\ "relationships" \in Text /\ "none" \in Text /\ "forbidden" \in Text
    /\ "linkage" \in Text /\ "related" \in Text /\ "custom" \in Text /\ "index" \in Text /\ "show" \in Text
    /\ \A w \in Writes : w \in Text /\ w \notin Endpoints
    /\ "forbidden" \notin Writes /\ "forbidden" \notin Endpoints
    /\ "DuplicateRelationshipSlot" \in Text /\ "UnknownRelationship" \in Text
<1>1. Writes \subseteq Words
  BY DEF Words, Writes
<1>2. /\ \A w \in Writes : w \notin Endpoints
      /\ "forbidden" \notin Writes /\ "forbidden" \notin Endpoints
  BY DEF Writes, Endpoints
<1>. QED BY <1>1, <1>2 DEF Text, Words

\* A writing endpoint of the innermost resource, forbidden where it is read-only.
LEMMA WritingEntry ==
    ASSUME Stacked(stack), NEW x \in Grown(Top, Scoping), x.tier = "resource", NEW method \in Text,
           NEW segments \in Seq(Part), NEW operation \in Writes, NEW relationship \in Text,
           NEW readOnly \in BOOLEAN, x.readOnly => readOnly
    PROVE  LET e == Mounted(x, method, segments, Write(x, readOnly, operation, relationship))
           IN e \in EntriesOf(x, Scoping) /\ e.handler.operation \notin Endpoints
<1>. DEFINE done == IF readOnly THEN "forbidden" ELSE operation
<1>1. done \in Text /\ done \notin Endpoints /\ (x.readOnly => done \notin Writes)
  BY WordsAreText
<1>2. Write(x, readOnly, operation, relationship) = Handler(x, done, relationship)
  BY DEF Write
<1>. HIDE DEF done
<1>. DEFINE e == Mounted(x, method, segments, Handler(x, done, relationship))
<1>3. /\ e \in EntriesOf(x, Scoping)
      /\ e.handler = [kind |-> x.schema, operation |-> done, relationship |-> relationship]
  BY <1>1, MountedEntry
<1>. HIDE DEF e
<1>4. e.handler.operation \notin Endpoints
  BY <1>1, <1>3
<1>. QED BY <1>2, <1>3, <1>4 DEF e

LEMMA MountLinkageGrows ==
    ASSUME Stacked(stack), NEW x \in Grown(Top, Scoping), Top.tier = "resource",
           NEW relationship \in Relationships, NEW config \in Resolutions
    PROVE  MountLinkage(x, relationship, config) \in Grown(Top, Scoping)
<1>. DEFINE slot == <<relationship.name, "linkage">>
            segments == <<Param("id"), Relocated(config.keyword, "relationships"),
                          Relocated(config.segment, relationship.name)>>
            W(method, operation) ==
                Mounted(x, method, segments, Write(x, config.readOnly, operation, relationship.name))
            first == Mounted(x, "GET", segments, Handler(x, "linkage", relationship.name))
            es == <<first, W("PATCH", "relink")>>
                  \o IF relationship.kind = "has_many"
                     THEN <<W("POST", "link"), W("DELETE", "unlink")>> ELSE <<>>
            E == EntriesOf(x, Scoping)
<1>1. /\ relationship.name \in Text /\ config.keyword \in Text /\ config.segment \in Text
      /\ config.readOnly \in BOOLEAN /\ (Top.readOnly => config.readOnly)
  BY DEF Relationships, Resolutions
<1>2. x.tier = "resource" /\ (x.readOnly => config.readOnly)
  BY <1>1 DEF Grown, Keeps
<1>3. segments \in Seq(Part)
  <2>1. /\ Param("id") \in Part /\ Relocated(config.keyword, "relationships") \in Part
        /\ Relocated(config.segment, relationship.name) \in Part
    BY <1>1, SegmentsTyped, WordsAreText
  <2>. QED BY <2>1
<1>4. slot \in SlotPairs /\ slot[1] = relationship.name /\ slot[2] = "linkage"
  BY <1>1 DEF SlotPairs
<1>. HIDE DEF segments
<1>5. /\ first \in E /\ first.path = x.path \o segments /\ first.mark.scoped = Scoping
      /\ first.handler = [kind |-> x.schema, operation |-> slot[2], relationship |-> slot[1]]
  <2>1. "linkage" \notin Writes
    BY DEF Writes
  <2>. QED BY <1>1, <1>2, <1>3, <1>4, <2>1, MountedEntry, WordsAreText
<1>6. ASSUME NEW method \in Text, NEW operation \in Writes
      PROVE  W(method, operation) \in E /\ W(method, operation).handler.operation \notin Endpoints
  BY <1>1, <1>2, <1>3, <1>6, WritingEntry
<1>7. "relink" \in Writes /\ "link" \in Writes /\ "unlink" \in Writes
  BY DEF Writes
<1>. DEFINE w1 == W("PATCH", "relink")
            w2 == W("POST", "link")
            w3 == W("DELETE", "unlink")
<1>8. /\ w1 \in E /\ w2 \in E /\ w3 \in E /\ w1.handler.operation \notin Endpoints
      /\ w2.handler.operation \notin Endpoints /\ w3.handler.operation \notin Endpoints
  BY <1>6, <1>7, WordsAreText
<1>9. x.path \o segments \in Seq(Part)
  BY <1>3 DEF Grown, Builders
<1>10. MountLinkage(x, relationship, config)
         = IF slot \in x.claimed THEN PushError(x, "DuplicateRelationshipSlot")
           ELSE Mount(Claim(x, slot, x.path \o segments), es)
  BY DEF MountLinkage, segments
<1>. HIDE DEF first, w1, w2, w3, W, E, slot
<1>11. CASE slot \in x.claimed
  BY <1>10, <1>11, PushErrorGrows, WordsAreText
<1>12. CASE slot \notin x.claimed
  <2>1. /\ es \in Seq(E) /\ Len(es) \in Nat \ {0} /\ es[1] = first
        /\ OthersPlain(es)
    <3>1. CASE relationship.kind = "has_many"
      <4>2. es = <<first, w1>> \o <<w2, w3>>
        BY <3>1 DEF w1, w2, w3
      <4>. HIDE DEF es
      <4>3. <<first, w1>> \in Seq(E) /\ <<w2, w3>> \in Seq(E)
        BY <1>5, <1>8
      <4>4. /\ es \in Seq(E) /\ Len(es) = 4
            /\ es[1] = first /\ es[2] = w1 /\ es[3] = w2 /\ es[4] = w3
        BY <4>2, <4>3
      <4>. QED BY <1>8, <4>4 DEF OthersPlain
    <3>2. CASE relationship.kind # "has_many"
      <4>1. es = <<first, w1>>
        BY <3>2 DEF w1
      <4>. HIDE DEF es
      <4>. QED BY <1>5, <1>8, <4>1 DEF OthersPlain
    <3>. QED BY <3>1, <3>2
  <2>. HIDE DEF es
  <2>. DEFINE path == x.path \o segments
  <2>2. /\ path \in Seq(Part) /\ es[1].path = path /\ es[1].mark.scoped = Scoping
        /\ es[1].handler = [kind |-> x.schema, operation |-> slot[2], relationship |-> slot[1]]
    BY <1>5, <1>9, <2>1
  <2>. HIDE DEF path
  <2>3. Mount(Claim(x, slot, path), es) \in Grown(Top, Scoping)
    BY <1>4, <1>12, <2>1, <2>2, ClaimGrows DEF E
  <2>. QED BY <1>10, <1>12, <2>3 DEF path
<1>. QED BY <1>11, <1>12

LEMMA MountRelatedGrows ==
    ASSUME Stacked(stack), NEW x \in Grown(Top, Scoping), Top.tier = "resource",
           NEW relationship \in Relationships, NEW config \in Resolutions
    PROVE  MountRelated(x, relationship, config) \in Grown(Top, Scoping)
<1>. DEFINE slot == <<relationship.name, "related">>
            segments == <<Param("id"), Relocated(config.segment, relationship.name)>>
            first == Mounted(x, "GET", segments, Handler(x, "related", relationship.name))
            es == <<first>>
<1>1. relationship.name \in Text /\ config.segment \in Text
  BY DEF Relationships, Resolutions
<1>2. x.tier = "resource"
  BY DEF Grown, Keeps
<1>3. segments \in Seq(Part)
  <2>1. Param("id") \in Part /\ Relocated(config.segment, relationship.name) \in Part
    BY <1>1, SegmentsTyped, WordsAreText
  <2>. QED BY <2>1
<1>4. slot \in SlotPairs /\ slot[1] = relationship.name /\ slot[2] = "related"
  BY <1>1 DEF SlotPairs
<1>. HIDE DEF segments
<1>5. /\ first \in EntriesOf(x, Scoping) /\ first.path = x.path \o segments /\ first.mark.scoped = Scoping
      /\ first.handler = [kind |-> x.schema, operation |-> slot[2], relationship |-> slot[1]]
  <2>1. "related" \notin Writes
    BY DEF Writes
  <2>. QED BY <1>1, <1>2, <1>3, <1>4, <2>1, MountedEntry, WordsAreText
<1>6. x.path \o segments \in Seq(Part)
  BY <1>3 DEF Grown, Builders
<1>7. MountRelated(x, relationship, config)
        = IF slot \in x.claimed THEN PushError(x, "DuplicateRelationshipSlot")
          ELSE Mount(Claim(x, slot, x.path \o segments), es)
  BY DEF MountRelated, segments
<1>. HIDE DEF first, slot
<1>8. CASE slot \in x.claimed
  BY <1>7, <1>8, PushErrorGrows, WordsAreText
<1>9. CASE slot \notin x.claimed
  <2>1. /\ es \in Seq(EntriesOf(x, Scoping)) /\ Len(es) \in Nat \ {0} /\ es[1] = first
        /\ OthersPlain(es)
    BY <1>5 DEF OthersPlain
  <2>. HIDE DEF es
  <2>. DEFINE path == x.path \o segments
  <2>2. /\ path \in Seq(Part) /\ es[1].path = path /\ es[1].mark.scoped = Scoping
        /\ es[1].handler = [kind |-> x.schema, operation |-> slot[2], relationship |-> slot[1]]
    BY <1>5, <1>6, <2>1
  <2>. HIDE DEF path
  <2>3. Mount(Claim(x, slot, path), es) \in Grown(Top, Scoping)
    BY <1>4, <1>9, <2>1, <2>2, ClaimGrows
  <2>. QED BY <1>7, <1>9, <2>3 DEF path
<1>. QED BY <1>8, <1>9

\* relationship, linkage and related: the linkage first, then the related slot.
LEMMA MountRelationshipGrows ==
    ASSUME Stacked(stack), NEW x \in Grown(Top, Scoping), Top.tier = "resource",
           NEW name, NEW slots, NEW config \in Resolutions
    PROVE  MountRelationship(x, name, slots, config) \in Grown(Top, Scoping)
<1>. DEFINE declared == SelectInSeq(Schemas[x.schema], LAMBDA r : r.name = name)
            relationship == Schemas[x.schema][declared]
            linkage == IF "linkage" \in slots THEN MountLinkage(x, relationship, config) ELSE x
<1>1. MountRelationship(x, name, slots, config)
        = IF declared = 0 THEN PushError(x, "UnknownRelationship")
          ELSE IF "related" \in slots THEN MountRelated(linkage, relationship, config) ELSE linkage
  BY DEF MountRelationship
<1>2. x.schema \in DOMAIN Schemas
  <2>1. x \in Builders /\ Sound(x, Scoping) /\ x.tier = "resource"
    BY DEF Grown, Keeps
  <2>. QED BY <2>1 DEF Sound, Builders, Kinds
<1>3. Schemas[x.schema] \in Seq(Relationships)
  BY <1>2, CallsTyped DEF Relationships
<1>4. declared # 0 => relationship \in Relationships
  <2>. DEFINE hits == {i \in 1..Len(Schemas[x.schema]) : Schemas[x.schema][i].name = name}
  <2>1. declared = IF hits # {} THEN Min(hits) ELSE 0
    BY DEF SelectInSeq
  <2>2. hits \subseteq 1..Len(Schemas[x.schema]) /\ Len(Schemas[x.schema]) \in Nat
    BY <1>3
  <2>. HIDE DEF hits, declared
  <2>3. hits # {} => Min(hits) \in hits
    BY <2>2, LeastIsMember
  <2>4. declared # 0 => declared \in 1..Len(Schemas[x.schema])
    BY <2>1, <2>2, <2>3
  <2>. QED BY <1>3, <2>4, ElementOfSeq
<1>. HIDE DEF declared, relationship
<1>5. declared # 0 => linkage \in Grown(Top, Scoping)
  BY <1>4, MountLinkageGrows
<1>. HIDE DEF linkage
<1>6. CASE declared = 0
  BY <1>1, <1>6, PushErrorGrows, WordsAreText
<1>7. CASE declared # 0
  BY <1>1, <1>4, <1>5, <1>7, MountRelatedGrows
<1>. QED BY <1>6, <1>7

LEMMA ResolvedIs ==
    ASSUME Stacked(stack), NEW config \in Configs
    PROVE  Resolved(config) \in Resolutions
<1>1. config \in [readOnly : BOOLEAN, segment : Text, keyword : Text]
  BY CallsTyped
<1>2. Top.readOnly \in BOOLEAN
  BY TopIs DEF Builders
<1>. QED BY <1>1, <1>2 DEF Resolved, Resolutions

\* The plural forms, one relationship after the other.
LEMMA MountAllGrows ==
    ASSUME Stacked(stack), Top.tier = "resource", NEW slots, NEW config \in Resolutions
    PROVE  MountAll(Top, slots, config) \in Grown(Top, Scoping)
<1>. DEFINE rs == Schemas[Top.schema]
            n == Len(rs)
            V == Grown(Top, Scoping)
            next(v, i) == MountRelationship(v, rs[i].name, slots, config)
            step == [i \in 1..n |-> [v \in V |-> next(v, i)]]
            G(h, i) == IF i = 0 THEN Top ELSE next(h[i - 1], i)
            g == CHOOSE h : h = [i \in 0..n |-> G(h, i)]
<1>1. n \in Nat
  <2>1. Top.schema \in DOMAIN Schemas
    BY TopIs DEF Sound, Builders, Kinds
  <2>. QED BY <2>1, CallsTyped
<1>2. Top \in V
  BY GrownStart
<1>3. MountAll(Top, slots, config) = g[n]
  BY DEF MountAll
<1>4. \A i \in 1..n : \A v \in V : next(v, i) \in V
  BY MountRelationshipGrows
<1>. HIDE DEF next, V, n
<1>5. step \in [1..n -> [V -> V]]
  BY <1>4
<1>6. PICK f \in [0..n -> V] : Unfolds(f, n, Top, step)
  <2>. HIDE DEF step
  <2>. QED BY <1>1, <1>2, <1>5, Recursion
<1>7. ASSUME NEW i \in 0..n PROVE f[i] = G(f, i)
  <2>1. CASE i = 0
    BY <1>6, <2>1 DEF Unfolds
  <2>2. CASE i # 0
    <3>1. i \in 1..n /\ i - 1 \in 0..n
      BY <1>1, <2>2
    <3>2. f[i - 1] \in V
      BY <1>6, <3>1
    <3>. QED BY <1>6, <2>2, <3>1, <3>2 DEF Unfolds
  <2>. QED BY <2>1, <2>2
<1>8. f = [i \in 0..n |-> G(f, i)]
  <2>. HIDE DEF G
  <2>. QED BY <1>6, <1>7
<1>9. g = [i \in 0..n |-> G(g, i)]
  <2>. HIDE DEF G
  <2>. QED BY <1>8
<1>. HIDE DEF g
<1>10. ASSUME NEW i \in 0..n PROVE g[i] = G(g, i)
  <2>. HIDE DEF G
  <2>. QED BY <1>9
<1>. DEFINE S == {i \in 0..n : g[i] \in V}
<1>11. 0 \in S
  <2>1. 0 \in 0..n
    BY <1>1
  <2>. QED BY <1>2, <1>10, <2>1
<1>12. ASSUME NEW i \in 1..n, i - 1 \in S PROVE i \in S
  <2>1. i \in 0..n /\ i # 0
    BY <1>1
  <2>2. g[i] = next(g[i - 1], i)
    BY <1>10, <2>1
  <2>. QED BY <1>4, <1>12, <2>1, <2>2
<1>. HIDE DEF S
<1>13. 0..n \subseteq S
  BY <1>1, <1>11, <1>12, BoundedInduction
<1>14. n \in 0..n
  BY <1>1
<1>15. g[n] \in V
  BY <1>13, <1>14 DEF S
<1>. QED BY <1>3, <1>15 DEF V

-----------------------------------------------------------------------------
(* What is said of a builder is said of it and those around it only.       *)

LEMMA GuardedBuilders ==
    ASSUME NEW s \in Seq(Builders), NEW n \in 1..Len(s)
    PROVE  GuardedBy(SubSeq(s, 1, n)) /\ Len(SubSeq(s, 1, n)) = n
           /\ \A i \in 1..n : SubSeq(s, 1, n)[i] = s[i]
<1>1. n \in Nat /\ Len(SubSeq(s, 1, n)) = n /\ \A i \in 1..n : SubSeq(s, 1, n)[i] = s[i]
  OBVIOUS
<1>2. \A i \in 1..n : s[i].guard \in Guards \cup {Always}
  <2>1. \A i \in 1..n : s[i] \in Builders
    OBVIOUS
  <2>. QED BY <2>1 DEF Builders
<1>. QED BY <1>1, <1>2, CallsTyped DEF GuardedBy

LEMMA PlacedAlike ==
    ASSUME NEW s \in Seq(Builders), NEW t \in Seq(Builders), NEW n \in 1..Len(s), n \in 1..Len(t),
           \A i \in 1..n : Keeps(t[i], s[i]), Placed(s, n), Sound(t[n], ScopedAt(s, n))
    PROVE  Placed(t, n)
<1>0. n \in 1..n /\ 1 \in 1..n /\ (n # 1 => n - 1 \in 1..n)
  OBVIOUS
<1>1. ScopedAt(t, n) = ScopedAt(s, n) /\ ReadOnlyAt(t, n) = ReadOnlyAt(s, n)
  BY DEF ScopedAt, ReadOnlyAt, Keeps
<1>2. Guarding(SubSeq(t, 1, n)) = Guarding(SubSeq(s, 1, n))
  <2>1. SameGuards(n, SubSeq(t, 1, n), SubSeq(s, 1, n))
    BY GuardedBuilders DEF SameGuards, Keeps
  <2>. QED BY <2>1, GuardedBuilders, GuardingSame
<1>3. Guarding(t[n].middleware) = Guarding(SubSeq(t, 1, n)) /\ t[n].readOnly = ReadOnlyAt(t, n)
  BY <1>0, <1>1, <1>2 DEF Placed, Keeps
<1>4. n # 1 => Nested(t[n - 1], t[n])
  BY <1>0 DEF Placed, Nested, Inherits, Keeps
<1>5. /\ n = 1 => t[1].opened = "root" /\ t[1].tier = "primary"
      /\ t[n].tier = "primary" => \A j \in 1..n : t[j].tier = "primary"
  BY <1>0 DEF Placed, Keeps
<1>. QED BY <1>1, <1>3, <1>4, <1>5 DEF Placed

LEMMA KeepsItself ==
    ASSUME NEW b PROVE Keeps(b, b)
BY DEF Keeps

\* A call that mounts.
LEMMA BecomesStacked ==
    ASSUME Stacked(stack), NEW y \in Grown(Top, Scoping)
    PROVE  Stacked([stack EXCEPT ![Len(stack)] = y])
<1>. DEFINE t == [stack EXCEPT ![Len(stack)] = y]
<1>1. /\ stack \in Seq(Builders) /\ Depth \in 1..Len(stack) /\ Depth = Len(stack) /\ Top = stack[Depth]
      /\ y \in Builders /\ Keeps(y, Top) /\ Sound(y, Scoping)
  BY TopIs DEF Stacked, Depth, Grown
<1>2. /\ t \in Seq(Builders) /\ Len(t) = Depth /\ t[Depth] = y
      /\ \A i \in 1..Depth : i # Depth => t[i] = stack[i]
  BY <1>1
<1>. HIDE DEF t
<1>3. ASSUME NEW n \in 1..Depth PROVE Placed(t, n)
  <2>1. \A i \in 1..n : Keeps(t[i], stack[i])
    BY <1>1, <1>2, KeepsItself
  <2>2. Placed(stack, n)
    BY <1>1 DEF Stacked
  <2>3. Sound(t[n], ScopedAt(stack, n))
    BY <1>1, <1>2, <2>2 DEF Placed, Scoping
  <2>. QED BY <1>1, <1>2, <2>1, <2>2, <2>3, PlacedAlike
<1>. QED BY <1>1, <1>2, <1>3 DEF Stacked, t

\* A call that opens a block.
LEMMA OpenStacked ==
    ASSUME Stacked(stack), Len(stack) < MaxDepth, NEW c \in Builders, Nested(Top, c),
           Sound(c, Scoping \/ (c.tier = "resource" /\ c.opened = "scope")),
           Guarding(c.middleware) = Guards1(Guarding(Top.middleware), c)
    PROVE  Stacked(Append(stack, c))
<1>. DEFINE t == Append(stack, c)
            n == Depth + 1
<1>1. /\ stack \in Seq(Builders) /\ Depth \in 1..Len(stack) /\ Depth = Len(stack) /\ Top = stack[Depth]
      /\ Depth \in Nat /\ MaxDepth \in Nat
  BY TopIs, CallsAssumption DEF Stacked, Depth
<1>2. t \in Seq(Builders) /\ Len(t) = n /\ t[n] = c /\ \A i \in 1..Depth : t[i] = stack[i]
  BY <1>1, AppendProperties
<1>. HIDE DEF t
<1>3. ASSUME NEW k \in 1..Depth PROVE Placed(t, k)
  <2>1. \A i \in 1..k : Keeps(t[i], stack[i])
    BY <1>1, <1>2, KeepsItself
  <2>2. Placed(stack, k)
    BY <1>1 DEF Stacked
  <2>3. Sound(t[k], ScopedAt(stack, k))
    BY <1>1, <1>2, <2>2 DEF Placed
  <2>. QED BY <1>1, <1>2, <2>1, <2>2, <2>3, PlacedAlike
<1>4. Placed(t, n)
  <2>0. n # 1 /\ n - 1 = Depth /\ n \in 1..Len(t) /\ \A j \in 1..n : j = n \/ j \in 1..Depth
    BY <1>1, <1>2
  <2>1. Placed(stack, Depth) /\ Top = t[Depth]
    BY <1>1, <1>2 DEF Stacked
  <2>2. Nested(t[n - 1], t[n])
    BY <1>2, <2>0, <2>1
  <2>3. ScopedAt(t, n) = (Scoping \/ (c.tier = "resource" /\ c.opened = "scope"))
    <3>1. ScopedAt(t, n) => Scoping \/ (c.tier = "resource" /\ c.opened = "scope")
      BY <1>2, <2>0 DEF ScopedAt, Scoping
    <3>2. Scoping => ScopedAt(t, n)
      BY <1>1, <1>2 DEF ScopedAt, Scoping
    <3>3. c.tier = "resource" /\ c.opened = "scope" => ScopedAt(t, n)
      BY <1>2, <2>0 DEF ScopedAt
    <3>. QED BY <3>1, <3>2, <3>3 DEF ScopedAt
  <2>4. c.tier = "primary" => \A j \in 1..n : t[j].tier = "primary"
    <3>1. c.tier = "primary" => Top.tier = "primary"
      BY DEF Nested
    <3>. QED BY <1>1, <1>2, <2>0, <2>1, <3>1 DEF Placed
  <2>5. ReadOnlyAt(t, n) = (ReadOnlyAt(stack, Depth) \/ (c.opened = "resource" /\ c.readOnly))
    <3>1. ReadOnlyAt(t, n) => ReadOnlyAt(stack, Depth) \/ (c.opened = "resource" /\ c.readOnly)
      BY <1>2, <2>0 DEF ReadOnlyAt
    <3>2. ReadOnlyAt(stack, Depth) => ReadOnlyAt(t, n)
      BY <1>1, <1>2 DEF ReadOnlyAt
    <3>3. c.opened = "resource" /\ c.readOnly => ReadOnlyAt(t, n)
      BY <1>2, <2>0 DEF ReadOnlyAt
    <3>. QED BY <3>1, <3>2, <3>3 DEF ReadOnlyAt
  <2>6. Top.readOnly = ReadOnlyAt(stack, Depth) /\ (Top.tier = "primary" => ~Top.readOnly)
    BY <1>1, <2>1 DEF Placed, Sound
  <2>7. c.readOnly = ReadOnlyAt(t, n)
    <3>1. CASE c.opened = "resource"
      <4>1. ~ReadOnlyAt(stack, Depth)
        BY <2>6, <3>1 DEF Nested
      <4>. QED BY <2>5, <3>1, <4>1 DEF Builders
    <3>2. CASE c.opened # "resource"
      <4>1. c.readOnly = Top.readOnly
        BY <3>2 DEF Nested, Inherits
      <4>. QED BY <2>5, <2>6, <3>2, <4>1 DEF ReadOnlyAt
    <3>. QED BY <3>1, <3>2
  <2>8. Guarding(SubSeq(t, 1, n)) = Guards1(Guarding(SubSeq(stack, 1, Depth)), c)
    <3>. DEFINE inner == SubSeq(stack, 1, Depth)
                all == SubSeq(t, 1, n)
    <3>1. GuardedBy(inner) /\ Len(inner) = Depth /\ \A i \in 1..Depth : inner[i] = stack[i]
      BY <1>1, GuardedBuilders
    <3>2. GuardedBy(all) /\ Len(all) = n /\ \A i \in 1..n : all[i] = t[i]
      BY <1>2, <2>0, GuardedBuilders
    <3>. HIDE DEF inner, all
    <3>3. SameGuards(Depth, inner, all) /\ all[n] = c
      BY <1>1, <1>2, <2>0, <3>1, <3>2 DEF SameGuards
    <3>4. Guarding(all) = Guards1(Guarding(inner), all[Len(all)])
      BY <1>1, <3>1, <3>2, <3>3, GuardingOneMore
    <3>. QED BY <3>2, <3>3, <3>4 DEF inner, all
  <2>9. Guarding(c.middleware) = Guarding(SubSeq(t, 1, n))
    BY <1>1, <2>1, <2>8 DEF Placed
  <2>. QED BY <1>2, <2>0, <2>2, <2>3, <2>4, <2>7, <2>9 DEF Placed
<1>. QED BY <1>1, <1>2, <1>3, <1>4 DEF Stacked, t

\* Leaving a block.
LEMMA CloseStacked ==
    ASSUME Stacked(stack), Len(stack) > 1, NEW m \in Builders, Keeps(m, stack[Len(stack) - 1]),
           Sound(m, ScopedAt(stack, Len(stack) - 1))
    PROVE  Stacked(Append(SubSeq(stack, 1, Len(stack) - 2), m))
<1>. DEFINE n == Len(stack) - 1
            outer == SubSeq(stack, 1, n - 1)
            t == Append(outer, m)
<1>1. /\ stack \in Seq(Builders) /\ n \in Nat /\ n \in 1..Len(stack) /\ n \in 1..MaxDepth
      /\ n - 1 \in Nat /\ n - 1 = Len(stack) - 2
  BY CallsAssumption DEF Stacked
<1>. HIDE DEF n
<1>2. outer \in Seq(Builders) /\ Len(outer) = n - 1 /\ \A i \in 1..(n - 1) : outer[i] = stack[i]
  <2>1. \A i \in 1..(n - 1) : stack[i] \in Builders
    BY <1>1
  <2>. QED BY <1>1, <2>1, SubSeqProperties
<1>. HIDE DEF outer
<1>3. t \in Seq(Builders) /\ Len(t) = n /\ t[n] = m /\ \A i \in 1..(n - 1) : t[i] = stack[i]
  BY <1>1, <1>2, AppendProperties
<1>. HIDE DEF t
<1>4. ASSUME NEW k \in 1..n PROVE Placed(t, k)
  <2>1. \A i \in 1..k : Keeps(t[i], stack[i])
    BY <1>1, <1>3, KeepsItself DEF n
  <2>2. Placed(stack, k)
    BY <1>1 DEF Stacked
  <2>3. Sound(t[k], ScopedAt(stack, k))
    BY <1>1, <1>3, <2>2 DEF Placed, n
  <2>. QED BY <1>1, <1>3, <2>1, <2>2, <2>3, PlacedAlike
<1>. QED BY <1>1, <1>3, <1>4 DEF Stacked, t, outer

-----------------------------------------------------------------------------
(* What a block leaves in the builder around it. *)

\* A primary builder takes any list that is sound for every kind.
LEMMA OuterSound ==
    ASSUME NEW p \in Builders, NEW scoped, Sound(p, scoped), p.tier = "primary",
           NEW es \in Seq(GoodEntries), NEW ms \in Seq(Mounts),
           \A kind \in DOMAIN Schemas : KindSound(es, ms, kind),
           NEW m \in Builders, Keeps(m, p), m.routes = p.routes \o es, m.mounts = p.mounts \o ms,
           m.claimed = DOMAIN m.templates
    PROVE  Sound(m, scoped)
<1>1. /\ m.tier = "primary" /\ ~m.readOnly /\ m.schema = Raw /\ Tiered(m.middleware, m.schema)
  BY DEF Keeps, Sound
<1>2. p.routes \in Seq(GoodEntries) /\ p.mounts \in Seq(Mounts)
  BY DEF Builders
<1>3. ASSUME NEW kind \in DOMAIN Schemas PROVE KindSound(m.routes, m.mounts, kind)
  <2>1. KindSound(p.routes, p.mounts, kind) /\ KindSound(es, ms, kind)
    BY DEF Sound
  <2>. QED BY <1>2, <2>1, KindConcat
<1>. QED BY <1>1, <1>3 DEF Sound

\* What a closed resource mounts is sound for every kind.
LEMMA BuiltSound ==
    ASSUME NEW c \in Builders, Sound(c, FALSE), c.tier = "resource", NEW mount \in Mounts,
           mount.kind = c.schema, mount.templates = c.templates, NEW kind \in DOMAIN Schemas
    PROVE  KindSound(c.routes, <<mount>>, kind)
<1>1. c.routes \in Seq(EntriesOf(c, FALSE)) /\ Linked(c.routes, c.schema, c.templates) /\ c.readOnly \in BOOLEAN
  BY DEF Sound, Builders
<1>2. CASE kind = c.schema
  <2>1. MountedAt(<<mount>>, kind) = {1} /\ DOMAIN <<mount>> = {1}
    BY <1>2 DEF MountedAt
  <2>2. EntriesOf(c, FALSE) \subseteq Declaring(kind, c.readOnly)
    BY DEF EntriesOf, Declaring
  <2>3. c.routes \in Seq(Declaring(kind, c.readOnly))
    BY <1>1, <2>2, SeqMonotonic
  <2>4. MountedAt(<<mount>>, kind) # {} /\ \A i \in DOMAIN <<mount>> : <<mount>>[i].templates = c.templates
    BY <2>1
  <2>5. Linked(c.routes, kind, c.templates) /\ \E readOnly \in BOOLEAN : c.routes \in Seq(Declaring(kind, readOnly))
    BY <1>1, <1>2, <2>3
  <2>. DEFINE ms == <<mount>>
  <2>. HIDE DEF ms
  <2>6. KindSound(c.routes, ms, kind)
    BY <2>4, <2>5 DEF KindSound, ms
  <2>. QED BY <2>6 DEF ms
<1>3. CASE kind # c.schema
  <2>1. MountedAt(<<mount>>, kind) = {}
    BY <1>3 DEF MountedAt
  <2>2. EntriesOf(c, FALSE) \subseteq Without(kind)
    BY <1>3 DEF EntriesOf, Without
  <2>3. c.routes \in Seq(Without(kind))
    BY <1>1, <2>2, SeqMonotonic
  <2>. QED BY <2>1, <2>3 DEF KindSound
<1>. QED BY <1>2, <1>3

\* What a block of a resource holds, the builder around it may hold.
LEMMA InnerEntries ==
    ASSUME NEW p, NEW c, NEW around, NEW scoped, Nested(p, c), p.tier # "primary",
           around => scoped, NEW es \in Seq(EntriesOf(c, scoped))
    PROVE  es \in Seq(EntriesOf(p, around))
<1>1. Inherits(c, p) /\ (p.tier = "member" => c.tier = "member")
  BY DEF Nested
<1>2. EntriesOf(c, scoped) \subseteq EntriesOf(p, around)
  BY <1>1 DEF EntriesOf, Inherits
<1>. QED BY <1>2, SeqMonotonic

\* The builder Close leaves in place of the last two.
Merged ==
    LET parent == stack[Len(stack) - 1]
    IN CASE Top.opened = "resource" -> Absorb(parent, Built(Top))
         [] Top.opened = "middleware" /\ Top.tier = "resource" -> AbsorbResource(parent, Top)
         [] OTHER -> Absorb(parent, Top)
Parent == stack[Len(stack) - 1]
Around == ScopedAt(stack, Len(stack) - 1)
Left == IF Top.opened = "resource" THEN Built(Top).mounts ELSE Top.mounts

LEMMA ParentIs ==
    ASSUME Stacked(stack), Len(stack) > 1
    PROVE  /\ Parent \in Builders /\ Sound(Parent, Around) /\ Nested(Parent, Top)
           /\ Around \in BOOLEAN /\ (Around => Scoping)
           /\ Top.opened # "scope" \/ Top.tier # "resource" => Scoping = Around
           /\ Parent.tier = "primary" => ~Around
<1>. DEFINE n == Len(stack) - 1
<1>1. /\ stack \in Seq(Builders) /\ n \in 1..Len(stack) /\ n + 1 = Len(stack) /\ n \in Nat /\ Depth = n + 1
      /\ Depth \in 1..Len(stack) /\ Depth # 1 /\ Depth - 1 = n /\ Top = stack[Depth]
  BY TopIs DEF Stacked, Depth
<1>. HIDE DEF n
<1>2. Placed(stack, n) /\ Placed(stack, Depth)
  BY <1>1 DEF Stacked
<1>3. Parent = stack[n] /\ Around = ScopedAt(stack, n) /\ Parent \in Builders
  BY <1>1 DEF Parent, Around, n
<1>4. Sound(Parent, Around) /\ Nested(Parent, Top)
  BY <1>1, <1>2, <1>3 DEF Placed
<1>5. Around => Scoping
  <2>1. \A j \in 1..n : j \in 1..Depth
    BY <1>1
  <2>. QED BY <1>3, <2>1 DEF ScopedAt, Scoping
<1>6. Scoping => Around \/ (Top.opened = "scope" /\ Top.tier = "resource")
  <2>1. \A j \in 1..Depth : j = Depth \/ j \in 1..n
    BY <1>1
  <2>. QED BY <1>1, <1>3, <2>1 DEF ScopedAt, Scoping
<1>7. Around \in BOOLEAN /\ Scoping \in BOOLEAN
  BY DEF Around, Scoping, ScopedAt
<1>8. Parent.tier = "primary" => ~Around
  BY <1>2, <1>3 DEF Placed, ScopedAt
<1>. QED BY <1>3, <1>4, <1>5, <1>6, <1>7, <1>8

LEMMA ScopeScopes ==
    ASSUME Stacked(stack), Top.tier = "resource", Top.opened = "scope"
    PROVE  Scoping
<1>1. Depth \in 1..Depth /\ Top = stack[Depth]
  BY TopIs DEF Depth
<1>. QED BY <1>1 DEF Scoping, ScopedAt

LEMMA MergedIs ==
    ASSUME Stacked(stack), Len(stack) > 1
    PROVE  /\ Merged \in Builders /\ Keeps(Merged, Parent)
           /\ Left \in Seq(Mounts) /\ Merged.mounts = Parent.mounts \o Left
           /\ Merged.routes = Parent.routes \o Top.routes
           /\ IF Top.opened = "middleware" /\ Top.tier = "resource"
              THEN /\ Merged.claimed = Parent.claimed \cup Top.claimed
                   /\ Merged.templates = Over(Parent.templates, Top.templates)
              ELSE Merged.claimed = Parent.claimed /\ Merged.templates = Parent.templates
<1>1. /\ Parent \in Builders /\ Top \in Builders /\ Nested(Parent, Top)
      /\ Top.tier = "primary" <=> Top.schema = Raw
  BY ParentIs, TopIs DEF Sound
<1>2. /\ Parent.routes \in Seq(GoodEntries) /\ Top.routes \in Seq(GoodEntries)
      /\ Parent.mounts \in Seq(Mounts) /\ Top.mounts \in Seq(Mounts)
      /\ Parent.templates \in Templates /\ Top.templates \in Templates
      /\ Parent.claimed \subseteq SlotPairs /\ Top.claimed \subseteq SlotPairs
  BY <1>1 DEF Builders
<1>3. Left \in Seq(Mounts)
  <2>1. CASE Top.opened = "resource"
    <3>1. Top.schema \in DOMAIN Schemas
      BY <1>1, <2>1 DEF Nested, Builders, Kinds
    <3>2. [kind |-> Top.schema, base |-> Top.path, templates |-> Top.templates] \in Mounts
      BY <1>1, <3>1 DEF Builders, Mounts
    <3>3. Left = Append(Top.mounts, [kind |-> Top.schema, base |-> Top.path, templates |-> Top.templates])
      BY <1>1, <2>1 DEF Left, Built, Builders
    <3>. QED BY <1>2, <3>2, <3>3, AppendProperties
  <2>2. CASE Top.opened # "resource"
    BY <1>2, <2>2 DEF Left
  <2>. QED BY <2>1, <2>2
<1>4. Parent.routes \o Top.routes \in Seq(GoodEntries) /\ Parent.mounts \o Left \in Seq(Mounts)
  BY <1>2, <1>3, ConcatProperties
<1>5. Over(Parent.templates, Top.templates) \in Templates /\ Parent.claimed \cup Top.claimed \in SUBSET SlotPairs
  BY <1>2, OverJoins
<1>6. CASE Top.opened = "middleware" /\ Top.tier = "resource"
  <2>1. Merged = [Parent EXCEPT !.routes = @ \o Top.routes, !.mounts = @ \o Left,
                                !.claimed = @ \cup Top.claimed, !.templates = Over(@, Top.templates)]
    BY <1>1, <1>6 DEF Merged, AbsorbResource, Absorb, Left, Parent, Builders
  <2>2. Merged \in Builders
    BY <1>1, <1>4, <1>5, <2>1 DEF Builders
  <2>. QED BY <1>1, <1>3, <1>6, <2>1, <2>2 DEF Keeps, Builders
<1>7. CASE ~(Top.opened = "middleware" /\ Top.tier = "resource")
  <2>1. Merged = [Parent EXCEPT !.routes = @ \o Top.routes, !.mounts = @ \o Left]
    <3>1. CASE Top.opened = "resource"
      <4>1. Merged = Absorb(Parent, Built(Top))
        BY <3>1 DEF Merged, Parent
      <4>2. Built(Top).routes = Top.routes /\ Left = Built(Top).mounts
        BY <1>1, <3>1 DEF Built, Left, Builders
      <4>. QED BY <1>1, <4>1, <4>2 DEF Absorb, Builders
    <3>2. CASE Top.opened # "resource"
      <4>1. Merged = Absorb(Parent, Top)
        BY <1>7, <3>2 DEF Merged, Parent
      <4>. QED BY <1>1, <3>2, <4>1 DEF Absorb, Left, Builders
    <3>. QED BY <3>1, <3>2
  <2>2. Merged \in Builders
    BY <1>1, <1>4, <2>1 DEF Builders
  <2>. QED BY <1>1, <1>3, <1>7, <2>1, <2>2 DEF Keeps, Builders
<1>. QED BY <1>6, <1>7

LEMMA MergedSound ==
    ASSUME Stacked(stack), Len(stack) > 1
    PROVE  Sound(Merged, Around)
<1>1. /\ Parent \in Builders /\ Sound(Parent, Around) /\ Nested(Parent, Top) /\ Around \in BOOLEAN
      /\ Top \in Builders /\ Sound(Top, Scoping) /\ (Around => Scoping)
  BY ParentIs, TopIs
<1>2. /\ Parent.routes \in Seq(GoodEntries) /\ Top.routes \in Seq(GoodEntries)
      /\ Parent.templates \in Templates /\ Top.templates \in Templates
  BY <1>1 DEF Builders
<1>3. Merged.claimed = DOMAIN Merged.templates
  <2>1. Parent.claimed = DOMAIN Parent.templates /\ Top.claimed = DOMAIN Top.templates
    BY <1>1 DEF Sound
  <2>2. DOMAIN Over(Parent.templates, Top.templates) = DOMAIN Parent.templates \cup DOMAIN Top.templates
    BY DEF Over
  <2>. QED BY <2>1, <2>2, MergedIs
<1>4. CASE Top.opened = "resource"
  <2>. DEFINE mount == [kind |-> Top.schema, base |-> Top.path, templates |-> Top.templates]
  <2>1. Parent.tier = "primary" /\ Top.tier = "resource"
    BY <1>1, <1>4 DEF Nested
  <2>2. ~Scoping
    BY <1>4, <2>1, ParentIs
  <2>3. Left = <<mount>>
    <3>1. Top.mounts = <<>>
      BY <1>1, <2>1 DEF Sound
    <3>2. Left = Append(Top.mounts, mount)
      BY <1>1, <1>4 DEF Left, Built, Builders
    <3>. QED BY <3>1, <3>2
  <2>4. mount \in Mounts
    BY <1>1, <2>1 DEF Mounts, Builders, Sound, Kinds
  <2>5. Scoping = FALSE
    BY <2>2, TopIs
  <2>6. mount.kind = Top.schema /\ mount.templates = Top.templates
    OBVIOUS
  <2>. HIDE DEF mount
  <2>7. \A kind \in DOMAIN Schemas : KindSound(Top.routes, Left, kind)
    BY <1>1, <2>1, <2>3, <2>4, <2>5, <2>6, BuiltSound
  <2>. QED BY <1>1, <1>2, <1>3, <2>1, <2>7, MergedIs, OuterSound
<1>5. CASE Top.opened # "resource" /\ Parent.tier = "primary"
  <2>1. Top.tier = "primary" /\ Left = Top.mounts
    BY <1>1, <1>5 DEF Nested, Left
  <2>2. \A kind \in DOMAIN Schemas : KindSound(Top.routes, Left, kind)
    BY <1>1, <2>1 DEF Sound
  <2>. QED BY <1>1, <1>2, <1>3, <1>5, <2>2, MergedIs, OuterSound
<1>6. CASE Top.opened # "resource" /\ Parent.tier # "primary"
  <2>1. Top.tier # "primary" /\ Left = Top.mounts
    BY <1>1, <1>6 DEF Nested, Left
  <2>2. /\ Top.mounts = <<>> /\ Parent.mounts = <<>>
        /\ Top.routes \in Seq(EntriesOf(Top, Scoping))
    BY <1>1, <1>6, <2>1 DEF Sound
  <2>3. Merged.mounts = Parent.mounts
    BY <2>1, <2>2, MergedIs
  <2>4. Top.routes \in Seq(EntriesOf(Parent, Around))
    BY <1>1, <1>6, <2>2, InnerEntries
  <2>5. Top.schema = Parent.schema
    BY <1>1, <1>6 DEF Nested, Inherits
  <2>6. CASE Top.opened = "middleware" /\ Top.tier = "resource"
    <3>1. Joins(Merged.templates, Parent.templates, Top.templates)
      BY <1>2, <2>6, MergedIs, OverJoins
    <3>2. Linked(Top.routes, Parent.schema, Top.templates) \/ Around
      <4>1. Scoping = Around
        BY <2>6, ParentIs
      <4>. QED BY <1>1, <2>5, <2>6, <4>1 DEF Sound
    <3>. QED BY <1>1, <1>3, <2>3, <2>4, <3>1, <3>2, MergedIs, LongerSound
  <2>7. CASE ~(Top.opened = "middleware" /\ Top.tier = "resource")
    <3>1. Joins(Merged.templates, Parent.templates, <<>>)
      BY <1>2, <2>7, MergedIs, OverJoins
    <3>2. ASSUME Parent.tier = "resource" PROVE Linked(Top.routes, Parent.schema, <<>>)
      <4>1. Scoping \/ Top.tier = "member"
        <5>1. CASE Top.opened = "scope"
          BY <1>1, <3>2, <5>1, ScopeScopes DEF Nested
        <5>2. CASE Top.opened # "scope"
          BY <1>1, <1>6, <2>7, <3>2, <5>2 DEF Nested
        <5>. QED BY <5>1, <5>2
      <4>2. ASSUME NEW i \in DOMAIN Top.routes PROVE NoEndpoint(Top.routes[i], Parent.schema)
        <5>1. Top.routes[i] \in EntriesOf(Top, Scoping)
          BY <2>2
        <5>2. Top.routes[i].mark.scoped \/ Top.routes[i].handler.operation = "custom"
          BY <4>1, <5>1 DEF EntriesOf
        <5>. QED BY <5>2, NotAnEndpoint DEF Endpoints
      <4>. QED BY <4>2, LinkedNone
    <3>. QED BY <1>1, <1>3, <2>3, <2>4, <3>1, <3>2, MergedIs, LongerSound
  <2>. QED BY <2>6, <2>7
<1>. QED BY <1>4, <1>5, <1>6

-----------------------------------------------------------------------------
(* The blocks a call opens start sound: with nothing mounted, and the      *)
(* middleware of the builder around them before their own.                 *)

LEMMA EmptySound ==
    ASSUME NEW c \in Builders, NEW scoped, c.routes = <<>>, c.mounts = <<>>, c.claimed = {}, c.templates = <<>>,
           c.tier = "primary" <=> c.schema = Raw, Tiered(c.middleware, c.schema),
           c.tier = "primary" => ~c.readOnly
    PROVE  Sound(c, scoped)
<1>1. DOMAIN c.templates = {} /\ DOMAIN c.routes = {} /\ DOMAIN c.mounts = {}
  OBVIOUS
<1>2. Linked(c.routes, c.schema, c.templates)
  BY <1>1, LinkedNone
<1>3. \A kind \in DOMAIN Schemas : KindSound(c.routes, c.mounts, kind)
  <2>1. \A S : c.routes \in Seq(S)
    OBVIOUS
  <2>. QED BY <1>1, <2>1 DEF KindSound
<1>4. c.routes \in Seq(EntriesOf(c, scoped))
  OBVIOUS
<1>. QED BY <1>1, <1>2, <1>3, <1>4 DEF Sound

LEMMA NoTemplates == <<>> \in Templates
<1>1. <<>> \in [{} -> Seq(Part)]
  OBVIOUS
<1>. QED BY <1>1 DEF Templates

LEMMA GuardedChain ==
    ASSUME NEW chain \in Seq(Middlewares)
    PROVE  GuardedBy(chain)
<1>1. \A m \in Middlewares : m.guard \in Text
  BY CallsTyped DEF Middlewares
<1>. QED BY <1>1 DEF GuardedBy

\* One more middleware of the tier its builder has.
LEMMA ChainLonger ==
    ASSUME NEW chain \in Seq(Middlewares), NEW m \in Middlewares, NEW kind, Tiered(chain, kind),
           m.guard # Always, m.tier = IF kind = Raw THEN "primary" ELSE "resource"
    PROVE  Tiered(Append(chain, m), kind)
<1>. DEFINE longer == Append(chain, m)
            n == Len(chain)
<1>1. /\ longer \in Seq(Middlewares) /\ Len(longer) = n + 1 /\ n \in Nat /\ longer[n + 1] = m
      /\ \A i \in 1..n : longer[i] = chain[i]
      /\ DOMAIN chain = 1..n /\ DOMAIN longer = 1..(n + 1)
  BY AppendProperties
<1>. HIDE DEF longer
<1>2. \A i \in 1..(n + 1) : i = n + 1 \/ i \in 1..n
  BY <1>1
<1>3. CASE kind = Raw
  <2>1. AllPrimary(chain)
    BY <1>3 DEF Tiered
  <2>2. AllPrimary(longer)
    BY <1>1, <1>2, <1>3, <2>1 DEF AllPrimary
  <2>. QED BY <1>3, <2>2 DEF Tiered, longer
<1>4. CASE kind # Raw
  <2>1. PICK b \in 1..n : BoundaryAt(chain, b)
    BY <1>1, <1>4 DEF Tiered
  <2>2. b \in 1..(n + 1) /\ longer[b] = chain[b] /\ \A i \in 1..(b - 1) : longer[i] = chain[i]
    BY <1>1
  <2>3. ASSUME NEW i \in (b + 1)..(n + 1) PROVE longer[i].tier = "resource" /\ longer[i].guard # Always
    <3>1. CASE i = n + 1
      BY <1>1, <1>4, <3>1
    <3>2. CASE i # n + 1
      <4>1. i \in (b + 1)..n /\ i \in 1..n
        BY <1>1, <3>2
      <4>. QED BY <1>1, <2>1, <4>1 DEF BoundaryAt
    <3>. QED BY <3>1, <3>2
  <2>4. BoundaryAt(longer, b)
    BY <1>1, <2>1, <2>2, <2>3 DEF BoundaryAt
  <2>. QED BY <1>1, <1>4, <2>2, <2>4 DEF Tiered, longer
<1>. QED BY <1>3, <1>4

\* The boundary behind a chain of the byte tier.
LEMMA ChainBounded ==
    ASSUME NEW chain \in Seq(Middlewares), NEW kind, kind # Raw, AllPrimary(chain), Boundary \in Middlewares
    PROVE  Tiered(Append(chain, Boundary), kind)
<1>. DEFINE longer == Append(chain, Boundary)
            n == Len(chain)
<1>1. /\ longer \in Seq(Middlewares) /\ Len(longer) = n + 1 /\ n \in Nat /\ longer[n + 1] = Boundary
      /\ \A i \in 1..n : longer[i] = chain[i]
      /\ DOMAIN chain = 1..n /\ DOMAIN longer = 1..(n + 1)
  BY AppendProperties
<1>. HIDE DEF longer
<1>2. BoundaryAt(longer, n + 1) /\ n + 1 \in DOMAIN longer
  BY <1>1 DEF BoundaryAt, AllPrimary
<1>. QED BY <1>2 DEF Tiered, longer

\* What a sibling adds to its chain: nothing, or a middleware of the tier of `kind`.
Adds(own, guard, kind) ==
    \/ own = <<>> /\ guard = Always
    \/ \E m \in Middlewares : /\ own = <<m>> /\ m.guard # Always /\ guard = m.guard
                              /\ m.tier = IF kind = Raw THEN "primary" ELSE "resource"

LEMMA SpawnedChain ==
    ASSUME NEW chain \in Seq(Middlewares), NEW kind, Tiered(chain, kind), NEW own, NEW child,
           Adds(own, child.guard, kind)
    PROVE  /\ chain \o own \in Seq(Middlewares) /\ Tiered(chain \o own, kind)
           /\ Guarding(chain \o own) = Guards1(Guarding(chain), child)
<1>1. CASE own = <<>> /\ child.guard = Always
  <2>1. chain \o own = chain
    BY <1>1, ConcatEmptySeq
  <2>. QED BY <1>1, <2>1 DEF Guards1
<1>2. CASE \E m \in Middlewares : /\ own = <<m>> /\ m.guard # Always /\ child.guard = m.guard
                                  /\ m.tier = IF kind = Raw THEN "primary" ELSE "resource"
  <2>1. PICK m \in Middlewares : /\ own = <<m>> /\ m.guard # Always /\ child.guard = m.guard
                                 /\ m.tier = IF kind = Raw THEN "primary" ELSE "resource"
    BY <1>2
  <2>. DEFINE longer == Append(chain, m)
  <2>2. /\ chain \o own = longer /\ longer \in Seq(Middlewares)
        /\ Len(longer) = Len(chain) + 1 /\ longer[Len(longer)] = m
        /\ \A i \in 1..Len(chain) : longer[i] = chain[i]
    BY <2>1, AppendProperties, AppendIsConcat
  <2>3. Tiered(longer, kind)
    BY <2>1, ChainLonger
  <2>. HIDE DEF longer
  <2>4. SameGuards(Len(chain), chain, longer) /\ GuardedBy(chain) /\ GuardedBy(longer)
    BY <2>2, GuardedChain DEF SameGuards
  <2>5. Guarding(longer) = Guards1(Guarding(chain), m)
    BY <2>2, <2>4, GuardingOneMore
  <2>. QED BY <2>1, <2>2, <2>3, <2>5 DEF Guards1
<1>. QED BY <1>1, <1>2 DEF Adds

LEMMA SpawnStacked ==
    ASSUME Stacked(stack), Len(stack) < MaxDepth, NEW segments \in Seq(Part), NEW own, NEW how, NEW guard,
           how = "scope" \/ how = "middleware" \/ (how = "member" /\ Top.tier = "resource"),
           Adds(own, guard, Top.schema),
           NEW c, c = [Spawn(Top, segments, own, how, guard) EXCEPT
                          !.tier = IF how = "member" THEN "member" ELSE @]
    PROVE  Stacked(Append(stack, c))
<1>1. /\ Top \in Builders /\ Sound(Top, Scoping) /\ Top.middleware \in Seq(Middlewares)
      /\ Top.path \in Seq(Part) /\ (Top.tier = "primary" <=> Top.schema = Raw)
      /\ Tiered(Top.middleware, Top.schema)
  BY TopIs DEF Sound, Builders
<1>2. /\ c.path = Top.path \o segments /\ c.middleware = Top.middleware \o own /\ c.routes = <<>>
      /\ c.mounts = <<>> /\ c.claimed = {} /\ c.templates = <<>> /\ c.opened = how /\ c.guard = guard
      /\ c.schema = Top.schema /\ c.readOnly = Top.readOnly
      /\ c.tier = IF how = "member" THEN "member" ELSE Top.tier
  BY <1>1 DEF Spawn, Builders
<1>3. guard \in Guards \cup {Always}
  BY DEF Adds, Middlewares
<1>4. /\ c.middleware \in Seq(Middlewares) /\ Tiered(c.middleware, c.schema)
      /\ Guarding(c.middleware) = Guards1(Guarding(Top.middleware), c)
  <2>. DEFINE chain == Top.middleware
              kind == Top.schema
  <2>1. chain \in Seq(Middlewares) /\ Tiered(chain, kind) /\ Adds(own, c.guard, kind)
    BY <1>1, <1>2
  <2>2. c.middleware = chain \o own /\ c.schema = kind
    BY <1>2
  <2>. HIDE DEF chain, kind
  <2>3. /\ chain \o own \in Seq(Middlewares) /\ Tiered(chain \o own, kind)
        /\ Guarding(chain \o own) = Guards1(Guarding(chain), c)
    BY <2>1, SpawnedChain
  <2>. QED BY <2>2, <2>3 DEF chain
<1>5. c \in Builders
  <2>. DEFINE path == Top.path
  <2>1. path \o segments \in Seq(Part)
    <3>1. path \in Seq(Part)
      BY <1>1
    <3>. HIDE DEF path
    <3>. QED BY <3>1, ConcatProperties
  <2>2. <<>> \in Seq(GoodEntries) /\ <<>> \in Seq(Mounts) /\ {} \in SUBSET SlotPairs
    OBVIOUS
  <2>3. c = [Top EXCEPT !.path = c.path, !.middleware = c.middleware, !.routes = <<>>, !.mounts = <<>>,
                        !.claimed = {}, !.templates = <<>>, !.opened = how, !.guard = guard, !.tier = c.tier]
    BY <1>1, <1>2 DEF Spawn, Builders
  <2>4. /\ c.path \in Seq(Part) /\ c.middleware \in Seq(Middlewares) /\ c.routes \in Seq(GoodEntries)
        /\ c.mounts \in Seq(Mounts) /\ c.claimed \in SUBSET SlotPairs /\ c.templates \in Templates
    BY <1>2, <1>4, <2>1, <2>2, NoTemplates
  <2>5. /\ c.tier \in {"primary", "resource", "member"} /\ c.guard \in Guards \cup {Always}
        /\ c.opened \in {"root", "scope", "middleware", "resource", "member"}
        /\ c.schema \in Kinds /\ c.readOnly \in BOOLEAN
    BY <1>1, <1>2, <1>3 DEF Builders
  <2>6. c = [tier |-> c.tier, opened |-> c.opened, guard |-> c.guard, path |-> c.path,
             middleware |-> c.middleware, schema |-> c.schema, readOnly |-> c.readOnly, routes |-> c.routes,
             mounts |-> c.mounts, claimed |-> c.claimed, templates |-> c.templates]
    BY <1>1, <2>3 DEF Builders
  <2>. QED BY <2>4, <2>5, <2>6 DEF Builders
<1>6. Nested(Top, c)
  BY <1>2 DEF Nested, Inherits
<1>7. /\ c.tier = "primary" <=> c.schema = Raw
      /\ c.tier = "primary" => ~c.readOnly
  BY <1>1, <1>2 DEF Sound
<1>8. \A scoped : Sound(c, scoped)
  BY <1>2, <1>4, <1>5, <1>7, EmptySound
<1>. QED BY <1>4, <1>5, <1>6, <1>8, OpenStacked

LEMMA FreshBuilder ==
    ASSUME NEW tier \in {"primary", "resource", "member"},
           NEW opened \in {"root", "scope", "middleware", "resource", "member"},
           NEW path \in Seq(Part), NEW middleware \in Seq(Middlewares), NEW schema \in Kinds,
           NEW readOnly \in BOOLEAN
    PROVE  [tier |-> tier, opened |-> opened, guard |-> Always, path |-> path, middleware |-> middleware,
            schema |-> schema, readOnly |-> readOnly, routes |-> <<>>, mounts |-> <<>>, claimed |-> {},
            templates |-> <<>>] \in Builders
<1>1. <<>> \in Seq(GoodEntries) /\ <<>> \in Seq(Mounts) /\ {} \in SUBSET SlotPairs
  OBVIOUS
<1>. QED BY <1>1, NoTemplates DEF Builders

\* A resource starts over, behind the boundary.
LEMMA ResourceStacked ==
    ASSUME Stacked(stack), Len(stack) < MaxDepth, Top.tier = "primary", NEW resource \in Resources,
           NEW c, c = [Root EXCEPT !.tier = "resource", !.opened = "resource", !.schema = resource.kind,
                                   !.readOnly = resource.readOnly, !.path = Top.path \o resource.segments,
                                   !.middleware = Append(Top.middleware, Boundary)]
    PROVE  Stacked(Append(stack, c))
<1>. DEFINE chain == Top.middleware
            path == Top.path
<1>1. /\ Top \in Builders /\ Sound(Top, Scoping) /\ chain \in Seq(Middlewares) /\ path \in Seq(Part)
      /\ AllPrimary(chain)
  BY TopIs DEF Sound, Builders, Tiered
<1>2. resource.kind \in DOMAIN Schemas /\ resource.segments \in Seq(Part) /\ resource.readOnly \in BOOLEAN
  BY CallsTyped
<1>3. Boundary \in Middlewares /\ Boundary.guard = Always
  BY DEF Boundary, Middlewares
<1>4. resource.kind # Raw
  BY <1>2, CallsTyped
<1>. HIDE DEF chain, path
<1>5. Append(chain, Boundary) \in Seq(Middlewares) /\ Tiered(Append(chain, Boundary), resource.kind)
  BY <1>1, <1>3, <1>4, ChainBounded
<1>6. Guarding(Append(chain, Boundary)) = Guarding(chain)
  <2>. DEFINE longer == Append(chain, Boundary)
  <2>1. /\ longer \in Seq(Middlewares) /\ Len(longer) = Len(chain) + 1 /\ longer[Len(longer)] = Boundary
        /\ \A i \in 1..Len(chain) : longer[i] = chain[i]
    BY <1>1, <1>5, AppendProperties
  <2>. HIDE DEF longer
  <2>2. SameGuards(Len(chain), chain, longer) /\ GuardedBy(chain) /\ GuardedBy(longer)
    BY <1>1, <2>1, GuardedChain DEF SameGuards
  <2>3. Guarding(longer) = Guards1(Guarding(chain), longer[Len(longer)])
    BY <2>1, <2>2, GuardingOneMore
  <2>. QED BY <1>3, <2>1, <2>3 DEF Guards1, longer
<1>7. /\ c.tier = "resource" /\ c.opened = "resource" /\ c.guard = Always /\ c.schema = resource.kind
      /\ c.middleware = Append(chain, Boundary) /\ c.routes = <<>> /\ c.mounts = <<>>
      /\ c.claimed = {} /\ c.templates = <<>>
  BY DEF Root, chain
<1>8. c \in Builders
  <2>1. path \o resource.segments \in Seq(Part)
    BY <1>1, <1>2, ConcatProperties
  <2>2. resource.kind \in Kinds
    BY <1>2 DEF Kinds
  <2>3. c = [tier |-> "resource", opened |-> "resource", guard |-> Always, path |-> path \o resource.segments,
             middleware |-> Append(chain, Boundary), schema |-> resource.kind, readOnly |-> resource.readOnly,
             routes |-> <<>>, mounts |-> <<>>, claimed |-> {}, templates |-> <<>>]
    BY DEF Root, chain, path
  <2>. DEFINE p == path \o resource.segments
              m == Append(chain, Boundary)
              k == resource.kind
              r == resource.readOnly
  <2>4. p \in Seq(Part) /\ m \in Seq(Middlewares) /\ k \in Kinds /\ r \in BOOLEAN
    BY <1>2, <1>5, <2>1, <2>2
  <2>5. c = [tier |-> "resource", opened |-> "resource", guard |-> Always, path |-> p, middleware |-> m,
             schema |-> k, readOnly |-> r, routes |-> <<>>, mounts |-> <<>>, claimed |-> {},
             templates |-> <<>>]
    BY <2>3
  <2>. HIDE DEF p, m, k, r
  <2>6. [tier |-> "resource", opened |-> "resource", guard |-> Always, path |-> p, middleware |-> m,
         schema |-> k, readOnly |-> r, routes |-> <<>>, mounts |-> <<>>, claimed |-> {},
         templates |-> <<>>] \in Builders
    BY <2>4, FreshBuilder
  <2>. QED BY ONLY <2>5, <2>6
<1>9. Nested(Top, c)
  BY <1>7 DEF Nested
<1>10. \A scoped : Sound(c, scoped)
  BY <1>4, <1>5, <1>7, <1>8, EmptySound
<1>11. Guarding(c.middleware) = Guards1(Guarding(Top.middleware), c)
  BY <1>6, <1>7 DEF Guards1, chain
<1>. QED BY <1>8, <1>9, <1>10, <1>11, OpenStacked

-----------------------------------------------------------------------------
(* The steps.  A call keeps what is said of the router; only the stack is  *)
(* to be shown sound again.                                                *)

LEMMA CallKeeps ==
    ASSUME IInv, Call
    PROVE  Stacked(stack) /\ (Stacked(stack') => IInv')
<1>1. Stacked(stack) /\ calls \in 0..MaxCalls /\ MaxCalls \in Nat
  BY CallsAssumption DEF IInv
<1>2. calls' \in 0..MaxCalls
  BY <1>1 DEF Call
<1>3. router' = router /\ routes' = routes /\ table' = table /\ Building
  BY DEF Call
<1>4. ~IsServing
  BY <1>3 DEF Building, IsServing
<1>. QED BY <1>1, <1>2, <1>3, <1>4 DEF IInv, Building, IsServing

\* A call that mounts leaves a builder of Grown in place of the innermost one.
Mounting == Call /\ \E y \in Grown(Top, Scoping) : Becomes(y)

LEMMA MountingKeeps ==
    ASSUME IInv, Mounting
    PROVE  IInv'
<1>1. Stacked(stack) /\ Call
  BY CallKeeps DEF Mounting
<1>2. PICK y \in Grown(Top, Scoping) : stack' = [stack EXCEPT ![Len(stack)] = y]
  BY DEF Mounting, Becomes
<1>3. Stacked(stack')
  BY <1>1, <1>2, BecomesStacked
<1>. QED BY <1>1, <1>3, CallKeeps

LEMMA VerbMounts ==
    ASSUME IInv, NEW method \in Methods, NEW segments \in Leaves, Verb(method, segments)
    PROVE  Mounting
<1>. DEFINE e == Mounted(Top, method, segments, Handler(Top, "custom", "none"))
            y == Mount(Top, <<e>>)
<1>1. Call /\ Becomes(y)
  BY DEF Verb
<1>2. ASSUME Stacked(stack) PROVE y \in Grown(Top, Scoping)
  <2>1. Top \in Grown(Top, Scoping) /\ method \in Text /\ segments \in Seq(Part)
    BY <1>2, GrownStart, CallsTyped
  <2>2. "custom" \notin Endpoints /\ "custom" \notin Writes
    BY DEF Endpoints, Writes
  <2>3. /\ e \in EntriesOf(Top, Scoping)
        /\ e.handler = [kind |-> Top.schema, operation |-> "custom", relationship |-> "none"]
    BY <1>2, <2>1, <2>2, WordsAreText, MountedEntry
  <2>. HIDE DEF e
  <2>4. <<e>> \in Seq(EntriesOf(Top, Scoping)) /\ \A i \in DOMAIN <<e>> : <<e>>[i].handler.operation \notin Endpoints
    BY <2>2, <2>3
  <2>. QED BY <1>2, <2>1, <2>4, PlainMountGrows
<1>. HIDE DEF y
<1>. QED BY <1>1, <1>2, CallKeeps DEF Mounting

LEMMA SpawnKeeps ==
    ASSUME IInv, Call, NEW segments \in Seq(Part), NEW own, NEW how, NEW guard, NEW c,
           how = "scope" \/ how = "middleware" \/ (how = "member" /\ Top.tier = "resource"),
           Adds(own, guard, Top.schema),
           c = [Spawn(Top, segments, own, how, guard) EXCEPT !.tier = IF how = "member" THEN "member" ELSE @],
           Open(c)
    PROVE  IInv'
<1>1. Stacked(stack)
  BY CallKeeps
<1>2. Len(stack) < MaxDepth /\ stack' = Append(stack, c)
  BY DEF Open
<1>3. Stacked(stack')
  BY <1>1, <1>2, SpawnStacked
<1>. QED BY <1>3, CallKeeps

LEMMA SpawnIs ==
    ASSUME Stacked(stack), NEW segments, NEW own, NEW how, NEW guard, how # "member"
    PROVE  Spawn(Top, segments, own, how, guard)
             = [Spawn(Top, segments, own, how, guard) EXCEPT !.tier = IF how = "member" THEN "member" ELSE @]
<1>1. Top \in Builders
  BY TopIs
<1>. QED BY <1>1 DEF Spawn, Builders

LEMMA ScopeKeeps ==
    ASSUME IInv, NEW segments \in Segments, Scope(segments)
    PROVE  IInv'
<1>1. Call /\ Open(Spawn(Top, segments, <<>>, "scope", Always))
  BY DEF Scope
<1>2. Stacked(stack) /\ segments \in Seq(Part)
  BY <1>1, CallKeeps, CallsTyped
<1>. DEFINE own == <<>>
            c == Spawn(Top, segments, own, "scope", Always)
<1>3. Adds(own, Always, Top.schema)
  BY DEF Adds
<1>4. Open(c)
  BY <1>1
<1>. HIDE DEF own
<1>5. c = [Spawn(Top, segments, own, "scope", Always) EXCEPT !.tier = IF "scope" = "member" THEN "member" ELSE @]
  BY <1>2, SpawnIs
<1>. HIDE DEF c
<1>. QED BY <1>1, <1>2, <1>3, <1>4, <1>5, SpawnKeeps

LEMMA BlockKeeps ==
    ASSUME IInv, Call, NEW segments \in Seq(Part), NEW guard \in Guards, NEW tier,
           tier = IF Top.tier = "primary" THEN "primary" ELSE "resource",
           Open(Spawn(Top, segments, <<[tier |-> tier, guard |-> guard]>>, "middleware", guard))
    PROVE  IInv'
<1>1. Stacked(stack) /\ guard # Always
  BY CallKeeps, CallsTyped
<1>. DEFINE m == [tier |-> tier, guard |-> guard]
            own == <<m>>
            c == Spawn(Top, segments, own, "middleware", guard)
<1>2. m \in Middlewares /\ m.guard = guard /\ m.tier = tier
  BY DEF Middlewares
<1>3. Top.tier = "primary" <=> Top.schema = Raw
  BY <1>1, TopIs DEF Sound
<1>. HIDE DEF m
<1>4. Adds(own, guard, Top.schema)
  BY <1>1, <1>2, <1>3 DEF Adds
<1>5. Open(c)
  BY DEF m
<1>. HIDE DEF own
<1>6. c = [Spawn(Top, segments, own, "middleware", guard) EXCEPT !.tier = IF "middleware" = "member" THEN "member" ELSE @]
  BY <1>1, SpawnIs
<1>. HIDE DEF c
<1>. QED BY <1>1, <1>4, <1>5, <1>6, SpawnKeeps

LEMMA MiddlewareKeeps ==
    ASSUME IInv, NEW guard \in Guards, Middleware(guard)
    PROVE  IInv'
<1>. DEFINE tier == IF Top.tier = "primary" THEN "primary" ELSE "resource"
            here == <<>>
<1>1. Call /\ Open(Spawn(Top, here, <<[tier |-> tier, guard |-> guard]>>, "middleware", guard))
  BY DEF Middleware
<1>2. here \in Seq(Part)
  OBVIOUS
<1>. HIDE DEF here
<1>. QED BY <1>1, <1>2, BlockKeeps

LEMMA MiddlewareAtKeeps ==
    ASSUME IInv, NEW segments \in Segments, NEW guard \in Guards, MiddlewareAt(segments, guard)
    PROVE  IInv'
<1>. DEFINE tier == "primary"
<1>1. /\ Call /\ Top.tier = "primary"
      /\ Open(Spawn(Top, segments, <<[tier |-> tier, guard |-> guard]>>, "middleware", guard))
  BY DEF MiddlewareAt
<1>2. segments \in Seq(Part) /\ tier = IF Top.tier = "primary" THEN "primary" ELSE "resource"
  BY <1>1, CallsTyped
<1>. HIDE DEF tier
<1>. QED BY <1>1, <1>2, BlockKeeps

LEMMA ResourceKeeps ==
    ASSUME IInv, NEW resource \in Resources, Resource(resource)
    PROVE  IInv'
<1>. DEFINE c == [Root EXCEPT !.tier = "resource", !.opened = "resource", !.schema = resource.kind,
                              !.readOnly = resource.readOnly, !.path = Top.path \o resource.segments,
                              !.middleware = Append(Top.middleware, Boundary)]
<1>1. Call /\ Top.tier = "primary" /\ Len(stack) < MaxDepth /\ stack' = Append(stack, c)
  BY DEF Resource, Open
<1>2. Stacked(stack)
  BY <1>1, CallKeeps
<1>3. Stacked(Append(stack, c))
  BY <1>1, <1>2, ResourceStacked
<1>. HIDE DEF c
<1>. QED BY <1>1, <1>3, CallKeeps

LEMMA MemberKeeps ==
    ASSUME IInv, Member
    PROVE  IInv'
<1>. DEFINE own == <<>>
            segments == <<Param("id")>>
            c == [Spawn(Top, segments, own, "member", Always) EXCEPT !.tier = "member"]
<1>1. Call /\ Top.tier = "resource" /\ Open(c)
  BY DEF Member
<1>2. segments \in Seq(Part)
  BY SegmentsTyped, WordsAreText
<1>3. Adds(own, Always, Top.schema)
  BY DEF Adds
<1>. HIDE DEF own, segments
<1>4. c = [Spawn(Top, segments, own, "member", Always) EXCEPT !.tier = IF "member" = "member" THEN "member" ELSE @]
  OBVIOUS
<1>. HIDE DEF c
<1>. QED BY <1>1, <1>2, <1>3, <1>4, SpawnKeeps

LEMMA RelationshipMounts ==
    ASSUME IInv, NEW name, NEW slots, NEW config \in Configs, Relationship(name, slots, config)
    PROVE  Mounting
<1>. DEFINE y == MountRelationship(Top, name, slots, Resolved(config))
<1>1. Call /\ Top.tier = "resource" /\ Becomes(y)
  BY DEF Relationship
<1>2. Stacked(stack) => y \in Grown(Top, Scoping)
  BY <1>1, GrownStart, ResolvedIs, MountRelationshipGrows
<1>. HIDE DEF y
<1>. QED BY <1>1, <1>2, CallKeeps DEF Mounting

LEMMA AllRelationshipsMounts ==
    ASSUME IInv, NEW slots, NEW config \in Configs, AllRelationships(slots, config)
    PROVE  Mounting
<1>. DEFINE y == MountAll(Top, slots, Resolved(config))
<1>1. Call /\ Top.tier = "resource" /\ Becomes(y)
  BY DEF AllRelationships
<1>2. Stacked(stack) => y \in Grown(Top, Scoping)
  BY <1>1, ResolvedIs, MountAllGrows
<1>. HIDE DEF y
<1>. QED BY <1>1, <1>2, CallKeeps DEF Mounting

LEMMA DefaultEndpointsMounts ==
    ASSUME IInv, DefaultEndpoints
    PROVE  Mounting
<1>. DEFINE here == <<>>
            atId == <<Param("id")>>
            W(method, path, operation) ==
                Mounted(Top, method, path, Write(Top, Top.readOnly, operation, "none"))
            a == Mounted(Top, "GET", here, Handler(Top, "index", "none"))
            b == Mounted(Top, "GET", atId, Handler(Top, "show", "none"))
            es == <<a, b, W("POST", here, "create"), W("PUT", atId, "update"), W("PATCH", atId, "update"),
                    W("DELETE", atId, "delete")>>
            y == Mount(Top, es)
            Plain == {e \in EntriesOf(Top, Scoping) : e.handler.operation \notin Endpoints}
<1>1. Call /\ Top.tier = "resource" /\ Becomes(y)
  BY DEF DefaultEndpoints
<1>2. ASSUME Stacked(stack) PROVE y \in Grown(Top, Scoping)
  <2>1. here \in Seq(Part) /\ atId \in Seq(Part)
    BY SegmentsTyped, WordsAreText
  <2>2. /\ Top \in Grown(Top, Scoping) /\ Top.readOnly \in BOOLEAN
    BY <1>2, GrownStart, TopIs DEF Builders
  <2>. HIDE DEF here, atId
  <2>3. a \in Plain /\ b \in Plain
    <3>1. /\ "index" \notin Writes /\ "show" \notin Writes /\ "index" \notin Endpoints /\ "show" \notin Endpoints
      BY DEF Writes, Endpoints
    <3>2. a \in EntriesOf(Top, Scoping) /\ a.handler = [kind |-> Top.schema, operation |-> "index", relationship |-> "none"]
      BY <1>1, <1>2, <2>1, <2>2, <3>1, WordsAreText, MountedEntry
    <3>3. b \in EntriesOf(Top, Scoping) /\ b.handler = [kind |-> Top.schema, operation |-> "show", relationship |-> "none"]
      BY <1>1, <1>2, <2>1, <2>2, <3>1, WordsAreText, MountedEntry
    <3>. HIDE DEF a, b
    <3>. QED BY <3>1, <3>2, <3>3
  <2>4. ASSUME NEW method \in Text, NEW path \in Seq(Part), NEW operation \in Writes
        PROVE  W(method, path, operation) \in Plain
    BY <1>1, <1>2, <2>2, WordsAreText, WritingEntry
  <2>5. "create" \in Writes /\ "update" \in Writes /\ "delete" \in Writes
    BY DEF Writes
  <2>6. /\ W("POST", here, "create") \in Plain /\ W("PUT", atId, "update") \in Plain
        /\ W("PATCH", atId, "update") \in Plain /\ W("DELETE", atId, "delete") \in Plain
    BY <2>1, <2>4, <2>5, WordsAreText
  <2>. HIDE DEF W, a, b, Plain
  <2>7. es \in Seq(Plain)
    BY <2>3, <2>6
  <2>. HIDE DEF es
  <2>8. es \in Seq(EntriesOf(Top, Scoping)) /\ \A i \in DOMAIN es : es[i].handler.operation \notin Endpoints
    <3>1. Plain \subseteq EntriesOf(Top, Scoping)
      BY DEF Plain
    <3>2. es \in Seq(EntriesOf(Top, Scoping))
      BY <2>7, <3>1, SeqMonotonic
    <3>3. \A i \in DOMAIN es : es[i] \in Plain
      BY <2>7
    <3>. QED BY <3>2, <3>3 DEF Plain
  <2>. QED BY <1>2, <2>2, <2>8, PlainMountGrows
<1>. HIDE DEF y
<1>. QED BY <1>1, <1>2, CallKeeps DEF Mounting

LEMMA CloseKeeps ==
    ASSUME IInv, Close
    PROVE  IInv'
<1>1. Stacked(stack) /\ Len(stack) > 1 /\ stack' = Append(SubSeq(stack, 1, Len(stack) - 2), Merged)
  BY DEF IInv, Close, Merged
<1>2. Merged \in Builders /\ Keeps(Merged, Parent) /\ Sound(Merged, Around)
  BY <1>1, MergedIs, MergedSound
<1>3. Stacked(stack')
  <2>. HIDE DEF Merged
  <2>. QED BY <1>1, <1>2, CloseStacked DEF Parent, Around
<1>4. router' = router /\ routes' = routes /\ table' = table /\ calls' = calls /\ Building
  BY DEF Close
<1>5. ~IsServing
  BY <1>4 DEF Building, IsServing
<1>. QED BY <1>3, <1>4, <1>5 DEF IInv, Building, IsServing

LEMMA RootStacked == Stacked(<<Root>>)
<1>. DEFINE none == <<>>
            s == <<Root>>
<1>1. none \in Seq(Part) /\ none \in Seq(Middlewares) /\ Raw \in Kinds /\ Len(none) = 0
  BY DEF Kinds
<1>2. Root = [tier |-> "primary", opened |-> "root", guard |-> Always, path |-> none,
              middleware |-> none, schema |-> Raw, readOnly |-> FALSE, routes |-> <<>>, mounts |-> <<>>,
              claimed |-> {}, templates |-> <<>>]
  BY DEF Root
<1>3. Tiered(none, Raw)
  BY DEF Tiered, AllPrimary
<1>. HIDE DEF none, Root
<1>4. Root \in Builders
  BY <1>1, <1>2, FreshBuilder
<1>5. /\ Root.tier = "primary" /\ Root.opened = "root" /\ Root.schema = Raw /\ Root.readOnly = FALSE
      /\ Root.routes = <<>> /\ Root.mounts = <<>> /\ Root.claimed = {} /\ Root.templates = <<>>
      /\ Root.middleware = none /\ Root.guard = Always
  BY <1>2
<1>6. \A scoped : Sound(Root, scoped)
  BY <1>3, <1>4, <1>5, EmptySound
<1>7. s \in Seq(Builders) /\ Len(s) = 1 /\ s[1] = Root
  BY <1>4
<1>. HIDE DEF s
<1>8. SubSeq(s, 1, 1) = s
  BY <1>7
<1>9. Guarding(s) = Guarding(none)
  <2>1. GuardedBy(none) /\ GuardedBy(s) /\ SameGuards(Len(none), none, s)
    BY <1>1, <1>5, <1>7, CallsTyped DEF GuardedBy, SameGuards
  <2>2. Len(s) = Len(none) + 1
    BY <1>1, <1>7
  <2>3. Guarding(s) = Guards1(Guarding(none), s[Len(s)])
    BY <2>1, <2>2, GuardingOneMore
  <2>. QED BY <1>5, <1>7, <2>3 DEF Guards1
<1>10. Placed(s, 1)
  <2>1. ReadOnlyAt(s, 1) = FALSE
    BY <1>5, <1>7 DEF ReadOnlyAt
  <2>2. s[1].tier = "primary" /\ \A j \in 1..1 : s[j].tier = "primary"
    BY <1>5, <1>7
  <2>3. Sound(s[1], ScopedAt(s, 1))
    BY <1>6, <1>7
  <2>4. Guarding(s[1].middleware) = Guarding(SubSeq(s, 1, 1))
    BY <1>5, <1>7, <1>8, <1>9
  <2>. QED BY <1>5, <1>7, <2>1, <2>2, <2>3, <2>4 DEF Placed
<1>11. 1 \in 1..MaxDepth
  BY CallsAssumption
<1>. QED BY <1>7, <1>10, <1>11 DEF Stacked, s

LEMMA InitKeeps ==
    ASSUME Init
    PROVE  IInv
<1>1. 0 \in 0..MaxCalls
  BY CallsAssumption
<1>. QED BY <1>1, RootStacked DEF Init, IInv, Building, IsServing

\* The last of the indices a resolve reads of the table is that of its kind.
LEMMA ResolveKeeps ==
    ASSUME IInv, Resolve
    PROVE  IInv'
<1>. DEFINE root == stack[1]
            fault == Resolution(Top.routes, Top.mounts)
            kinds == {m.kind : m \in ToSet(Top.mounts)}
            At(kind) == SelectLastInSeq(Top.mounts, LAMBDA m : m.kind = kind)
<1>1. Stacked(stack) /\ Len(stack) = 1 /\ stack' = stack /\ calls' = calls /\ calls \in 0..MaxCalls
  BY DEF IInv, Resolve
<1>2. /\ router' = [state |-> IF fault = Ok THEN "serving" ELSE "refused", fault |-> fault]
      /\ routes' = IF fault = Ok THEN Top.routes ELSE <<>>
      /\ table' = IF fault = Ok THEN [kind \in kinds |-> Top.mounts[At(kind)]] ELSE <<>>
  BY DEF Resolve
<1>3. Top = root /\ Top.mounts \in Seq(Mounts)
  <2>1. Top = stack[Depth] /\ Depth = 1 /\ Top \in Builders
    BY <1>1, TopIs DEF Depth
  <2>. QED BY <2>1 DEF Builders
<1>4. CASE fault # Ok
  BY <1>1, <1>2, <1>4 DEF IInv, Building, IsServing
<1>5. CASE fault = Ok
  <2>. DEFINE ms == Top.mounts
  <2>1. \A i, j \in DOMAIN ms : ms[i].kind = ms[j].kind => i = j
    <3>1. ~\E i, j \in DOMAIN ms : i # j /\ ms[i].kind = ms[j].kind
      <4>. HIDE DEF ms
      <4>1. Resolution(Top.routes, ms) = Ok
        BY <1>5 DEF ms
      <4>2. "DuplicateResource" # Ok
        BY DEF Ok
      <4>. DEFINE faulty == {i \in DOMAIN Top.routes : Top.routes[i].fault # Ok}
      <4>3. faulty = {}
        <5>. SUFFICES ASSUME faulty # {} PROVE FALSE
          OBVIOUS
        <5>1. Resolution(Top.routes, ms) = Top.routes[Min(faulty)].fault
          BY DEF Resolution
        <5>2. Top.routes \in Seq(GoodEntries)
          BY <1>1, TopIs DEF Builders
        <5>3. faulty \subseteq 1..Len(Top.routes) /\ Len(Top.routes) \in Nat
          BY <5>2
        <5>4. Min(faulty) \in faulty
          <6>. HIDE DEF faulty
          <6>. QED BY <5>3, LeastIsMember
        <5>. QED BY <4>1, <5>1, <5>4
      <4>. QED BY <4>1, <4>2, <4>3 DEF Resolution
    <3>. QED BY <3>1
  <2>2. ms \in Seq(Mounts) /\ DOMAIN ms = 1..Len(ms) /\ Len(ms) \in Nat
    BY <1>3
  <2>3. kinds = {ms[i].kind : i \in DOMAIN ms}
    BY DEF ToSet
  <2>4. ASSUME NEW i \in DOMAIN ms PROVE At(ms[i].kind) = i
    <3>. DEFINE hits == {k \in 1..Len(ms) : ms[k].kind = ms[i].kind}
    <3>1. hits = {i}
      BY <2>1, <2>2
    <3>2. At(ms[i].kind) = IF hits # {} THEN Max(hits) ELSE 0
      BY DEF SelectLastInSeq
    <3>3. hits \subseteq 1..Len(ms)
      OBVIOUS
    <3>. HIDE DEF hits
    <3>4. Max(hits) \in hits
      BY <2>2, <3>1, <3>3, GreatestIsMember
    <3>. QED BY <3>1, <3>2, <3>4
  <2>5. /\ router'.state = "serving" /\ routes' = Top.routes
        /\ table' = [kind \in kinds |-> ms[At(kind)]]
    BY <1>2, <1>5
  <2>. HIDE DEF At, kinds, ms
  <2>6. \A i \in DOMAIN ms : table'[ms[i].kind] = ms[i] /\ MountedAt(ms, ms[i].kind) = {i}
    BY <2>1, <2>3, <2>4, <2>5 DEF MountedAt
  <2>7. ServesTheRoot'
    BY <1>1, <1>3, <2>3, <2>5, <2>6 DEF ServesTheRoot, ms
  <2>. QED BY <1>1, <2>5, <2>7 DEF IInv, Building, IsServing
<1>. QED BY <1>4, <1>5

LEMMA NextKeeps ==
    ASSUME IInv, [Next]_vars
    PROVE  IInv'
<1>1. ASSUME NEW method \in Methods, NEW segments \in Leaves, Verb(method, segments) PROVE IInv'
  BY <1>1, VerbMounts, MountingKeeps
<1>2. ASSUME NEW segments \in Segments, Scope(segments) PROVE IInv'
  BY <1>2, ScopeKeeps
<1>3. ASSUME NEW guard \in Guards, Middleware(guard) PROVE IInv'
  BY <1>3, MiddlewareKeeps
<1>4. ASSUME NEW segments \in Segments, NEW guard \in Guards, MiddlewareAt(segments, guard) PROVE IInv'
  BY <1>4, MiddlewareAtKeeps
<1>5. ASSUME NEW resource \in Resources, Resource(resource) PROVE IInv'
  BY <1>5, ResourceKeeps
<1>6. CASE DefaultEndpoints
  BY <1>6, DefaultEndpointsMounts, MountingKeeps
<1>7. ASSUME NEW name \in Names, NEW slots \in Slots, NEW config \in Configs, Relationship(name, slots, config)
      PROVE  IInv'
  BY <1>7, RelationshipMounts, MountingKeeps
<1>8. ASSUME NEW slots \in Slots, NEW config \in Configs, AllRelationships(slots, config) PROVE IInv'
  BY <1>8, AllRelationshipsMounts, MountingKeeps
<1>9. CASE Member
  BY <1>9, MemberKeeps
<1>10. CASE Close
  BY <1>10, CloseKeeps
<1>11. CASE Resolve
  BY <1>11, ResolveKeeps
<1>12. CASE UNCHANGED vars
  BY <1>12 DEF vars, IInv, Building, IsServing, ServesTheRoot
<1>. QED BY <1>1, <1>2, <1>3, <1>4, <1>5, <1>6, <1>7, <1>8, <1>9, <1>10, <1>11, <1>12 DEF Next

-----------------------------------------------------------------------------
(* What is proved of every run of the builders. *)

(* Every open builder stays sound, and what is served is what the outermost *)
(* one held: the inductive invariant behind the theorems below.             *)
THEOREM BuildersStaySound == Spec => []IInv
<1>1. Init => IInv
  BY InitKeeps
<1>2. IInv /\ [Next]_vars => IInv'
  BY NextKeeps
<1>. QED BY <1>1, <1>2, PTL DEF Spec

(* What a served router's tables say of its routes. *)
LEMMA ServedIs ==
    ASSUME IInv, IsServing
    PROVE  /\ routes \in Seq(GoodEntries) /\ DOMAIN routes = 1..Len(routes) /\ Len(routes) \in Nat
           /\ \A kind \in DOMAIN Schemas : kind \notin DOMAIN table => routes \in Seq(Without(kind))
           /\ \A kind \in DOMAIN table :
                 /\ kind \in DOMAIN Schemas
                 /\ Linked(routes, kind, table[kind].templates)
                 /\ table[kind].templates \in Templates
                 /\ \E readOnly \in BOOLEAN : routes \in Seq(Declaring(kind, readOnly))
<1>. DEFINE root == stack[1]
            ms == root.mounts
<1>1. Len(stack) = 1 /\ routes = root.routes /\ Stacked(stack)
  BY DEF IInv, ServesTheRoot
<1>2. root \in Builders /\ Sound(root, ScopedAt(stack, 1)) /\ root.tier = "primary"
  <2>1. 1 \in 1..Len(stack) /\ stack \in Seq(Builders) /\ Placed(stack, 1)
    BY <1>1 DEF Stacked
  <2>. QED BY <2>1 DEF Placed
<1>3. ms \in Seq(Mounts) /\ root.routes \in Seq(GoodEntries)
  BY <1>2 DEF Builders
<1>4. \A kind \in DOMAIN Schemas : KindSound(routes, ms, kind)
  BY <1>1, <1>2 DEF Sound
<1>5. /\ DOMAIN table = {ms[i].kind : i \in DOMAIN ms}
      /\ \A i \in DOMAIN ms : table[ms[i].kind] = ms[i] /\ MountedAt(ms, ms[i].kind) = {i}
  BY DEF IInv, ServesTheRoot
<1>. HIDE DEF ms, root
<1>6. ASSUME NEW kind \in DOMAIN Schemas, kind \notin DOMAIN table PROVE routes \in Seq(Without(kind))
  <2>1. MountedAt(ms, kind) = {}
    BY <1>5, <1>6 DEF MountedAt
  <2>. QED BY <1>4, <2>1 DEF KindSound
<1>7. ASSUME NEW kind \in DOMAIN table
      PROVE  /\ kind \in DOMAIN Schemas
             /\ Linked(routes, kind, table[kind].templates)
             /\ table[kind].templates \in Templates
             /\ \E readOnly \in BOOLEAN : routes \in Seq(Declaring(kind, readOnly))
  <2>1. PICK i \in DOMAIN ms : ms[i].kind = kind
    BY <1>5
  <2>2. ms[i] \in Mounts
    BY <1>3
  <2>3. kind \in DOMAIN Schemas /\ ms[i].templates \in Templates
    BY <2>1, <2>2 DEF Mounts
  <2>4. table[kind] = ms[i] /\ MountedAt(ms, kind) = {i}
    BY <1>5, <2>1
  <2>. QED BY <1>4, <2>3, <2>4 DEF KindSound
<1>. QED BY <1>1, <1>3, <1>6, <1>7

(* The state stays typed: the outermost builder is the root, the tier of a *)
(* builder is that of its schema, and nothing is served before resolving.  *)
THEOREM RoutesTyped == Spec => []TypeOK
<1>1. IInv => TypeOK
  <2>. SUFFICES ASSUME IInv PROVE TypeOK
    OBVIOUS
  <2>1. Stacked(stack) /\ DOMAIN stack = 1..Len(stack) /\ Len(stack) \in 1..MaxDepth /\ MaxDepth \in Nat
    BY CallsAssumption DEF IInv, Stacked
  <2>2. 1 \in 1..Len(stack)
    BY <2>1
  <2>3. stack[1].opened = "root"
    BY <2>1, <2>2 DEF Stacked, Placed
  <2>4. \A i \in DOMAIN stack : stack[i].tier = "primary" <=> stack[i].schema = Raw
    BY <2>1 DEF Stacked, Placed, Sound
  <2>. QED BY <2>1, <2>3, <2>4 DEF IInv, TypeOK
<1>. QED BY <1>1, BuildersStaySound, PTL

(* No handler of a kind mounted with read_only_resource_with writes, in    *)
(* whatever block, form or configuration it was mounted.                   *)
THEOREM ReadOnlyIsNeverWritten == Spec => []ReadOnlyKindsNeverWrite
<1>1. IInv => ReadOnlyKindsNeverWrite
  <2>. SUFFICES ASSUME IInv, IsServing, NEW i \in DOMAIN routes, NEW j \in DOMAIN routes,
                       routes[i].mark.readOnly, routes[j].handler.kind = routes[i].handler.kind
                PROVE  routes[j].handler.operation \notin Writes
    BY DEF ReadOnlyKindsNeverWrite
  <2>. DEFINE kind == routes[i].handler.kind
  <2>1. routes[i] \in GoodEntries /\ routes[j] \in GoodEntries
    BY ServedIs
  <2>2. CASE kind = Raw
    BY <2>1, <2>2 DEF GoodEntries
  <2>3. CASE kind # Raw
    <3>1. kind \in DOMAIN Schemas
      BY <2>1, <2>3 DEF GoodEntries, EntryRecords, Handlers, Kinds
    <3>2. kind \in DOMAIN table
      <4>. SUFFICES ASSUME kind \notin DOMAIN table PROVE FALSE
        OBVIOUS
      <4>1. routes \in Seq(Without(kind))
        BY <3>1, ServedIs
      <4>2. routes[i] \in Without(kind)
        BY <4>1
      <4>. QED BY <4>2 DEF Without
    <3>3. PICK readOnly \in BOOLEAN : routes \in Seq(Declaring(kind, readOnly))
      BY <3>2, ServedIs
    <3>4. routes[i] \in Declaring(kind, readOnly) /\ routes[j] \in Declaring(kind, readOnly)
      BY <3>3
    <3>. QED BY <3>4 DEF Declaring
  <2>. QED BY <2>2, <2>3
<1>. QED BY <1>1, BuildersStaySound, PTL

(* claim_slot and absorb_resource lose no template and keep no stale one: a *)
(* slot's links lead to the first route that serves it, from any block.     *)
THEOREM SlotsAreLinked == Spec => []EndpointsAreLinked
<1>1. IInv => EndpointsAreLinked
  <2>. SUFFICES ASSUME IInv, IsServing, NEW kind \in DOMAIN table, NEW r \in ToSet(Schemas[kind]),
                       NEW operation \in {"linkage", "related"},
                       NEW slot, slot = <<r.name, operation>>,
                       NEW endpoints, endpoints = EndpointsOf(kind, slot)
                PROVE  /\ slot \in DOMAIN table[kind].templates <=> endpoints # {}
                       /\ endpoints # {} => table[kind].templates[slot] = routes[Min(endpoints)].path
    BY DEF EndpointsAreLinked
  <2>1. slot \in SlotPairs
    <3>1. Schemas[kind] \in Seq([name : Text, kind : Text])
      BY ServedIs, CallsTyped
    <3>2. r \in [name : Text, kind : Text]
      <4>. DEFINE declared == Schemas[kind]
      <4>1. declared \in Seq([name : Text, kind : Text]) /\ r \in ToSet(declared)
        BY <3>1
      <4>. HIDE DEF declared
      <4>2. PICK i \in DOMAIN declared : r = declared[i]
        BY <4>1 DEF ToSet
      <4>. DEFINE declarations == [name : Text, kind : Text]
      <4>3. declared \in Seq(declarations)
        BY <4>1
      <4>. HIDE DEF declarations
      <4>4. r \in declarations
        BY <4>2, <4>3
      <4>. QED BY <4>4 DEF declarations
    <3>. QED BY <3>2 DEF SlotPairs
  <2>2. endpoints = {j \in DOMAIN routes : IsEndpoint(routes[j], kind, slot)}
    BY DEF EndpointsOf, IsEndpoint
  <2>3. SlotLinked(routes, kind, table[kind].templates, slot)
    BY <2>1, ServedIs DEF Linked
  <2>4. CASE slot \notin DOMAIN table[kind].templates
    BY <2>2, <2>3, <2>4 DEF SlotLinked
  <2>5. CASE slot \in DOMAIN table[kind].templates
    <3>1. PICK j \in DOMAIN routes :
             FirstEndpoint(routes, kind, slot, j) /\ table[kind].templates[slot] = routes[j].path
      BY <2>3, <2>5 DEF SlotLinked
    <3>2. j \in endpoints
      BY <2>2, <3>1 DEF FirstEndpoint
    <3>3. endpoints \subseteq 1..Len(routes) /\ Len(routes) \in Nat
      BY <2>2, ServedIs
    <3>4. Min(endpoints) \in endpoints /\ Min(endpoints) <= j
      BY <3>2, <3>3, LeastIsMember
    <3>5. Min(endpoints) = j
      <4>. SUFFICES ASSUME Min(endpoints) # j PROVE FALSE
        OBVIOUS
      <4>1. Min(endpoints) \in 1..(j - 1)
        BY <3>2, <3>3, <3>4
      <4>. QED BY <2>2, <3>1, <3>4, <4>1 DEF FirstEndpoint
    <3>. QED BY <2>5, <3>1, <3>2, <3>5
  <2>. QED BY <2>4, <2>5
<1>. QED BY <1>1, BuildersStaySound, PTL

\* The chain of a route runs whole, and its boundary is where the tier begins.
LEMMA ChainsRunWhole ==
    ASSUME NEW e \in GoodEntries
    PROVE  /\ Served(e).ran = e.middleware /\ Served(e).outcome = "handler"
           /\ e.handler.kind = Raw => \A i \in DOMAIN e.middleware : e.middleware[i].tier = "primary"
           /\ e.handler.kind # Raw => \E b \in DOMAIN e.middleware : BoundaryAt(e.middleware, b)
<1>. DEFINE chain == e.middleware
            n == Len(chain)
            others == {i \in 1..n : chain[i].tier # "primary"}
            lead == Leading(e)
<1>1. chain \in Seq(Middlewares) /\ Tiered(chain, e.handler.kind) /\ n \in Nat /\ DOMAIN chain = 1..n
  BY DEF GoodEntries, EntryRecords
<1>2. lead = IF others # {} THEN Min(others) ELSE 0
  BY DEF Leading, SelectInSeq
<1>. HIDE DEF chain, lead
<1>3. CASE e.handler.kind = Raw
  <2>1. \A i \in 1..n : chain[i].tier = "primary"
    BY <1>1, <1>3 DEF Tiered, AllPrimary
  <2>2. lead = 0
    BY <1>2, <2>1
  <2>3. Served(e) = [ran |-> SubSeq(chain, 1, n), outcome |-> "handler"]
    BY <1>3, <2>2 DEF Served, chain, lead
  <2>4. SubSeq(chain, 1, n) = chain
    BY <1>1
  <2>. QED BY <1>1, <1>3, <2>1, <2>3, <2>4 DEF chain
<1>4. CASE e.handler.kind # Raw
  <2>1. PICK b \in 1..n : BoundaryAt(chain, b)
    BY <1>1, <1>4 DEF Tiered
  <2>2. others = b..n
    BY <1>1, <2>1 DEF BoundaryAt, Boundary
  <2>3. lead = b
    <3>. HIDE DEF others
    <3>1. others \subseteq 1..n /\ b \in others
      BY <1>1, <2>2
    <3>2. Min(others) \in others /\ Min(others) <= b
      BY <1>1, <3>1, LeastIsMember
    <3>. QED BY <1>2, <2>2, <3>1, <3>2
  <2>. DEFINE rest == SubSeq(chain, (b - 1) + 1, n)
              late == {i \in 1..Len(rest) : rest[i].tier = "primary"}
  <2>4. late = {}
    <3>1. Len(rest) = n - b + 1 /\ \A i \in 1..(n - b + 1) : rest[i] = chain[b + i - 1]
      BY <1>1
    <3>. HIDE DEF rest
    <3>2. \A i \in 1..(n - b + 1) : b + i - 1 \in b..n
      BY <1>1
    <3>3. \A i \in b..n : chain[i].tier # "primary"
      BY <1>1, <2>2
    <3>. QED BY <3>1, <3>2, <3>3
  <2>5. SelectInSeq(rest, LAMBDA m : m.tier = "primary") = 0
    <3>. HIDE DEF rest
    <3>. QED BY <2>4 DEF SelectInSeq
  <2>6. b # 0
    BY <1>1
  <2>7. Served(e) = [ran |-> chain, outcome |-> "handler"]
    BY <1>4, <2>3, <2>5, <2>6 DEF Served, chain, lead
  <2>. QED BY <1>1, <1>4, <2>1, <2>7 DEF chain
<1>. QED BY <1>3, <1>4

Wrapped(j) ==
    LET ran == Served(routes[j]).ran
        ofTier == {i \in DOMAIN ran : ran[i].tier = "resource"}
    IN /\ Served(routes[j]).outcome = "handler"
       /\ Guarding(ran) = routes[j].mark.blocks
       /\ routes[j].handler.kind = Raw => ofTier = {}
       /\ routes[j].handler.kind # Raw =>
            ofTier # {} /\ {i \in DOMAIN ran : ran[i] = Boundary} = {Min(ofTier)}

(* Whatever the blocks and however they nest, serve runs their middleware   *)
(* around every handler mounted in them, outermost first, and the JSON:API  *)
(* boundary in front of the resource tier.                                  *)
THEOREM MiddlewareStaysAround == Spec => []MiddlewareWrapsItsBlock
<1>1. IInv => MiddlewareWrapsItsBlock
  <2>. SUFFICES ASSUME IInv, IsServing PROVE MiddlewareWrapsItsBlock
    BY DEF MiddlewareWrapsItsBlock
  <2>. SUFFICES ASSUME NEW j \in DOMAIN routes PROVE Wrapped(j)
    BY DEF MiddlewareWrapsItsBlock, Wrapped
  <2>. DEFINE ran == Served(routes[j]).ran
              ofTier == {i \in DOMAIN ran : ran[i].tier = "resource"}
  <2>1. routes[j] \in GoodEntries
    BY ServedIs
  <2>2. ran = routes[j].middleware /\ Served(routes[j]).outcome = "handler"
    BY <2>1, ChainsRunWhole
  <2>. HIDE DEF ran
  <2>3. /\ Guarding(ran) = routes[j].mark.blocks
        /\ ran \in Seq(Middlewares) /\ Len(ran) \in Nat /\ DOMAIN ran = 1..Len(ran)
    BY <2>1, <2>2 DEF GoodEntries, EntryRecords
  <2>4. ASSUME routes[j].handler.kind = Raw PROVE ofTier = {}
    <3>1. \A i \in DOMAIN ran : ran[i].tier = "primary"
      BY <2>1, <2>2, <2>4, ChainsRunWhole
    <3>. QED BY <2>2, <2>3, <2>4, <3>1
  <2>5. ASSUME routes[j].handler.kind # Raw
        PROVE  ofTier # {} /\ {i \in DOMAIN ran : ran[i] = Boundary} = {Min(ofTier)}
    <3>1. PICK b \in DOMAIN ran : BoundaryAt(ran, b)
      BY <2>1, <2>2, <2>5, ChainsRunWhole
    <3>2. ofTier = b..Len(ran)
      BY <2>3, <3>1 DEF BoundaryAt, Boundary
    <3>3. {i \in DOMAIN ran : ran[i] = Boundary} = {b}
      BY <2>3, <3>1 DEF BoundaryAt, Boundary
    <3>4. ofTier \subseteq 1..Len(ran) /\ b \in ofTier
      BY <2>3, <3>2
    <3>5. Min(ofTier) \in ofTier /\ Min(ofTier) <= b
      BY <2>3, <3>4, LeastIsMember
    <3>6. Min(ofTier) = b
      <4>. DEFINE least == Min(ofTier)
      <4>1. least \in b..Len(ran) /\ least <= b /\ b \in 1..Len(ran)
        BY <2>3, <3>2, <3>5
      <4>. HIDE DEF least
      <4>2. least = b
        BY <2>3, <4>1
      <4>. QED BY <4>2 DEF least
    <3>. QED BY <2>2, <2>3, <2>5, <3>3, <3>4, <3>6
  <2>6. /\ routes[j].handler.kind = Raw => ofTier = {}
        /\ routes[j].handler.kind # Raw =>
             ofTier # {} /\ {i \in DOMAIN ran : ran[i] = Boundary} = {Min(ofTier)}
    BY <2>4, <2>5
  <2>. QED BY <2>2, <2>3, <2>6 DEF Wrapped, ran
<1>. QED BY <1>1, BuildersStaySound, PTL

-----------------------------------------------------------------------------
(* Links.  A value survives being encoded into a path and decoded from it, *)
(* so a link that can be rendered is matched by the template it came from. *)

LEMMA EncodingReturns ==
    ASSUME NEW v \in Values
    PROVE  Encode(v) \notin Undecodable /\ Decode(Encode(v)) = v
<1>1. CASE v \in DOMAIN Encoding
  <2>1. Encode(v) = Encoding[v] /\ Encoding[v] \notin Undecodable
    BY <1>1, EncodingAssumption DEF Encode
  <2>2. \A w \in DOMAIN Encoding : Encoding[w] = Encoding[v] => w = v
    BY <1>1, EncodingAssumption
  <2>3. (CHOOSE w \in DOMAIN Encoding : Encoding[w] = Encoding[v]) = v
    BY <1>1, <2>2
  <2>4. Decode(Encoding[v]) = CHOOSE w \in DOMAIN Encoding : Encoding[w] = Encoding[v]
    BY <1>1 DEF Decode
  <2>. QED BY <2>1, <2>3, <2>4
<1>2. CASE v \notin DOMAIN Encoding
  <2>1. v = "1" /\ Encode(v) = v
    BY <1>2 DEF Values, Encode
  <2>. QED BY <2>1, PlainAssumption DEF Decode
<1>. QED BY <1>1, <1>2

OfValues(parameters) == \A n \in DOMAIN parameters : parameters[n] \in Values

Recovers(e, request, id, parameters) ==
    \A n \in CaptureNames(e.path) :
        Parameters(e, request)[n] = IF n = "id" THEN id ELSE parameters[n]

LEMMA LinkIsMatched ==
    ASSUME NEW e \in GoodEntries, e.method = "GET", NEW id \in Values,
           NEW parameters, OfValues(parameters),
           Link(e.path, id, parameters).fault = Ok,
           NEW request, request = Reached(Link(e.path, id, parameters).path)
    PROVE  Matches(e, request) /\ MatchesPath(e, request) /\ Recovers(e, request, id, parameters)
<1>. DEFINE t == e.path
            names == CaptureNames(t)
            resolved == ParametersForRoute(id, parameters, names)
            path == Link(t, id, parameters).path
            value(n) == IF n = "id" THEN id ELSE parameters[n]
<1>1. t \in Seq(Part) /\ e.middleware \in Seq(Middlewares) /\ Len(t) \in Nat /\ DOMAIN t = 1..Len(t)
  BY DEF GoodEntries, EntryRecords
<1>2. /\ names \ DOMAIN resolved = {}
      /\ \A i \in DOMAIN t : t[i].kind # "glob"
      /\ path = [i \in DOMAIN t |-> IF t[i].kind = "param" THEN Encode(resolved[t[i].name]) ELSE t[i].name]
  <2>1. "LinkGenerationFailed" # Ok
    BY DEF Ok
  <2>. HIDE DEF t, names, resolved
  <2>2. Link(t, id, parameters) = Render(t, resolved)
    BY DEF Link, names, resolved
  <2>3. Render(t, resolved).fault = Ok
    BY <2>2 DEF t
  <2>4. names = CaptureNames(t)
    BY DEF names
  <2>. QED BY <2>1, <2>2, <2>3, <2>4 DEF Render
<1>3. ASSUME NEW n \in names PROVE resolved[n] = value(n) /\ value(n) \in Values
  <2>1. n \in DOMAIN resolved
    BY <1>2, <1>3
  <2>2. n = "id" \/ n \in DOMAIN parameters
    BY <2>1 DEF ParametersForRoute
  <2>. QED BY <2>1, <2>2 DEF ParametersForRoute, OfValues
<1>4. \A i \in Captures(t) : i \in DOMAIN t /\ t[i].kind = "param" /\ t[i].name \in names
  BY DEF Captures, CaptureNames
<1>5. DOMAIN path = 1..Len(t) /\ Len(path) = Len(t)
  BY <1>1, <1>2
<1>7. request.path = path /\ request.method = "GET" /\ request.admitted = Guards
  BY DEF Reached
<1>. HIDE DEF path, resolved, names
<1>6. ASSUME NEW i \in DOMAIN t, t[i].kind = "param"
      PROVE  /\ t[i].name \in names /\ path[i] = Encode(value(t[i].name))
             /\ path[i] \notin Undecodable /\ Decode(path[i]) = value(t[i].name)
  <2>1. t[i].name \in names
    BY <1>4, <1>6 DEF Captures
  <2>2. path[i] = Encode(value(t[i].name)) /\ value(t[i].name) \in Values
    BY <1>2, <1>3, <1>6, <2>1
  <2>. QED BY <2>1, <2>2, EncodingReturns
<1>8. MatchesPath(e, request)
  <2>1. ~EndsInGlob(t)
    <3>1. t # <<>> => Last(t) = t[Len(t)] /\ Len(t) \in DOMAIN t
      BY <1>1 DEF Last
    <3>. QED BY <1>2, <3>1 DEF EndsInGlob
  <2>2. ASSUME NEW i \in DOMAIN t
        PROVE  CASE t[i].kind = "glob"   -> TRUE
                 [] t[i].kind = "param"  -> path[i] \notin Undecodable
                 [] t[i].kind = "static" -> path[i] = t[i].name
    <3>1. t[i].kind \in {"static", "param", "glob"}
      <4>1. t[i] \in Part
        BY <1>1
      <4>. QED BY <4>1 DEF Part
    <3>2. CASE t[i].kind = "param"
      BY <1>6, <3>2
    <3>3. CASE t[i].kind = "static"
      BY <1>2, <3>3
    <3>. QED BY <1>2, <3>1, <3>2, <3>3
  <2>. QED BY <1>5, <1>7, <2>1, <2>2 DEF MatchesPath
<1>9. Matches(e, request)
  <2>1. \A m \in Middlewares : m.guard \in Guards \cup {Always}
    BY DEF Middlewares
  <2>2. \A i \in DOMAIN e.middleware : e.middleware[i].guard \in request.admitted \cup {Always}
    BY <1>1, <1>7, <2>1
  <2>. QED BY <1>8, <2>2 DEF Matches
<1>10. ASSUME NEW n \in names PROVE Parameters(e, request)[n] = value(n)
  <2>. DEFINE at == {i \in Captures(t) : t[i].name = n}
  <2>1. at \subseteq 1..Len(t) /\ at # {}
    BY <1>1, <1>10 DEF names, Recovers, Captures, CaptureNames
  <2>2. Parameters(e, request)[n] = Decode(path[Max(at)])
    BY <1>7, <1>10 DEF Parameters, names
  <2>3. Max(at) \in at
    <3>. HIDE DEF at
    <3>. QED BY <1>1, <2>1, GreatestIsMember
  <2>4. Max(at) \in DOMAIN t /\ t[Max(at)].kind = "param" /\ t[Max(at)].name = n
    BY <2>3 DEF Captures
  <2>. QED BY <1>6, <2>2, <2>4
<1>. QED BY <1>8, <1>9, <1>10 DEF names, Recovers

(* A link CanonicalUriGenerator renders is dispatched to the endpoint it    *)
(* stands for or to a route declared before it, and that endpoint recovers  *)
(* the record's id and the parameters the link was rendered with.           *)
THEOREM LinksLand == Spec => []LinksLandOnTheirEndpoint
<1>1. IInv => LinksLandOnTheirEndpoint
  <2>. SUFFICES ASSUME IInv, IsServing, NEW k \in DOMAIN routes,
                       NEW parameters \in [CaptureNames(routes[k].path) -> Values],
                       NEW kind \in DOMAIN table, NEW slot \in DOMAIN table[kind].templates,
                       NEW id \in Values
                PROVE  LandsOn(kind, slot, id, parameters)
    BY DEF LinksLandOnTheirEndpoint
  <2>. DEFINE link == UriForSlot(table, kind, slot, id, parameters)
              request == Reached(link.path)
              hits == {i \in DOMAIN routes : Matches(routes[i], request)}
              hit == Dispatch(routes, request)
  <2>. SUFFICES ASSUME link.fault = Ok
                PROVE  /\ hit # 0
                       /\ \E j \in hit..Len(routes) :
                            /\ MatchesPath(routes[j], request)
                            /\ routes[j].handler = [kind |-> kind, operation |-> slot[2], relationship |-> slot[1]]
                            /\ \A n \in CaptureNames(routes[j].path) :
                                  Parameters(routes[j], request)[n] = IF n = "id" THEN id ELSE parameters[n]
    BY DEF LandsOn
  <2>1. slot \in SlotPairs /\ slot[2] \in Endpoints
    BY ServedIs DEF Templates, SlotPairs, Endpoints
  <2>2. PICK j \in DOMAIN routes :
           FirstEndpoint(routes, kind, slot, j) /\ table[kind].templates[slot] = routes[j].path
    BY <2>1, ServedIs DEF Linked, SlotLinked
  <2>3. routes[j] \in GoodEntries /\ j \in 1..Len(routes) /\ Len(routes) \in Nat
    BY ServedIs
  <2>4. routes[j].handler = [kind |-> kind, operation |-> slot[2], relationship |-> slot[1]]
    BY <2>2 DEF FirstEndpoint, IsEndpoint
  <2>5. routes[j].method = "GET"
    BY <2>1, <2>3, <2>4 DEF GoodEntries
  <2>6. link = Link(routes[j].path, id, parameters)
    BY <2>2 DEF UriForSlot
  <2>7. OfValues(parameters)
    BY DEF OfValues
  <2>. HIDE DEF link
  <2>8. /\ Matches(routes[j], request) /\ MatchesPath(routes[j], request)
        /\ \A n \in CaptureNames(routes[j].path) :
              Parameters(routes[j], request)[n] = IF n = "id" THEN id ELSE parameters[n]
    <3>. DEFINE e == routes[j]
    <3>1. e \in GoodEntries /\ e.method = "GET" /\ Link(e.path, id, parameters).fault = Ok
      BY <2>3, <2>5, <2>6
    <3>2. request = Reached(Link(e.path, id, parameters).path)
      BY <2>6
    <3>. HIDE DEF e, request
    <3>3. Matches(e, request) /\ MatchesPath(e, request) /\ Recovers(e, request, id, parameters)
      BY <2>7, <3>1, <3>2, LinkIsMatched
    <3>. QED BY <3>3 DEF e, Recovers
  <2>. HIDE DEF request
  <2>9. hit # 0 /\ hit \in Nat /\ hit <= j
    <3>1. j \in hits /\ hits \subseteq 1..Len(routes)
      BY <2>3, <2>8, ServedIs
    <3>2. hit = Min(hits)
      BY <3>1 DEF Dispatch
    <3>. HIDE DEF hits, hit
    <3>3. Min(hits) \in hits /\ Min(hits) <= j
      BY <2>3, <3>1, LeastIsMember
    <3>. QED BY <3>1, <3>2, <3>3
  <2>10. j \in hit..Len(routes)
    BY <2>3, <2>9
  <2>. QED BY <2>4, <2>8, <2>9, <2>10
<1>. QED BY <1>1, BuildersStaySound, PTL

-----------------------------------------------------------------------------
(* The nested builders come to one list that only grows. *)

RouteLists(s) == [i \in DOMAIN s |-> s[i].routes]
MountLists(s) == [i \in DOMAIN s |-> s[i].mounts]
KindsOf(mounts) == [i \in DOMAIN mounts |-> mounts[i].kind]
AllRoutes(s) == FlattenSeq(RouteLists(s))
AllMounts(s) == FlattenSeq(MountLists(s))

Agreeing(s, t) == \A i \in 1..Len(s) : t[i] = s[i]

LEMMA ListsTyped ==
    ASSUME NEW s \in Seq(Builders)
    PROVE  /\ RouteLists(s) \in Seq(Seq(GoodEntries)) /\ Len(RouteLists(s)) = Len(s)
           /\ MountLists(s) \in Seq(Seq(Mounts)) /\ Len(MountLists(s)) = Len(s)
           /\ \A i \in 1..Len(s) : RouteLists(s)[i] = s[i].routes /\ MountLists(s)[i] = s[i].mounts
           /\ AllRoutes(s) \in Seq(GoodEntries) /\ AllMounts(s) \in Seq(Mounts)
<1>1. \A i \in 1..Len(s) : s[i].routes \in Seq(GoodEntries) /\ s[i].mounts \in Seq(Mounts)
  <2>1. \A i \in 1..Len(s) : s[i] \in Builders
    OBVIOUS
  <2>. QED BY <2>1 DEF Builders
<1>2. DOMAIN s = 1..Len(s) /\ Len(s) \in Nat
  OBVIOUS
<1>3. RouteLists(s) \in [1..Len(s) -> Seq(GoodEntries)] /\ MountLists(s) \in [1..Len(s) -> Seq(Mounts)]
  BY <1>1, <1>2 DEF RouteLists, MountLists
<1>4. /\ RouteLists(s) \in Seq(Seq(GoodEntries)) /\ Len(RouteLists(s)) = Len(s)
      /\ MountLists(s) \in Seq(Seq(Mounts)) /\ Len(MountLists(s)) = Len(s)
  BY <1>2, <1>3
<1>5. \A i \in 1..Len(s) : RouteLists(s)[i] = s[i].routes /\ MountLists(s)[i] = s[i].mounts
  BY <1>2 DEF RouteLists, MountLists
<1>. QED BY <1>4, <1>5, FlattenTyped DEF AllRoutes, AllMounts

LEMMA SameAsAppended ==
    ASSUME NEW X, NEW s \in Seq(X), NEW x \in X, NEW t \in Seq(X), Len(t) = Len(s) + 1,
           t[Len(s) + 1] = x, Agreeing(s, t)
    PROVE  t = Append(s, x)
<1>. DEFINE u == Append(s, x)
            n == Len(s)
<1>1. u \in Seq(X) /\ Len(u) = n + 1 /\ n \in Nat /\ u[n + 1] = x /\ \A i \in 1..n : u[i] = s[i]
  BY AppendProperties
<1>. HIDE DEF u
<1>2. \A i \in 1..(n + 1) : t[i] = u[i]
  <2>1. \A i \in 1..(n + 1) : i = n + 1 \/ i \in 1..n
    BY <1>1
  <2>. QED BY <1>1, <2>1 DEF Agreeing
<1>3. t = u
  BY <1>1, <1>2
<1>. QED BY <1>3 DEF u

\* The lists of a stack with one more builder on it.
LEMMA ListsAppend ==
    ASSUME NEW s \in Seq(Builders), NEW b \in Builders
    PROVE  /\ AllRoutes(Append(s, b)) = AllRoutes(s) \o b.routes
           /\ AllMounts(Append(s, b)) = AllMounts(s) \o b.mounts
<1>. DEFINE t == Append(s, b)
            n == Len(s)
<1>1. t \in Seq(Builders) /\ Len(t) = n + 1 /\ n \in Nat /\ t[n + 1] = b /\ \A i \in 1..n : t[i] = s[i]
  BY AppendProperties
<1>2. b.routes \in Seq(GoodEntries) /\ b.mounts \in Seq(Mounts)
  BY DEF Builders
<1>3. \A i \in 1..(n + 1) : i = n + 1 \/ i \in 1..n
  BY <1>1
<1>. HIDE DEF t
<1>4. RouteLists(t) = Append(RouteLists(s), b.routes)
  <2>. DEFINE lt == RouteLists(t)
              ls == RouteLists(s)
  <2>1. lt \in Seq(Seq(GoodEntries)) /\ Len(lt) = n + 1 /\ \A i \in 1..(n + 1) : lt[i] = t[i].routes
    BY <1>1, ListsTyped
  <2>2. ls \in Seq(Seq(GoodEntries)) /\ Len(ls) = n /\ \A i \in 1..n : ls[i] = s[i].routes
    BY <1>1, ListsTyped
  <2>. HIDE DEF lt, ls
  <2>3. \A i \in 1..n : i \in 1..(n + 1)
    BY <1>1
  <2>4. Agreeing(ls, lt)
    BY <1>1, <2>1, <2>2, <2>3 DEF Agreeing
  <2>5. n + 1 \in 1..(n + 1) /\ lt[Len(ls) + 1] = b.routes /\ Len(lt) = Len(ls) + 1
    BY <1>1, <2>1, <2>2
  <2>6. lt = Append(ls, b.routes)
    BY <1>2, <2>1, <2>2, <2>4, <2>5, SameAsAppended
  <2>. QED BY <2>6 DEF lt, ls
<1>5. MountLists(t) = Append(MountLists(s), b.mounts)
  <2>. DEFINE lt == MountLists(t)
              ls == MountLists(s)
  <2>1. lt \in Seq(Seq(Mounts)) /\ Len(lt) = n + 1 /\ \A i \in 1..(n + 1) : lt[i] = t[i].mounts
    BY <1>1, ListsTyped
  <2>2. ls \in Seq(Seq(Mounts)) /\ Len(ls) = n /\ \A i \in 1..n : ls[i] = s[i].mounts
    BY <1>1, ListsTyped
  <2>. HIDE DEF lt, ls
  <2>3. \A i \in 1..n : i \in 1..(n + 1)
    BY <1>1
  <2>4. Agreeing(ls, lt)
    BY <1>1, <2>1, <2>2, <2>3 DEF Agreeing
  <2>5. n + 1 \in 1..(n + 1) /\ lt[Len(ls) + 1] = b.mounts /\ Len(lt) = Len(ls) + 1
    BY <1>1, <2>1, <2>2
  <2>6. lt = Append(ls, b.mounts)
    BY <1>2, <2>1, <2>2, <2>4, <2>5, SameAsAppended
  <2>. QED BY <2>6 DEF lt, ls
<1>6. AllRoutes(t) = AllRoutes(s) \o b.routes
  BY <1>2, <1>4, ListsTyped, FlattenAppend DEF AllRoutes
<1>7. AllMounts(t) = AllMounts(s) \o b.mounts
  BY <1>2, <1>5, ListsTyped, FlattenAppend DEF AllMounts
<1>. QED BY <1>6, <1>7 DEF t

\* A stack is its last builder on top of the others.
LEMMA StackFront ==
    ASSUME NEW s \in Seq(Builders), NEW n \in Nat, Len(s) = n + 1
    PROVE  /\ SubSeq(s, 1, n) \in Seq(Builders) /\ Len(SubSeq(s, 1, n)) = n /\ s[n + 1] \in Builders
           /\ \A i \in 1..n : SubSeq(s, 1, n)[i] = s[i]
           /\ s = Append(SubSeq(s, 1, n), s[n + 1])
<1>. DEFINE front == SubSeq(s, 1, n)
<1>1. \A i \in 1..n : s[i] \in Builders
  OBVIOUS
<1>2. front \in Seq(Builders) /\ Len(front) = n /\ \A i \in 1..n : front[i] = s[i]
  BY <1>1, SubSeqProperties
<1>3. s[n + 1] \in Builders
  OBVIOUS
<1>. HIDE DEF front
<1>4. s = Append(front, s[n + 1])
  BY <1>2, <1>3
<1>. QED BY <1>2, <1>3, <1>4 DEF front

Extends(t, s) ==
    /\ \E more \in Seq(GoodEntries) : AllRoutes(t) = AllRoutes(s) \o more
    /\ \E more \in Seq(Mounts) : AllMounts(t) = AllMounts(s) \o more

LEMMA OpenExtends ==
    ASSUME NEW s \in Seq(Builders), NEW b \in Builders
    PROVE  Extends(Append(s, b), s)
<1>1. b.routes \in Seq(GoodEntries) /\ b.mounts \in Seq(Mounts)
  BY DEF Builders
<1>. QED BY <1>1, ListsAppend DEF Extends

LEMMA BecomesExtends ==
    ASSUME Stacked(stack), NEW y \in Grown(Top, Scoping)
    PROVE  Extends([stack EXCEPT ![Len(stack)] = y], stack)
<1>. DEFINE n == Len(stack) - 1
            front == SubSeq(stack, 1, n)
            t == [stack EXCEPT ![Len(stack)] = y]
<1>1. stack \in Seq(Builders) /\ n \in Nat /\ Len(stack) = n + 1 /\ Top = stack[n + 1]
  BY TopIs DEF Stacked, Depth
<1>2. y \in Builders /\ y.mounts = Top.mounts /\ Top \in Builders
  BY TopIs DEF Grown
<1>3. PICK entries \in Seq(GoodEntries) : y.routes = Top.routes \o entries
  BY DEF Grown, Lengthens
<1>. HIDE DEF n
<1>4. /\ front \in Seq(Builders) /\ stack = Append(front, Top) /\ Len(front) = n
      /\ \A i \in 1..n : front[i] = stack[i]
  BY <1>1, StackFront
<1>. HIDE DEF front
<1>5. t = Append(front, y)
  <2>1. t \in Seq(Builders) /\ Len(t) = n + 1 /\ t[n + 1] = y /\ \A i \in 1..n : t[i] = stack[i]
    BY <1>1, <1>2
  <2>. HIDE DEF t
  <2>2. Agreeing(front, t) /\ Len(t) = Len(front) + 1 /\ t[Len(front) + 1] = y
    BY <1>4, <2>1 DEF Agreeing
  <2>. QED BY <1>2, <1>4, <2>1, <2>2, SameAsAppended
<1>6. /\ AllRoutes(t) = AllRoutes(front) \o y.routes /\ AllMounts(t) = AllMounts(front) \o y.mounts
      /\ AllRoutes(stack) = AllRoutes(front) \o Top.routes /\ AllMounts(stack) = AllMounts(front) \o Top.mounts
  BY <1>2, <1>4, <1>5, ListsAppend
<1>. DEFINE f == AllRoutes(front)
            r == Top.routes
<1>7. f \in Seq(GoodEntries) /\ r \in Seq(GoodEntries) /\ AllMounts(stack) \in Seq(Mounts)
  BY <1>1, <1>2, <1>4, ListsTyped DEF Builders
<1>. HIDE DEF f, r, t
<1>8. f \o (r \o entries) = (f \o r) \o entries
  BY <1>7
<1>9. AllRoutes(t) = AllRoutes(stack) \o entries
  BY <1>3, <1>6, <1>8 DEF f, r
<1>10. AllMounts(t) = AllMounts(stack) \o <<>> /\ <<>> \in Seq(Mounts)
  BY <1>2, <1>6, <1>7, ConcatEmptySeq
<1>. QED BY <1>9, <1>10 DEF Extends, t

LEMMA CloseExtends ==
    ASSUME Stacked(stack), Len(stack) > 1
    PROVE  Extends(Append(SubSeq(stack, 1, Len(stack) - 2), Merged), stack)
<1>. DEFINE n == Len(stack) - 2
            outer == SubSeq(stack, 1, n)
            t == Append(outer, Merged)
<1>1. /\ stack \in Seq(Builders) /\ n \in Nat /\ Len(stack) = (n + 1) + 1 /\ n + 1 \in Nat
      /\ Top = stack[(n + 1) + 1] /\ Parent = stack[n + 1]
  BY TopIs DEF Stacked, Depth, Parent
<1>2. /\ Merged \in Builders /\ Left \in Seq(Mounts) /\ Merged.mounts = Parent.mounts \o Left
      /\ Merged.routes = Parent.routes \o Top.routes /\ Parent \in Builders /\ Top \in Builders
  BY MergedIs, ParentIs, TopIs
<1>3. \E more \in Seq(Mounts) : Left = Top.mounts \o more
  <2>1. Top.mounts \in Seq(Mounts)
    BY <1>2 DEF Builders
  <2>2. CASE Top.opened = "resource"
    <3>. DEFINE mount == [kind |-> Top.schema, base |-> Top.path, templates |-> Top.templates]
    <3>1. Left = Append(Top.mounts, mount)
      BY <1>2, <2>2 DEF Left, Built, Builders
    <3>. HIDE DEF mount
    <3>2. Len(Left) = Len(Top.mounts) + 1 /\ Left[Len(Left)] = mount
      BY <2>1, <3>1, AppendProperties
    <3>3. mount \in Mounts
      BY <1>2, <2>1, <3>2
    <3>4. Left = Top.mounts \o <<mount>> /\ <<mount>> \in Seq(Mounts)
      BY <2>1, <3>1, <3>3, AppendIsConcat
    <3>. QED BY <3>4
  <2>3. CASE Top.opened # "resource"
    <3>1. Left = Top.mounts \o <<>> /\ <<>> \in Seq(Mounts)
      BY <2>1, <2>3, ConcatEmptySeq DEF Left
    <3>. QED BY <3>1
  <2>. QED BY <2>2, <2>3
<1>. DEFINE inner == SubSeq(stack, 1, n + 1)
<1>. HIDE DEF n, Merged, Left
<1>4. /\ inner \in Seq(Builders) /\ stack = Append(inner, Top) /\ Len(inner) = n + 1
      /\ \A i \in 1..(n + 1) : inner[i] = stack[i]
  BY <1>1, StackFront
<1>5. outer \in Seq(Builders) /\ inner = Append(outer, Parent)
  <2>. HIDE DEF inner
  <2>1. /\ SubSeq(inner, 1, n) \in Seq(Builders) /\ Len(SubSeq(inner, 1, n)) = n
        /\ \A i \in 1..n : SubSeq(inner, 1, n)[i] = inner[i]
        /\ inner = Append(SubSeq(inner, 1, n), inner[n + 1])
    BY <1>1, <1>4, StackFront
  <2>2. n + 1 \in 1..(n + 1) /\ inner[n + 1] = Parent
    BY <1>1, <1>4
  <2>3. SubSeq(inner, 1, n) = outer
    <3>1. \A i \in 1..n : stack[i] \in Builders /\ inner[i] = stack[i]
      BY <1>1, <1>4
    <3>2. outer \in Seq(Builders) /\ Len(outer) = n /\ \A i \in 1..n : outer[i] = stack[i]
      BY <1>1, <3>1, SubSeqProperties
    <3>. HIDE DEF outer
    <3>. DEFINE other == SubSeq(inner, 1, n)
    <3>3. other \in Seq(Builders) /\ Len(other) = n /\ \A i \in 1..n : other[i] = outer[i]
      BY <2>1, <3>1, <3>2
    <3>. HIDE DEF other
    <3>4. other = outer
      BY <3>2, <3>3
    <3>. QED BY <3>4 DEF other
  <2>. QED BY <2>1, <2>2, <2>3
<1>. HIDE DEF inner, outer
<1>6. /\ AllRoutes(t) = AllRoutes(outer) \o Merged.routes /\ AllMounts(t) = AllMounts(outer) \o Merged.mounts
      /\ AllRoutes(inner) = AllRoutes(outer) \o Parent.routes /\ AllMounts(inner) = AllMounts(outer) \o Parent.mounts
      /\ AllRoutes(stack) = AllRoutes(inner) \o Top.routes /\ AllMounts(stack) = AllMounts(inner) \o Top.mounts
  BY <1>2, <1>4, <1>5, ListsAppend
<1>. DEFINE f == AllRoutes(outer)
            p == Parent.routes
            r == Top.routes
            g == AllMounts(outer)
            q == Parent.mounts
            m == Top.mounts
<1>7. /\ f \in Seq(GoodEntries) /\ p \in Seq(GoodEntries) /\ r \in Seq(GoodEntries)
      /\ g \in Seq(Mounts) /\ q \in Seq(Mounts) /\ m \in Seq(Mounts)
  BY <1>2, <1>5, ListsTyped DEF Builders
<1>8. PICK more \in Seq(Mounts) : Left = m \o more
  BY <1>3
<1>9. /\ AllRoutes(t) = f \o (p \o r) /\ AllRoutes(stack) = (f \o p) \o r
      /\ AllMounts(t) = g \o (q \o (m \o more)) /\ AllMounts(stack) = (g \o q) \o m
  BY <1>2, <1>6, <1>8
<1>10. AllRoutes(stack) \in Seq(GoodEntries)
  BY <1>1, ListsTyped
<1>. HIDE DEF f, p, r, g, q, m, t
<1>11. f \o (p \o r) = (f \o p) \o r
  BY <1>7
<1>14. g \o (q \o (m \o more)) = ((g \o q) \o m) \o more
  <2>. DEFINE k == m \o more
              h == g \o q
  <2>1. k \in Seq(Mounts) /\ h \in Seq(Mounts)
    BY <1>7, ConcatProperties
  <2>2. g \o (q \o k) = (g \o q) \o k
    <3>1. k \in Seq(Mounts) /\ g \in Seq(Mounts) /\ q \in Seq(Mounts)
      BY <1>7, <2>1
    <3>. HIDE DEF k
    <3>. QED BY ONLY <3>1
  <2>3. h \o (m \o more) = (h \o m) \o more
    <3>1. h \in Seq(Mounts) /\ m \in Seq(Mounts) /\ more \in Seq(Mounts)
      BY <1>7, <2>1
    <3>. HIDE DEF h
    <3>. QED BY ONLY <3>1
  <2>. QED BY <2>2, <2>3
<1>12. AllRoutes(t) = AllRoutes(stack) \o <<>> /\ <<>> \in Seq(GoodEntries)
  BY <1>9, <1>10, <1>11, ConcatEmptySeq
<1>13. AllMounts(t) = AllMounts(stack) \o more
  BY <1>9, <1>14
<1>. QED BY <1>12, <1>13 DEF Extends, t, outer, n

LEMMA KindsTyped ==
    ASSUME NEW mounts \in Seq(Mounts)
    PROVE  /\ KindsOf(mounts) \in Seq(Kinds) /\ Len(KindsOf(mounts)) = Len(mounts)
           /\ \A i \in 1..Len(mounts) : KindsOf(mounts)[i] = mounts[i].kind
<1>1. \A i \in 1..Len(mounts) : mounts[i].kind \in Kinds
  <2>1. \A i \in 1..Len(mounts) : mounts[i] \in Mounts
    OBVIOUS
  <2>. QED BY <2>1 DEF Mounts, Kinds
<1>2. DOMAIN mounts = 1..Len(mounts) /\ Len(mounts) \in Nat
  OBVIOUS
<1>3. KindsOf(mounts) \in [1..Len(mounts) -> Kinds]
  BY <1>1, <1>2 DEF KindsOf
<1>. QED BY <1>2, <1>3 DEF KindsOf

LEMMA PrefixIf ==
    ASSUME NEW X, NEW s \in Seq(X), NEW t \in Seq(X), Len(s) <= Len(t), Agreeing(s, t)
    PROVE  IsPrefix(s, t)
<1>1. Len(s) \in Nat /\ Len(t) \in Nat
  OBVIOUS
<1>2. \A i \in 1..Len(s) : t[i] = s[i]
  BY DEF Agreeing
<1>3. SubSeq(s, 1, Len(s)) = SubSeq(t, 1, Len(s))
  BY <1>1, <1>2
<1>. QED BY <1>1, <1>3 DEF IsPrefix

LEMMA KindsExtend ==
    ASSUME NEW s \in Seq(Mounts), NEW t \in Seq(Mounts)
    PROVE  IsPrefix(KindsOf(s), KindsOf(s \o t))
<1>. DEFINE u == s \o t
            a == KindsOf(s)
            c == KindsOf(u)
<1>1. /\ u \in Seq(Mounts) /\ Len(s) \in Nat /\ Len(t) \in Nat /\ Len(u) = Len(s) + Len(t)
      /\ \A i \in 1..Len(s) : u[i] = s[i]
  BY SplitConcat
<1>2. a \in Seq(Kinds) /\ Len(a) = Len(s) /\ \A i \in 1..Len(s) : a[i] = s[i].kind
  BY KindsTyped
<1>. HIDE DEF u
<1>3. c \in Seq(Kinds) /\ Len(c) = Len(u) /\ \A i \in 1..Len(u) : c[i] = u[i].kind
  BY <1>1, KindsTyped
<1>. HIDE DEF a, c
<1>4. \A i \in 1..Len(s) : i \in 1..Len(u)
  BY <1>1
<1>5. Agreeing(a, c) /\ Len(a) <= Len(c)
  BY <1>1, <1>2, <1>3, <1>4 DEF Agreeing
<1>6. IsPrefix(a, c)
  BY <1>2, <1>3, <1>5, PrefixIf
<1>. QED BY <1>6 DEF a, c, u

LEMMA DeclaredIs ==
    /\ Building => Declared = AllRoutes(stack)
    /\ Building' => Declared' = AllRoutes(stack')
<1>. DEFINE all == FlattenSeq([i \in DOMAIN stack |-> stack[i].routes])
<1>1. Declared = CASE Building -> all [] IsServing -> routes [] OTHER -> stack[1].routes
  BY DEF Declared
<1>2. all = AllRoutes(stack)
  BY Zenon DEF AllRoutes, RouteLists
<1>3. ~(Building /\ IsServing)
  BY DEF Building, IsServing
<1>. HIDE DEF all
<1>4. Building => Declared = AllRoutes(stack)
  BY <1>1, <1>2, <1>3
<1>5. Building' => Declared' = AllRoutes(stack')
  <2>. DEFINE after == FlattenSeq([i \in DOMAIN stack' |-> (stack')[i].routes])
  <2>1. Declared' = CASE Building' -> after [] IsServing' -> routes' [] OTHER -> (stack')[1].routes
    BY DEF Declared
  <2>2. after = AllRoutes(stack')
    BY Zenon DEF AllRoutes, RouteLists
  <2>3. ~(Building' /\ IsServing')
    BY DEF Building, IsServing
  <2>. HIDE DEF after
  <2>. QED BY <2>1, <2>2, <2>3
<1>. QED BY <1>4, <1>5

LEMMA MountedKindsAre ==
    MountedKinds = KindsOf(AllMounts(stack)) /\ MountedKinds' = KindsOf(AllMounts(stack'))
BY Zenon DEF MountedKinds, AllMounts, MountLists, KindsOf

\* A step that extends what is declared is a Declare of the flat table.
LEMMA ExtendsIsDeclare ==
    ASSUME IInv, Building, Building', Stacked(stack'), Extends(stack', stack), router' = router
    PROVE  Table!Declare
<1>1. router = Table!Building
  BY DEF IInv, Table!Building, Table!Ok, Ok
<1>2. stack \in Seq(Builders) /\ stack' \in Seq(Builders)
  BY DEF IInv, Stacked
<1>3. /\ Declared = AllRoutes(stack) /\ Declared' = AllRoutes(stack')
      /\ MountedKinds = KindsOf(AllMounts(stack)) /\ MountedKinds' = KindsOf(AllMounts(stack'))
  BY DeclaredIs, MountedKindsAre
<1>4. AllRoutes(stack) \in Seq(GoodEntries) /\ AllMounts(stack) \in Seq(Mounts)
  BY <1>2, ListsTyped
<1>5. IsPrefix(AllRoutes(stack), AllRoutes(stack'))
  BY <1>4, PrefixOfConcat DEF Extends
<1>6. IsPrefix(KindsOf(AllMounts(stack)), KindsOf(AllMounts(stack')))
  BY <1>4, KindsExtend DEF Extends
<1>. QED BY <1>1, <1>3, <1>5, <1>6 DEF Table!Declare, Table!IsPrefix, IsPrefix

LEMMA OneBuilder ==
    ASSUME NEW s \in Seq(Builders), Len(s) = 1
    PROVE  AllRoutes(s) = s[1].routes /\ AllMounts(s) = s[1].mounts
<1>1. s[1] \in Builders
  OBVIOUS
<1>2. s[1].routes \in Seq(GoodEntries) /\ s[1].mounts \in Seq(Mounts)
  BY <1>1 DEF Builders
<1>3. RouteLists(s) = <<s[1].routes>>
  <2>. DEFINE ls == RouteLists(s)
  <2>1. Len(ls) = 1 /\ ls \in Seq(Seq(GoodEntries))
    BY ListsTyped
  <2>2. ls[1] = s[1].routes
    <3>1. 1 \in 1..Len(s)
      OBVIOUS
    <3>. QED BY <3>1, ListsTyped
  <2>. HIDE DEF ls
  <2>3. ls = <<s[1].routes>>
    BY <2>1, <2>2
  <2>. QED BY <2>3 DEF ls
<1>4. MountLists(s) = <<s[1].mounts>>
  <2>. DEFINE ls == MountLists(s)
  <2>1. Len(ls) = 1 /\ ls \in Seq(Seq(Mounts))
    BY ListsTyped
  <2>2. ls[1] = s[1].mounts
    <3>1. 1 \in 1..Len(s)
      OBVIOUS
    <3>. QED BY <3>1, ListsTyped
  <2>. HIDE DEF ls
  <2>3. ls = <<s[1].mounts>>
    BY <2>1, <2>2
  <2>. QED BY <2>3 DEF ls
<1>. QED BY <1>2, <1>3, <1>4, FlattenOne DEF AllRoutes, AllMounts

LEMMA ResolveIsResolve ==
    ASSUME IInv, Resolve
    PROVE  Table!Resolve
<1>. DEFINE root == stack[1]
            faulty == {i \in DOMAIN root.routes : root.routes[i].fault # Ok}
            fault == Resolution(root.routes, root.mounts)
<1>1. /\ stack \in Seq(Builders) /\ Len(stack) = 1 /\ stack' = stack /\ Top = root
      /\ router = Table!Building
  <2>1. Top = stack[Depth] /\ Depth = Len(stack) /\ Len(stack) = 1
    BY TopIs DEF IInv, Depth, Resolve
  <2>. QED BY <2>1 DEF IInv, Stacked, Resolve, Table!Building, Table!Ok, Ok
<1>2. /\ router' = [state |-> IF fault = Ok THEN "serving" ELSE "refused", fault |-> fault]
      /\ routes' = IF fault = Ok THEN root.routes ELSE <<>>
  BY <1>1 DEF Resolve
<1>3. AllRoutes(stack) = root.routes /\ AllMounts(stack) = root.mounts
  BY <1>1, OneBuilder
<1>4. root.routes \in Seq(GoodEntries) /\ root.mounts \in Seq(Mounts)
  <2>1. root \in Builders
    BY <1>1
  <2>. QED BY <2>1 DEF Builders
<1>5. Declared = root.routes /\ MountedKinds = KindsOf(root.mounts) /\ MountedKinds' = KindsOf(root.mounts)
  <2>1. Building
    BY DEF Resolve
  <2>2. Declared = root.routes
    BY <1>3, <2>1, DeclaredIs
  <2>. QED BY <1>1, <1>3, <2>2, MountedKindsAre
<1>. HIDE DEF fault
<1>6. Declared' = root.routes
  <2>1. CASE fault = Ok
    <3>1. IsServing' /\ ~Building'
      BY <1>2, <2>1 DEF IsServing, Building
    <3>. QED BY <1>2, <2>1, <3>1 DEF Declared
  <2>2. CASE fault # Ok
    <3>1. ~IsServing' /\ ~Building'
      BY <1>2, <2>2 DEF IsServing, Building
    <3>. QED BY <1>1, <3>1 DEF Declared
  <2>. QED BY <2>1, <2>2
<1>7. Table!Faulty = faulty
  BY <1>5 DEF Table!Faulty, Table!Ok, Ok
<1>8. Table!MountedTwice # {} <=> \E i, j \in DOMAIN root.mounts : i # j /\ root.mounts[i].kind = root.mounts[j].kind
  <2>. DEFINE ms == root.mounts
              ks == MountedKinds
  <2>1. /\ Len(ms) \in Nat /\ DOMAIN ms = 1..Len(ms) /\ DOMAIN ks = 1..Len(ms)
        /\ \A i \in 1..Len(ms) : ks[i] = ms[i].kind
    <3>1. ks \in Seq(Kinds) /\ Len(ks) = Len(ms) /\ \A i \in 1..Len(ms) : ks[i] = ms[i].kind
      BY <1>4, <1>5, KindsTyped
    <3>. QED BY <1>4, <3>1
  <2>2. Table!MountedTwice = {i \in DOMAIN ks : \E j \in 1..(i - 1) : ks[i] = ks[j]}
    BY DEF Table!MountedTwice
  <2>. HIDE DEF ms, ks
  <2>3. ASSUME Table!MountedTwice # {} PROVE \E i, j \in DOMAIN ms : i # j /\ ms[i].kind = ms[j].kind
    <3>1. PICK i \in 1..Len(ms) : \E j \in 1..(i - 1) : ks[i] = ks[j]
      BY <2>1, <2>2, <2>3
    <3>2. PICK j \in 1..(i - 1) : ks[i] = ks[j]
      BY <3>1
    <3>3. j \in 1..Len(ms) /\ i # j
      BY <2>1
    <3>. QED BY <2>1, <3>2, <3>3
  <2>4. ASSUME NEW i \in DOMAIN ms, NEW j \in DOMAIN ms, i # j, ms[i].kind = ms[j].kind
        PROVE  Table!MountedTwice # {}
    <3>1. ks[i] = ks[j] /\ i \in DOMAIN ks /\ j \in DOMAIN ks
      BY <2>1, <2>4
    <3>2. j \in 1..(i - 1) \/ i \in 1..(j - 1)
      BY <2>1, <2>4
    <3>3. i \in Table!MountedTwice \/ j \in Table!MountedTwice
      BY <2>2, <3>1, <3>2
    <3>. QED BY <3>3
  <2>. QED BY <2>3, <2>4 DEF ms
<1>9. router' = IF Table!Faulty # {} THEN Table!Refused(Declared[Table!Min(Table!Faulty)].fault)
                ELSE IF Table!MountedTwice # {} THEN Table!Refused("DuplicateResource")
                ELSE Table!Serving
  <2>1. ASSUME faulty # {}
        PROVE  fault = root.routes[Min(faulty)].fault /\ root.routes[Min(faulty)].fault # Ok
    <3>1. fault = root.routes[Min(faulty)].fault
      BY <2>1 DEF fault, Resolution
    <3>2. faulty \subseteq 1..Len(root.routes) /\ Len(root.routes) \in Nat
      BY <1>4
    <3>3. Min(faulty) \in faulty
      <4>. HIDE DEF faulty
      <4>. QED BY <2>1, <3>2, LeastIsMember
    <3>. QED BY <3>1, <3>3
  <2>2. ASSUME faulty = {}, Table!MountedTwice # {} PROVE fault = "DuplicateResource" /\ fault # Ok
    BY <1>8, <2>2 DEF fault, Resolution, Ok
  <2>3. ASSUME faulty = {}, Table!MountedTwice = {} PROVE fault = Ok
    BY <1>8, <2>3 DEF fault, Resolution
  <2>. HIDE DEF faulty, root
  <2>4. CASE faulty # {}
    <3>1. Table!Min(faulty) = Min(faulty)
      BY DEF Table!Min, Min
    <3>. QED BY <1>2, <1>5, <1>7, <2>1, <2>4, <3>1 DEF Table!Refused
  <2>5. CASE faulty = {} /\ Table!MountedTwice # {}
    BY <1>2, <1>7, <2>2, <2>5 DEF Table!Refused
  <2>6. CASE faulty = {} /\ Table!MountedTwice = {}
    BY <1>2, <1>7, <2>3, <2>6 DEF Table!Serving, Table!Ok, Ok
  <2>. QED BY <2>4, <2>5, <2>6
<1>. QED BY <1>1, <1>5, <1>6, <1>9 DEF Table!Resolve

LEMMA CallsExtend ==
    ASSUME IInv, IInv', Call, Mounting \/ \E b : Open(b)
    PROVE  Table!Declare
<1>1. Stacked(stack) /\ Stacked(stack') /\ Building /\ Building' /\ router' = router
  BY DEF IInv, Call, Building
<1>2. CASE Mounting
  <2>1. PICK y \in Grown(Top, Scoping) : stack' = [stack EXCEPT ![Len(stack)] = y]
    BY <1>2 DEF Mounting, Becomes
  <2>2. Extends(stack', stack)
    BY <1>1, <2>1, BecomesExtends
  <2>. QED BY <1>1, <2>2, ExtendsIsDeclare
<1>3. CASE \E b : Open(b)
  <2>1. PICK b : stack' = Append(stack, b)
    BY <1>3 DEF Open
  <2>2. stack \in Seq(Builders) /\ stack' \in Seq(Builders)
    BY <1>1 DEF Stacked
  <2>3. Len(stack') = Len(stack) + 1 /\ stack'[Len(stack')] = b /\ Len(stack) \in Nat
    BY <2>1, <2>2
  <2>4. b \in Builders
    BY <2>2, <2>3
  <2>5. Extends(stack', stack)
    BY <2>1, <2>2, <2>4, OpenExtends
  <2>. QED BY <1>1, <2>5, ExtendsIsDeclare
<1>. QED BY <1>2, <1>3

LEMMA CloseIsDeclare ==
    ASSUME IInv, IInv', Close
    PROVE  Table!Declare
<1>1. /\ Stacked(stack) /\ Stacked(stack') /\ Len(stack) > 1
      /\ stack' = Append(SubSeq(stack, 1, Len(stack) - 2), Merged)
  BY DEF IInv, Close, Merged
<1>2. Building /\ Building' /\ router' = router
  BY DEF Close, Building
<1>3. Extends(stack', stack)
  BY <1>1, CloseExtends
<1>. QED BY <1>1, <1>2, <1>3, ExtendsIsDeclare

LEMMA StepsRefine ==
    ASSUME IInv, IInv', [Next]_vars
    PROVE  [Table!Next]_<<Declared, MountedKinds, router>>
<1>1. ASSUME NEW method \in Methods, NEW segments \in Leaves, Verb(method, segments) PROVE Table!Next
  BY <1>1, VerbMounts, CallsExtend DEF Mounting, Table!Next
<1>2. ASSUME NEW segments \in Segments, Scope(segments) PROVE Table!Next
  BY <1>2, CallsExtend DEF Scope, Table!Next
<1>3. ASSUME NEW guard \in Guards, Middleware(guard) PROVE Table!Next
  BY <1>3, CallsExtend DEF Middleware, Table!Next
<1>4. ASSUME NEW segments \in Segments, NEW guard \in Guards, MiddlewareAt(segments, guard) PROVE Table!Next
  BY <1>4, CallsExtend DEF MiddlewareAt, Table!Next
<1>5. ASSUME NEW resource \in Resources, Resource(resource) PROVE Table!Next
  BY <1>5, CallsExtend DEF Resource, Table!Next
<1>6. CASE DefaultEndpoints
  BY <1>6, DefaultEndpointsMounts, CallsExtend DEF Mounting, Table!Next
<1>7. ASSUME NEW name \in Names, NEW slots \in Slots, NEW config \in Configs, Relationship(name, slots, config)
      PROVE  Table!Next
  BY <1>7, RelationshipMounts, CallsExtend DEF Mounting, Table!Next
<1>8. ASSUME NEW slots \in Slots, NEW config \in Configs, AllRelationships(slots, config) PROVE Table!Next
  BY <1>8, AllRelationshipsMounts, CallsExtend DEF Mounting, Table!Next
<1>9. CASE Member
  BY <1>9, CallsExtend DEF Member, Table!Next
<1>10. CASE Close
  BY <1>10, CloseIsDeclare DEF Table!Next
<1>11. CASE Resolve
  BY <1>11, ResolveIsResolve DEF Table!Next
<1>12. CASE UNCHANGED vars
  <2>1. stack' = stack /\ router' = router /\ routes' = routes
    BY <1>12 DEF vars
  <2>2. Declared' = Declared /\ MountedKinds' = MountedKinds
    BY <2>1 DEF Declared, MountedKinds, Building, IsServing
  <2>. QED BY <2>1, <2>2
<1>. QED BY <1>1, <1>2, <1>3, <1>4, <1>5, <1>6, <1>7, <1>8, <1>9, <1>10, <1>11, <1>12 DEF Next

LEMMA StartRefines ==
    ASSUME Init
    PROVE  Table!Init
<1>1. IInv /\ Building /\ stack = <<Root>> /\ router = Table!Building
  BY InitKeeps DEF Init, Building, Table!Building, Table!Ok, Ok
<1>2. stack \in Seq(Builders) /\ Len(stack) = 1 /\ stack[1] = Root
  BY <1>1 DEF IInv, Stacked
<1>3. Root.routes = <<>> /\ Root.mounts = <<>>
  BY DEF Root
<1>4. AllRoutes(stack) = <<>> /\ AllMounts(stack) = <<>>
  BY <1>2, <1>3, OneBuilder
<1>5. Declared = <<>>
  BY <1>1, <1>4, DeclaredIs
<1>6. MountedKinds = <<>>
  <2>1. KindsOf(<<>>) = <<>>
    BY DEF KindsOf
  <2>. QED BY <1>4, <2>1, MountedKindsAre
<1>. QED BY <1>1, <1>5, <1>6 DEF Table!Init

(* The nested builder calls implement the flat table of RouteTable: entries *)
(* are only ever added at its end, in declaration order, and Router::try_new *)
(* answers with its first fault.                                            *)
THEOREM NestedCallsComeToOneTable == Spec => ImplementsRouteTable
<1>1. Init => Table!Init
  BY StartRefines
<1>2. IInv /\ IInv' /\ [Next]_vars => [Table!Next]_<<Declared, MountedKinds, router>>
  BY StepsRefine
<1>. QED BY <1>1, <1>2, BuildersStaySound, PTL DEF Spec, ImplementsRouteTable, Table!Spec
=============================================================================
