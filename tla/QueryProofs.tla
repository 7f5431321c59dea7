----------------------------- MODULE QueryProofs -----------------------------
(***************************************************************************)
(* What a request for records works with and answers with, for any         *)
(* schemas, databases, queries and batches an application can have: what   *)
(* the loader holds (LoaderTyped) and which fields the resources of a      *)
(* document show (FieldsetsHonoured).  Then what one read of the store and *)
(* one load of a relationship return, and which records are linked, which  *)
(* DocumentProofs builds on.                                               *)
(***************************************************************************)
EXTENDS Queries, SequenceLemmas

-----------------------------------------------------------------------------
(* What is declared, asked and sent: it never changes, and WorldsAssumption *)
(* says what it can be.                                                    *)

Given ==
  /\ \A s \in ToSet(schemas) : Declarable(s)
  /\ Mounted(request, schemas)
  /\ Split(request.query)
  /\ request.batch \in Seq(ToSet(request.batch))
  /\ \A s \in ToSet(schemas) :
       request.kind = "create" /\ s.name = request.resource =>
         \A draft \in ToSet(request.batch) : Drafted(draft, s)

\* No table is endless.
Stored ==
  Consistent(schemas) =>
    \A s \in ToSet(schemas) : s.name \in DOMAIN db /\ IsFiniteSet(db[s.name])

LEMMA InitGiven == Init => Given /\ Stored
<1>. SUFFICES ASSUME Init PROVE Given /\ Stored
  OBVIOUS
<1>1. PICK w \in DOMAIN Worlds :
        LET world == Worlds[w] IN
        /\ schemas = world.schemas
        /\ db \in world.databases
        /\ \E r \in DOMAIN world.requests, q \in DOMAIN world.queries, b \in DOMAIN world.batches :
             request = Over(world.requests[r], [query |-> world.queries[q], batch |-> world.batches[b]])
  BY Zenon DEF Init
<1>. DEFINE world == Worlds[w]
<1>2. PICK r \in DOMAIN world.requests, q \in DOMAIN world.queries, b \in DOMAIN world.batches :
        request = Over(world.requests[r], [query |-> world.queries[q], batch |-> world.batches[b]])
  BY <1>1
<1>3. /\ world.requests[r] \in ToSet(world.requests) /\ world.queries[q] \in ToSet(world.queries)
      /\ world.batches[b] \in ToSet(world.batches)
  BY DEF ToSet
<1>4. /\ \A s \in ToSet(world.schemas) : Declarable(s)
      /\ Consistent(world.schemas) =>
           \A tables \in world.databases : \A s \in ToSet(world.schemas) :
             s.name \in DOMAIN tables /\ Kept(s, ByName(world.schemas), tables)
      /\ world.requests[r] \in Requests /\ Mounted(world.requests[r], world.schemas)
      /\ Split(world.queries[q])
      /\ world.batches[b] \in Seq(ToSet(world.batches[b]))
      /\ \A s \in ToSet(world.schemas) :
           world.requests[r].kind = "create" /\ s.name = world.requests[r].resource =>
             \A draft \in ToSet(world.batches[b]) : Drafted(draft, s)
  BY <1>3, WorldsAssumption
<1>5. Stored
  BY <1>1, <1>4 DEF Stored, Kept
<1>6. /\ request.kind = world.requests[r].kind /\ request.resource = world.requests[r].resource
      /\ request.id = world.requests[r].id /\ request.relationship = world.requests[r].relationship
      /\ request.query = world.queries[q] /\ request.batch = world.batches[b]
      /\ DOMAIN request = {"kind", "resource", "id", "relationship", "query", "batch"}
  <2>1. /\ DOMAIN world.requests[r] = {"kind", "resource", "id", "relationship"}
        /\ DOMAIN [query |-> world.queries[q], batch |-> world.batches[b]] = {"query", "batch"}
    BY <1>4 DEF Requests
  <2>. QED BY <1>2, <2>1 DEF Over
<1>. HIDE DEF world
<1>. QED BY <1>1, <1>4, <1>5, <1>6 DEF Given, Mounted, world
-----------------------------------------------------------------------------
(* The registry. *)

Registered(byName, parts) ==
  /\ \A s \in ToSet(parts) : s.name \in DOMAIN byName /\ byName[s.name] = s
  /\ \A n \in DOMAIN byName : byName[n] \in ToSet(parts) /\ byName[n].name = n

LEMMA RegistryIs ==
    ASSUME NEW parts, UniqueNames(parts)
    PROVE  Registered(ByName(parts), parts)
<1>1. ASSUME NEW i \in DOMAIN parts
      PROVE  parts[i].name \in DOMAIN ByName(parts) /\ ByName(parts)[parts[i].name] = parts[i]
  <2>1. parts[CHOOSE j \in DOMAIN parts : parts[j].name = parts[i].name] = parts[i]
    BY DEF UniqueNames
  <2>. QED BY <2>1 DEF ByName
<1>2. ASSUME NEW t \in ToSet(parts) PROVE t.name \in DOMAIN ByName(parts) /\ ByName(parts)[t.name] = t
  BY <1>1 DEF ToSet
<1>3. ASSUME NEW n \in DOMAIN ByName(parts) PROVE ByName(parts)[n] \in ToSet(parts) /\ ByName(parts)[n].name = n
  <2>1. PICK i \in DOMAIN parts : n = parts[i].name
    BY DEF ByName
  <2>. QED BY <1>1, <2>1 DEF ToSet
<1>. QED BY <1>2, <1>3 DEF Registered

LEMMA TargetsAreRegistered ==
    ASSUME NEW parts, Consistent(parts), NEW s \in ToSet(parts), NEW r \in Relationships(s)
    PROVE  r.resource \in DOMAIN ByName(parts)
BY DEF Consistent, ToSet, ValidRelationship

\* A relationship is found by its name.
LEMMA RelationshipIs ==
    ASSUME NEW s, Declarable(s)
    PROVE  /\ \A r \in Relationships(s) : r.name \in RelationshipNames(s) /\ Relationship(s, r.name) = r
           /\ \A name \in RelationshipNames(s) :
                Relationship(s, name) \in Relationships(s) /\ Relationship(s, name).name = name
<1>1. \A q, r \in Relationships(s) : q.name = r.name => q = r
  BY DEF Declarable, UniqueNames, Relationships
<1>. QED BY <1>1 DEF Relationship, RelationshipNames

LEMMA RelationshipTypes ==
    ASSUME NEW s, Declarable(s)
    PROVE  /\ s.relationships \in Seq(Relationships(s))
           /\ \A r \in Relationships(s) :
                /\ r.name \in STRING /\ r.resource \in STRING /\ r.own \in STRING /\ r.related \in STRING
                /\ r.kind \in {"belongs_to", "has_one", "has_many"}
<1>. DEFINE D == [name : STRING, kind : {"belongs_to", "has_one", "has_many"},
                  resource : STRING, own : STRING, related : STRING]
            rs == s.relationships
<1>1. rs \in Seq(D)
  BY DEF Declarable
<1>2. rs \in Seq(ToSet(rs))
  BY <1>1, ItsOwnElements
<1>3. ToSet(rs) = Relationships(s)
  BY DEF ToSet, Relationships
<1>4. \A i \in DOMAIN rs : rs[i] \in D
  <2>. HIDE DEF D, rs
  <2>. QED BY <1>1
<1>. QED BY <1>2, <1>3, <1>4 DEF Relationships

-----------------------------------------------------------------------------
(* The relationships to load, in the order they were declared. *)

LEMMA ToLoadIs ==
    ASSUME NEW s, Declarable(s), NEW fields, NEW include
    PROVE  /\ RelationshipsToLoad(s, fields, include) \in Seq(Relationships(s))
           /\ \A r \in Relationships(s) :
                ShouldLoad(fields, include, s.name, r.name) =>
                  r \in ToSet(RelationshipsToLoad(s, fields, include))
           /\ \A i \in 1..Len(RelationshipsToLoad(s, fields, include)) :
                ShouldLoad(fields, include, s.name, RelationshipsToLoad(s, fields, include)[i].name)
<1>. DEFINE rs == s.relationships
            n == Len(rs)
            V == Seq(Relationships(s))
            wants(i) == ShouldLoad(fields, include, s.name, rs[i].name)
            wanted(v) == \A i \in 1..Len(v) : ShouldLoad(fields, include, s.name, v[i].name)
            none == <<>>
            step == [i \in 1..n |-> [v \in V |-> IF wants(i) THEN Append(v, rs[i]) ELSE v]]
            G(f) == [i \in 0..n |-> IF i = 0 THEN <<>>
                                    ELSE IF wants(i) THEN Append(f[i - 1], rs[i]) ELSE f[i - 1]]
            upTo == CHOOSE f : f = G(f)
<1>1. rs \in Seq(Relationships(s)) /\ n \in Nat /\ \A i \in 1..n : rs[i] \in Relationships(s)
  BY RelationshipTypes
<1>2. step \in [1..n -> [V -> V]]
  <2>. SUFFICES ASSUME NEW i \in 1..n, NEW v \in V
                PROVE  (IF wants(i) THEN Append(v, rs[i]) ELSE v) \in V
    OBVIOUS
  <2>1. rs[i] \in Relationships(s)
    BY <1>1
  <2>. HIDE DEF wants, rs
  <2>. QED BY <2>1, AppendProperties
<1>3. none \in V
  OBVIOUS
<1>4. PICK f \in [0..n -> V] : Unfolds(f, n, none, step)
  <2>. HIDE DEF step, n, V, none
  <2>. QED BY <1>1, <1>2, <1>3, Recursion
<1>5. f = G(f)
  <2>1. ASSUME NEW i \in 1..n
        PROVE  f[i] = IF wants(i) THEN Append(f[i - 1], rs[i]) ELSE f[i - 1]
    <3>0. i - 1 \in 0..n
      BY <1>1
    <3>1. f[i - 1] \in V
      <4>. HIDE DEF V, n
      <4>. QED BY <1>4, <3>0
    <3>2. step[i][f[i - 1]] = IF wants(i) THEN Append(f[i - 1], rs[i]) ELSE f[i - 1]
      BY <3>1
    <3>. QED BY <1>4, <3>2 DEF Unfolds
  <2>2. f[0] = <<>> /\ f = [i \in 0..n |-> f[i]]
    <3>. HIDE DEF V, n
    <3>. QED BY <1>4 DEF Unfolds
  <2>3. ASSUME NEW i \in 0..n
        PROVE  f[i] = IF i = 0 THEN <<>> ELSE IF wants(i) THEN Append(f[i - 1], rs[i]) ELSE f[i - 1]
    <3>. HIDE DEF wants, rs, n
    <3>1. i = 0 \/ i \in 1..n
      BY <1>1
    <3>2. CASE i = 0
      BY <2>2, <3>2
    <3>3. CASE i \in 1..n
      <4>1. i # 0
        BY <1>1, <3>3
      <4>. QED BY <2>1, <3>3, <4>1
    <3>. QED BY <3>1, <3>2, <3>3
  <2>. HIDE DEF wants, n, rs
  <2>. QED BY <2>2, <2>3
<1>6. upTo = G(upTo)
  <2>. HIDE DEF G
  <2>. QED BY <1>5
<1>7. RelationshipsToLoad(s, fields, include) = upTo[n]
  BY DEF RelationshipsToLoad
<1>. HIDE DEF upTo
<1>8. upTo[0] = <<>> /\ \A i \in 1..n : upTo[i] = IF wants(i) THEN Append(upTo[i - 1], rs[i]) ELSE upTo[i - 1]
  <2>. HIDE DEF wants, rs, n
  <2>1. 0 \in 0..n /\ \A i \in 1..n : i \in 0..n /\ i # 0
    BY <1>1
  <2>. QED BY <1>6, <2>1
<1>. DEFINE S == {i \in 0..n :
                    /\ upTo[i] \in V
                    /\ \A j \in 1..i : wants(j) => rs[j] \in ToSet(upTo[i])
                    /\ wanted(upTo[i])}
<1>9. 0 \in S
  <2>1. 0 \in 0..n /\ upTo[0] \in V /\ wanted(upTo[0])
    BY <1>1, <1>3, <1>8
  <2>. HIDE DEF wanted
  <2>. QED BY <2>1
<1>10. ASSUME NEW i \in 1..n, i - 1 \in S PROVE i \in S
  <2>. DEFINE before == upTo[i - 1]
  <2>1. before \in V /\ rs[i] \in Relationships(s) /\ \A j \in 1..(i - 1) : wants(j) => rs[j] \in ToSet(before)
    BY <1>1, <1>10
  <2>0. wanted(before)
    BY <1>10
  <2>2. upTo[i] = IF wants(i) THEN Append(before, rs[i]) ELSE before
    BY <1>8
  <2>3. i \in 0..n /\ i \in Nat /\ \A j \in 1..i : j = i \/ j \in 1..(i - 1)
    BY <1>1
  <2>6. ASSUME wants(i), NEW next, Len(next) = Len(before) + 1, Len(before) \in Nat,
               next[Len(before) + 1] = rs[i], \A k \in 1..Len(before) : next[k] = before[k]
        PROVE  wanted(next)
    <3>. HIDE DEF rs, before
    <3>. QED BY <2>0, <2>6
  <2>. HIDE DEF wants, wanted, rs, before, n
  <2>4. CASE ~ wants(i)
    BY <2>0, <2>1, <2>2, <2>3, <2>4
  <2>5. CASE wants(i)
    <3>1. /\ Append(before, rs[i]) \in V /\ Len(before) \in Nat /\ DOMAIN before = 1..Len(before)
          /\ Len(Append(before, rs[i])) = Len(before) + 1
          /\ \A k \in 1..Len(before) : Append(before, rs[i])[k] = before[k]
          /\ Append(before, rs[i])[Len(before) + 1] = rs[i]
          /\ DOMAIN Append(before, rs[i]) = 1..(Len(before) + 1)
      BY <2>1, AppendProperties
    <3>2. ToSet(before) \subseteq ToSet(Append(before, rs[i])) /\ rs[i] \in ToSet(Append(before, rs[i]))
      BY <3>1 DEF ToSet
    <3>3. wanted(Append(before, rs[i]))
      BY <2>5, <2>6, <3>1
    <3>. QED BY <2>1, <2>2, <2>3, <2>5, <3>1, <3>2, <3>3
  <2>. QED BY <2>4, <2>5
<1>. HIDE DEF S
<1>11. 0..n \subseteq S
  BY <1>1, <1>9, <1>10, BoundedInduction
<1>12. /\ upTo[n] \in V
       /\ \A j \in 1..n : wants(j) => rs[j] \in ToSet(upTo[n])
       /\ wanted(upTo[n])
  BY <1>1, <1>11 DEF S
<1>13. \A r \in Relationships(s) : \E j \in 1..n : r = rs[j]
  <2>1. DOMAIN rs = 1..n
    BY <1>1
  <2>. HIDE DEF n, wants
  <2>. QED BY <2>1 DEF Relationships
<1>. QED BY <1>7, <1>12, <1>13
-----------------------------------------------------------------------------
(* What is read, and what it is linked to. *)

IsRecord(x, kind) == DOMAIN x = {"kind", "id", "columns", "relationships"} /\ x.kind = kind
Records(xs, kind) == xs \in Seq(ToSet(xs)) /\ \A i \in 1..Len(xs) : IsRecord(xs[i], kind)

LEMMA FunctionIsSequence ==
    ASSUME NEW n \in Nat, NEW t, DOMAIN t = 1..n, t = [i \in 1..n |-> t[i]]
    PROVE  t \in Seq(ToSet(t)) /\ Len(t) = n
<1>1. t \in [1..n -> ToSet(t)]
  BY DEF ToSet
<1>. QED BY <1>1

Reads(s, rows, fields) == FromRows(s, Selected(rows, ColumnsFor(s, fields)))

LEMMA ReadsAre ==
    ASSUME NEW s, NEW rows, NEW fields, rows \in Seq(ToSet(rows))
    PROVE  /\ Records(Reads(s, rows, fields), s.name)
           /\ Len(Reads(s, rows, fields)) = Len(rows)
           /\ \A i \in 1..Len(rows) :
                Reads(s, rows, fields)[i] = FromRow(s, Restrict(rows[i], ColumnsFor(s, fields)))
<1>. DEFINE columns == ColumnsFor(s, fields)
            t == [i \in 1..Len(rows) |-> FromRow(s, Restrict(rows[i], columns))]
<1>1. Len(rows) \in Nat /\ DOMAIN rows = 1..Len(rows)
  OBVIOUS
<1>2. Reads(s, rows, fields) = t
  BY <1>1 DEF Reads, FromRows, Selected
<1>3. t \in Seq(ToSet(t)) /\ Len(t) = Len(rows)
  <2>1. DOMAIN t = 1..Len(rows) /\ t = [i \in 1..Len(rows) |-> t[i]]
    OBVIOUS
  <2>. HIDE DEF t
  <2>. QED BY <1>1, <2>1, FunctionIsSequence
<1>4. \A i \in 1..Len(rows) : IsRecord(t[i], s.name)
  BY DEF FromRow, IsRecord
<1>. QED BY <1>2, <1>3, <1>4 DEF Records

LEMMA LinkedIs ==
    ASSUME NEW records, NEW kind, Records(records, kind), NEW r, NEW ids
    PROVE  /\ Records(Linked(records, r, ids), kind)
           /\ Len(Linked(records, r, ids)) = Len(records)
           /\ \A i \in 1..Len(records) :
                /\ Linked(records, r, ids)[i].id = records[i].id
                /\ Linked(records, r, ids)[i].columns = records[i].columns
                /\ Linked(records, r, ids)[i].relationships =
                     IF i \in DOMAIN ids THEN Put(records[i].relationships, r.name, ids[i])
                     ELSE records[i].relationships
<1>. DEFINE t == Linked(records, r, ids)
<1>1. Len(records) \in Nat /\ DOMAIN records = 1..Len(records)
  BY DEF Records
<1>2. t = [i \in 1..Len(records) |->
            IF i \in DOMAIN ids THEN WithLinkage(records[i], r.name, ids[i]) ELSE records[i]]
  BY <1>1 DEF Linked
<1>3. t \in Seq(ToSet(t)) /\ Len(t) = Len(records)
  <2>1. DOMAIN t = 1..Len(records) /\ t = [i \in 1..Len(records) |-> t[i]]
    BY <1>2
  <2>. HIDE DEF t
  <2>. QED BY <1>1, <2>1, FunctionIsSequence
<1>4. ASSUME NEW i \in 1..Len(records)
      PROVE  /\ IsRecord(t[i], kind) /\ t[i].id = records[i].id /\ t[i].columns = records[i].columns
             /\ t[i].relationships = IF i \in DOMAIN ids THEN Put(records[i].relationships, r.name, ids[i])
                                     ELSE records[i].relationships
  <2>1. t[i] = IF i \in DOMAIN ids THEN WithLinkage(records[i], r.name, ids[i]) ELSE records[i]
    BY <1>2
  <2>2. IsRecord(records[i], kind)
    BY DEF Records
  <2>. HIDE DEF t
  <2>. QED BY <2>1, <2>2 DEF IsRecord, WithLinkage
<1>. QED BY <1>3, <1>4 DEF Records

\* What SQLite answers: some of the rows, one after the other.
PageIs(page) == page = <<>> \/ page \in [number : Nat \ {0}, size : Nat]

LEMMA OrderedIs ==
    ASSUME NEW s, NEW sort, NEW rows, IsFiniteSet(rows)
    PROVE  Ordered(s, sort, rows) \in Seq(ToSet(Ordered(s, sort, rows)))
<1>. DEFINE at(i) == CHOOSE row \in rows : Cardinality({x \in rows : Precedes(s, sort, x, row)}) = i - 1
            t == Ordered(s, sort, rows)
<1>1. Cardinality(rows) \in Nat
  BY FS_CardinalityType
<1>2. DOMAIN t = 1..Cardinality(rows) /\ t = [i \in 1..Cardinality(rows) |-> t[i]]
  <2>1. t = [i \in 1..Cardinality(rows) |-> at(i)]
    BY DEF Ordered
  <2>. HIDE DEF at, t
  <2>. QED BY <2>1
<1>. HIDE DEF t
<1>3. t \in Seq(ToSet(t))
  BY <1>1, <1>2, FunctionIsSequence
<1>. QED BY <1>3 DEF t

LEMMA MinOfTwo ==
    ASSUME NEW a \in Nat, NEW b \in Nat
    PROVE  Min({a, b}) \in {a, b} /\ Min({a, b}) <= a /\ Min({a, b}) <= b
BY DEF Min

LEMMA PageOf ==
    ASSUME NEW page, PageIs(page), NEW rows, rows \in Seq(ToSet(rows))
    PROVE  Page(page, rows) \in Seq(ToSet(Page(page, rows))) /\ ToSet(Page(page, rows)) \subseteq ToSet(rows)
<1>. DEFINE X == ToSet(rows)
            t == Page(page, rows)
<1>1. CASE page = <<>>
  BY <1>1 DEF Page
<1>2. CASE page # <<>>
  <2>. DEFINE o == Offset(page)
              last == Min({o + page.size, Len(rows)})
  <2>1. o \in Nat /\ Len(rows) \in Nat /\ page.size \in Nat
    <3>1. page.number - 1 \in Nat /\ page.size \in Nat /\ Numbers \in Nat /\ Numbers # 0
      BY <1>2, NumbersAssumption DEF PageIs
    <3>2. (page.number - 1) * page.size \in Nat
      BY <3>1
    <3>3. ((page.number - 1) * page.size) % Numbers \in Nat
      BY <3>1, <3>2
    <3>. QED BY <3>1, <3>3 DEF Offset
  <2>2. last \in Nat /\ last <= Len(rows)
    <3>1. o + page.size \in Nat
      BY <2>1
    <3>. HIDE DEF o
    <3>. QED BY <2>1, <3>1, MinOfTwo
  <2>3. \A i \in (o + 1)..last : rows[i] \in X
    <3>. HIDE DEF last, o
    <3>. QED BY <2>1, <2>2 DEF ToSet
  <2>4. t = SubSeq(rows, o + 1, last)
    BY <1>2 DEF Page
  <2>5. t \in Seq(X)
    <3>. HIDE DEF last, o, t, X
    <3>1. o + 1 \in Int /\ last \in Int
      BY <2>1, <2>2
    <3>. QED BY <2>3, <2>4, <3>1, SubSeqProperties
  <2>. HIDE DEF t, X
  <2>6. t \in Seq(ToSet(t)) /\ DOMAIN t = 1..Len(t) /\ Len(t) \in Nat
    BY <2>5, ItsOwnElements
  <2>7. \A i \in 1..Len(t) : t[i] \in X
    BY <2>5
  <2>8. ToSet(t) \subseteq X
    BY <2>6, <2>7 DEF ToSet
  <2>. QED BY <2>6, <2>8 DEF t, X
<1>. QED BY <1>1, <1>2
\* An answer is none, or the columns asked for of a sequence of rows.
AnswerIs(s, answer, fields) ==
  answer.error = "none" =>
    /\ ~ FieldsPanic(s, fields)
    /\ \E rows : /\ rows \in Seq(ToSet(rows))
                 /\ answer.rows = Selected(rows, ColumnsFor(s, fields))

LEMMA QueryIs ==
    ASSUME NEW s, NEW p, PageIs(p.page), NEW table, IsFiniteSet(table), NEW way
    PROVE  AnswerIs(s, Query(s, p, table, way), p.fields)
<1>. DEFINE found == Where(s, p, table)
            ordered == Ordered(s, p.sort, found)
            rows == Page(p.page, ordered)
<1>1. IsFiniteSet(found)
  <2>1. found \subseteq table
    BY DEF Where
  <2>. QED BY <2>1, FS_Subset
<1>2. rows \in Seq(ToSet(rows))
  <2>. HIDE DEF found
  <2>1. ordered \in Seq(ToSet(ordered))
    BY <1>1, OrderedIs
  <2>. HIDE DEF ordered
  <2>. QED BY <2>1, PageOf
<1>3. ASSUME Query(s, p, table, way).error = "none"
      PROVE  /\ ~ FieldsPanic(s, p.fields)
             /\ Query(s, p, table, way).rows = Selected(rows, ColumnsFor(s, p.fields))
  <2>1. QueryFault(s, p, way) = "none"
    <3>. HIDE DEF rows
    <3>. QED BY <1>3 DEF Query, Refusal
  <2>2. ~ FieldsPanic(s, p.fields)
    BY <2>1 DEF QueryFault
  <2>. QED BY <2>1, <2>2 DEF Query, Answer
<1>. HIDE DEF rows
<1>. QED BY <1>2, <1>3 DEF AnswerIs

LEMMA FindIs ==
    ASSUME NEW s, NEW id, NEW fields, NEW table
    PROVE  AnswerIs(s, Find(s, id, fields, table), fields)
<1>. DEFINE found == {row \in table : row["id"] = id}
            first == CHOOSE row \in found : TRUE
            rows == <<first>>
            answer == Find(s, id, fields, table)
<1>1. rows \in Seq(ToSet(rows))
  <2>. HIDE DEF first
  <2>1. rows \in Seq({first})
    OBVIOUS
  <2>. HIDE DEF rows
  <2>. QED BY <2>1, ItsOwnElements
<1>2. ASSUME answer.error = "none"
      PROVE  ~ FieldsPanic(s, fields) /\ answer.rows = Selected(rows, ColumnsFor(s, fields))
  <2>1. answer = IF FieldsPanic(s, fields) THEN Refusal("Panic")
                 ELSE IF "id" \notin Columns(s) THEN Refusal("SqlFailure")
                 ELSE IF found = {} THEN Refusal("RecordNotFound")
                 ELSE Answer(Selected(rows, ColumnsFor(s, fields)))
    BY DEF Find
  <2>. HIDE DEF answer, found, rows
  <2>. QED BY <1>2, <2>1 DEF Refusal, Answer
<1>. HIDE DEF rows, answer
<1>3. AnswerIs(s, answer, fields)
  BY <1>1, <1>2 DEF AnswerIs
<1>. QED BY <1>3 DEF answer

\* A collection read for another one: nothing, or some rows of its model.
CollectionIs(s, xs, fields) ==
  \/ xs = <<>>
  \/ /\ ~ FieldsPanic(s, fields)
     /\ \E rows : rows \in Seq(ToSet(rows)) /\ xs = Reads(s, rows, fields)

LEMMA LoadCollectionIs ==
    ASSUME NEW target, NEW column, NEW keys, NEW fields, NEW table, IsFiniteSet(table)
    PROVE  LET answer == LoadCollectionBy(target, column, keys, fields, table)
           IN answer.error = "none" => CollectionIs(target, answer.rows, fields)
<1>. DEFINE in == [op |-> "in", operand |-> keys]
            p == [Blank(target) EXCEPT !.fields = fields, !.filter = Put(@, column, {in})]
            answer == Query(target, p, table, Usual)
            loaded == LoadCollectionBy(target, column, keys, fields, table)
<1>1. loaded = IF keys = {} THEN Answer(<<>>) ELSE [answer EXCEPT !.rows = FromRows(target, @)]
  BY DEF LoadCollectionBy
<1>2. p.page = <<>> /\ p.fields = fields
  BY DEF Blank
<1>3. AnswerIs(target, answer, fields)
  <2>1. PageIs(p.page)
    BY <1>2 DEF PageIs
  <2>. HIDE DEF p
  <2>. QED BY <1>2, <2>1, QueryIs
<1>4. "error" \in DOMAIN answer /\ "rows" \in DOMAIN answer
  <2>. DEFINE rows == Page(p.page, Ordered(target, p.sort, Where(target, p, table)))
  <2>1. answer = IF QueryFault(target, p, Usual) # "none" THEN Refusal(QueryFault(target, p, Usual))
                 ELSE Answer(Selected(rows, ColumnsFor(target, p.fields)))
    BY DEF Query
  <2>. HIDE DEF rows, p, answer
  <2>. QED BY <2>1 DEF Refusal, Answer
<1>. HIDE DEF answer, p
<1>5. CASE keys = {}
  BY <1>1, <1>5 DEF Answer, CollectionIs
<1>6. CASE keys # {}
  <2>1. loaded.error = answer.error /\ loaded.rows = FromRows(target, answer.rows)
    <3>. HIDE DEF loaded
    <3>. QED BY <1>1, <1>4, <1>6
  <2>. HIDE DEF loaded
  <2>2. ASSUME answer.error = "none" PROVE CollectionIs(target, loaded.rows, fields)
    <3>1. PICK rows : rows \in Seq(ToSet(rows)) /\ answer.rows = Selected(rows, ColumnsFor(target, fields))
      BY <1>3, <2>2 DEF AnswerIs
    <3>2. loaded.rows = Reads(target, rows, fields)
      BY <2>1, <3>1 DEF Reads
    <3>. QED BY <1>3, <2>2, <3>1, <3>2 DEF AnswerIs, CollectionIs
  <2>. QED BY <2>1, <2>2 DEF loaded
<1>. QED BY <1>5, <1>6

\* What loading a relationship leaves of a collection, and reads for it.
LoadedFrom(loaded, s, target, r, records, fields) ==
  loaded.error = "none" =>
    /\ CollectionIs(target, loaded.related, fields)
    /\ ~ IsRequested(fields, s.name, r.name) => loaded.records = records
    /\ IsRequested(fields, s.name, r.name) =>
         \E ids : DOMAIN ids = Holders(s, records, r) /\ loaded.records = Linked(records, r, ids)

LEMMA LoadBelongsToIs ==
    ASSUME NEW s, NEW target, NEW r, NEW records, NEW fields, NEW include, NEW table, IsFiniteSet(table)
    PROVE  LoadedFrom(LoadBelongsTo(s, target, r, records, fields, include, table),
                      s, target, r, records, fields)
<1>. DEFINE onKey == r.related = target.key.name
            requested == IsRequested(fields, s.name, r.name)
            needed == include \/ (requested /\ ~ onKey)
            asked == LoadCollectionBy(target, r.related, OwnKeys(s, records, r.own), fields, table)
            found == IF needed THEN asked ELSE Answer(<<>>)
            related == found.rows
            index == Indexed(KeysOf(r, related), IdsOf(related))
            own(i) == Owned(s, records[i], r.own)
            id(i) == IF own(i) = Null THEN <<>>
                     ELSE IF onKey THEN <<own(i)>> ELSE <<index[own(i)]>>
            ids == [i \in Holders(s, records, r) |-> id(i)]
            fault == IndexFault(r, target, related)
            missing == ~ onKey /\ ~ OwnKeys(s, records, r.own) \subseteq DOMAIN index
            loaded == LoadBelongsTo(s, target, r, records, fields, include, table)
<1>1. loaded = IF found.error # "none" THEN NotLoaded(found.error)
               ELSE IF ~ requested THEN Loaded(records, related)
               ELSE IF ~ onKey /\ fault # "none" THEN NotLoaded(fault)
               ELSE IF missing THEN NotLoaded("DataLoadingError")
               ELSE Loaded(Linked(records, r, ids), related)
  BY DEF LoadBelongsTo
<1>2. found.error = "none" => CollectionIs(target, found.rows, fields)
  <2>1. CASE needed
    BY <2>1, LoadCollectionIs
  <2>2. CASE ~ needed
    <3>. HIDE DEF asked
    <3>. QED BY <2>2 DEF Answer, CollectionIs
  <2>. QED BY <2>1, <2>2
<1>3. DOMAIN ids = Holders(s, records, r)
  OBVIOUS
<1>. HIDE DEF ids, found, fault, missing, loaded
<1>4. loaded.error = "none" =>
        /\ found.error = "none" /\ loaded.related = related
        /\ loaded.records = IF requested THEN Linked(records, r, ids) ELSE records
  BY <1>1 DEF NotLoaded, Loaded
<1>. QED BY <1>2, <1>3, <1>4 DEF LoadedFrom, loaded

LEMMA LoadHasIs ==
    ASSUME NEW s, NEW target, NEW r, NEW records, NEW fields, NEW table, IsFiniteSet(table)
    PROVE  LoadedFrom(LoadHas(s, target, r, records, fields, table), s, target, r, records, fields)
<1>. DEFINE requested == IsRequested(fields, s.name, r.name)
            found == LoadCollectionBy(target, r.related, OwnKeys(s, records, r.own), fields, table)
            related == found.rows
            index == Grouped(KeysOf(r, related), IdsOf(related))
            own(i) == Owned(s, records[i], r.own)
            taken(i) == r.kind = "has_many"
                          /\ \E j \in Holders(s, records, r) : j < i /\ own(j) = own(i)
            id(i) == IF own(i) \in DOMAIN index /\ ~ taken(i) THEN index[own(i)] ELSE <<>>
            ids == [i \in Holders(s, records, r) |-> id(i)]
            fault == IndexFault(r, target, related)
            loaded == LoadHas(s, target, r, records, fields, table)
<1>1. loaded = IF found.error # "none" THEN NotLoaded(found.error)
               ELSE IF fault # "none" THEN NotLoaded(fault)
               ELSE IF ~ requested THEN Loaded(records, related)
               ELSE Loaded(Linked(records, r, ids), related)
  BY DEF LoadHas
<1>2. found.error = "none" => CollectionIs(target, found.rows, fields)
  BY LoadCollectionIs
<1>3. DOMAIN ids = Holders(s, records, r)
  OBVIOUS
<1>. HIDE DEF ids, found, fault, loaded
<1>4. loaded.error = "none" =>
        /\ found.error = "none" /\ loaded.related = related
        /\ loaded.records = IF requested THEN Linked(records, r, ids) ELSE records
  BY <1>1 DEF NotLoaded, Loaded
<1>. QED BY <1>2, <1>3, <1>4 DEF LoadedFrom, loaded

LEMMA LoadRelatedIs ==
    ASSUME NEW s, NEW target, NEW r, NEW records, NEW fields, NEW include, NEW table, IsFiniteSet(table)
    PROVE  LoadedFrom(LoadRelated(s, target, r, records, fields, include, table),
                      s, target, r, records, fields)
BY LoadBelongsToIs, LoadHasIs DEF LoadRelated
-----------------------------------------------------------------------------
(* What a load adds to records does not depend on the linkage they have. *)

\* The same records, before any relationship was loaded.
Bared(xs) == [i \in DOMAIN xs |-> [xs[i] EXCEPT !.relationships = <<>>]]

BareOf(ys, xs, kind) ==
  /\ Records(ys, kind) /\ Len(ys) = Len(xs)
  /\ \A i \in 1..Len(xs) : /\ ys[i].kind = xs[i].kind /\ ys[i].id = xs[i].id
                           /\ ys[i].columns = xs[i].columns /\ ys[i].relationships = <<>>

LEMMA BaredIs ==
    ASSUME NEW kind, NEW xs, Records(xs, kind)
    PROVE  BareOf(Bared(xs), xs, kind)
<1>. DEFINE t == Bared(xs)
<1>1. Len(xs) \in Nat /\ DOMAIN xs = 1..Len(xs)
  BY DEF Records
<1>2. t = [i \in 1..Len(xs) |-> [xs[i] EXCEPT !.relationships = <<>>]]
  BY <1>1 DEF Bared
<1>3. t \in Seq(ToSet(t)) /\ Len(t) = Len(xs)
  <2>1. DOMAIN t = 1..Len(xs) /\ t = [i \in 1..Len(xs) |-> t[i]]
    BY <1>2
  <2>. HIDE DEF t
  <2>. QED BY <1>1, <2>1, FunctionIsSequence
<1>4. ASSUME NEW i \in 1..Len(xs)
      PROVE  /\ IsRecord(t[i], kind) /\ t[i].kind = xs[i].kind /\ t[i].id = xs[i].id
             /\ t[i].columns = xs[i].columns /\ t[i].relationships = <<>>
  <2>1. t[i] = [xs[i] EXCEPT !.relationships = <<>>]
    BY <1>2
  <2>2. IsRecord(xs[i], kind)
    BY DEF Records
  <2>. HIDE DEF t
  <2>. QED BY <2>1, <2>2 DEF IsRecord
<1>5. Records(t, kind)
  <2>. HIDE DEF t
  <2>. QED BY <1>3, <1>4 DEF Records
<1>. HIDE DEF t
<1>6. BareOf(t, xs, kind)
  BY <1>3, <1>4, <1>5 DEF BareOf
<1>. QED BY <1>6 DEF t

LEMMA BaredReads ==
    ASSUME NEW kind, NEW xs, Records(xs, kind), NEW s, NEW column, NEW bared, bared = Bared(xs)
    PROVE  /\ DOMAIN bared = DOMAIN xs
           /\ \A i \in DOMAIN xs : Has(s, bared[i], column) <=> Has(s, xs[i], column)
           /\ \A i \in DOMAIN xs : Owned(s, bared[i], column) = Owned(s, xs[i], column)
           /\ OwnKeys(s, bared, column) = OwnKeys(s, xs, column)
<1>1. /\ DOMAIN bared = DOMAIN xs
      /\ \A i \in DOMAIN xs : bared[i].id = xs[i].id /\ bared[i].columns = xs[i].columns
  <2>1. DOMAIN xs = 1..Len(xs)
    BY DEF Records
  <2>2. ASSUME NEW i \in 1..Len(xs) PROVE bared[i].id = xs[i].id /\ bared[i].columns = xs[i].columns
    <3>1. bared[i] = [xs[i] EXCEPT !.relationships = <<>>]
      BY <2>1 DEF Bared
    <3>2. IsRecord(xs[i], kind)
      BY DEF Records
    <3>. QED BY <3>1, <3>2 DEF IsRecord
  <2>. QED BY <2>1, <2>2 DEF Bared
<1>2. \A i \in DOMAIN xs : Has(s, bared[i], column) <=> Has(s, xs[i], column)
  BY <1>1 DEF Has
<1>3. \A i \in DOMAIN xs : Owned(s, bared[i], column) = Owned(s, xs[i], column)
  BY <1>1 DEF Owned
<1>4. ASSUME NEW ys, DOMAIN ys = DOMAIN xs
      PROVE  {Owned(s, x, column) : x \in {y \in ToSet(ys) : Has(s, y, column)}}
               = {Owned(s, ys[i], column) : i \in {j \in DOMAIN xs : Has(s, ys[j], column)}}
  BY <1>4 DEF ToSet
<1>5. {Owned(s, bared[i], column) : i \in {j \in DOMAIN xs : Has(s, bared[j], column)}}
        = {Owned(s, xs[i], column) : i \in {j \in DOMAIN xs : Has(s, xs[j], column)}}
  BY <1>2, <1>3
<1>6. OwnKeys(s, bared, column) = OwnKeys(s, xs, column)
  BY <1>1, <1>4, <1>5 DEF OwnKeys
<1>. QED BY <1>1, <1>2, <1>3, <1>6

\* A load as the linkage it gives to some of the records, none if it was not asked for.
LoadsBy(loaded, records, r, error, ids, related) ==
  loaded = IF error # "none" THEN NotLoaded(error) ELSE Loaded(Linked(records, r, ids), related)

LEMMA NothingLinked ==
    ASSUME NEW kind, NEW xs, Records(xs, kind), NEW r
    PROVE  Linked(xs, r, <<>>) = xs
<1>1. xs = [i \in DOMAIN xs |-> xs[i]]
  BY DEF Records
<1>. QED BY <1>1 DEF Linked

\* The loads of the records as they are and of the bared ones are one load.
LoadsAlike(loaded, other, records, bared, s, r) ==
  \E error, ids, related :
    /\ LoadsBy(loaded, records, r, error, ids, related)
    /\ LoadsBy(other, bared, r, error, ids, related)
    /\ DOMAIN ids \subseteq Holders(s, records, r)

LEMMA BelongsToIgnoresLinkage ==
    ASSUME NEW s, NEW target, NEW r, NEW kind, NEW records, Records(records, kind), NEW fields, NEW include,
           NEW table, NEW bared, bared = Bared(records)
    PROVE  LoadsAlike(LoadBelongsTo(s, target, r, records, fields, include, table),
                      LoadBelongsTo(s, target, r, bared, fields, include, table), records, bared, s, r)
<1>. DEFINE onKey == r.related = target.key.name
            requested == IsRequested(fields, s.name, r.name)
            keys == OwnKeys(s, records, r.own)
            holders == Holders(s, records, r)
            found == IF include \/ (requested /\ ~ onKey)
                     THEN LoadCollectionBy(target, r.related, keys, fields, table)
                     ELSE Answer(<<>>)
            related == found.rows
            index == Indexed(KeysOf(r, related), IdsOf(related))
            id(own) == IF own = Null THEN <<>> ELSE IF onKey THEN <<own>> ELSE <<index[own]>>
            ids == [i \in holders |-> id(Owned(s, records[i], r.own))]
            ids2 == [i \in holders |-> id(Owned(s, bared[i], r.own))]
            fault == IndexFault(r, target, related)
            missing == ~ onKey /\ ~ keys \subseteq DOMAIN index
            error == IF found.error # "none" THEN found.error
                     ELSE IF ~ requested THEN "none"
                     ELSE IF ~ onKey /\ fault # "none" THEN fault
                     ELSE IF missing THEN "DataLoadingError" ELSE "none"
            given == IF requested THEN ids ELSE <<>>
            loaded == LoadBelongsTo(s, target, r, records, fields, include, table)
            other == LoadBelongsTo(s, target, r, bared, fields, include, table)
<1>1. /\ OwnKeys(s, bared, r.own) = keys
      /\ Holders(s, bared, r) = holders
      /\ \A i \in holders : Owned(s, bared[i], r.own) = Owned(s, records[i], r.own)
  <2>. DEFINE column == r.own
  <2>. HIDE DEF column
  <2>1. /\ DOMAIN bared = DOMAIN records
        /\ \A i \in DOMAIN records : Has(s, bared[i], column) <=> Has(s, records[i], column)
        /\ \A i \in DOMAIN records : Owned(s, bared[i], column) = Owned(s, records[i], column)
        /\ OwnKeys(s, bared, column) = OwnKeys(s, records, column)
    BY BaredReads
  <2>. QED BY <2>1 DEF Holders, column
<1>2. loaded = IF found.error # "none" THEN NotLoaded(found.error)
               ELSE IF ~ requested THEN Loaded(records, related)
               ELSE IF ~ onKey /\ fault # "none" THEN NotLoaded(fault)
               ELSE IF missing THEN NotLoaded("DataLoadingError")
               ELSE Loaded(Linked(records, r, ids), related)
  BY DEF LoadBelongsTo
<1>3. other = IF found.error # "none" THEN NotLoaded(found.error)
              ELSE IF ~ requested THEN Loaded(bared, related)
              ELSE IF ~ onKey /\ fault # "none" THEN NotLoaded(fault)
              ELSE IF missing THEN NotLoaded("DataLoadingError")
              ELSE Loaded(Linked(bared, r, ids2), related)
  BY <1>1 DEF LoadBelongsTo
<1>4. ids2 = ids
  BY <1>1
<1>5. Linked(records, r, <<>>) = records /\ Linked(bared, r, <<>>) = bared
  <2>1. BareOf(bared, records, kind)
    BY BaredIs
  <2>2. Records(bared, kind)
    BY <2>1 DEF BareOf
  <2>. QED BY <2>2, NothingLinked
<1>6. DOMAIN given \subseteq holders
  <2>1. DOMAIN ids = holders
    OBVIOUS
  <2>. HIDE DEF ids
  <2>. QED BY <2>1
<1>. HIDE DEF ids, ids2, found, fault, missing, requested, loaded, other
<1>7. LoadsBy(loaded, records, r, error, given, related) /\ LoadsBy(other, bared, r, error, given, related)
  BY <1>2, <1>3, <1>4, <1>5 DEF LoadsBy
<1>8. LoadsAlike(loaded, other, records, bared, s, r)
  <2>. HIDE DEF error, given
  <2>. QED BY <1>6, <1>7 DEF LoadsAlike
<1>. QED BY <1>8 DEF loaded, other

LEMMA HasIgnoresLinkage ==
    ASSUME NEW s, NEW target, NEW r, NEW kind, NEW records, Records(records, kind), NEW fields,
           NEW table, NEW bared, bared = Bared(records)
    PROVE  LoadsAlike(LoadHas(s, target, r, records, fields, table),
                      LoadHas(s, target, r, bared, fields, table), records, bared, s, r)
<1>. DEFINE requested == IsRequested(fields, s.name, r.name)
            keys == OwnKeys(s, records, r.own)
            holders == Holders(s, records, r)
            found == LoadCollectionBy(target, r.related, keys, fields, table)
            related == found.rows
            index == Grouped(KeysOf(r, related), IdsOf(related))
            own(i) == Owned(s, records[i], r.own)
            own2(i) == Owned(s, bared[i], r.own)
            taken(i) == r.kind = "has_many" /\ \E j \in holders : j < i /\ own(j) = own(i)
            taken2(i) == r.kind = "has_many" /\ \E j \in holders : j < i /\ own2(j) = own2(i)
            ids == [i \in holders |-> IF own(i) \in DOMAIN index /\ ~ taken(i) THEN index[own(i)] ELSE <<>>]
            ids2 == [i \in holders |-> IF own2(i) \in DOMAIN index /\ ~ taken2(i) THEN index[own2(i)] ELSE <<>>]
            fault == IndexFault(r, target, related)
            error == IF found.error # "none" THEN found.error
                     ELSE IF fault # "none" THEN fault ELSE "none"
            given == IF requested THEN ids ELSE <<>>
            loaded == LoadHas(s, target, r, records, fields, table)
            other == LoadHas(s, target, r, bared, fields, table)
<1>1. /\ OwnKeys(s, bared, r.own) = keys
      /\ Holders(s, bared, r) = holders
      /\ \A i \in holders : own2(i) = own(i)
  <2>. DEFINE column == r.own
  <2>. HIDE DEF column
  <2>1. /\ DOMAIN bared = DOMAIN records
        /\ \A i \in DOMAIN records : Has(s, bared[i], column) <=> Has(s, records[i], column)
        /\ \A i \in DOMAIN records : Owned(s, bared[i], column) = Owned(s, records[i], column)
        /\ OwnKeys(s, bared, column) = OwnKeys(s, records, column)
    BY BaredReads
  <2>. QED BY <2>1 DEF Holders, column
<1>2. loaded = IF found.error # "none" THEN NotLoaded(found.error)
               ELSE IF fault # "none" THEN NotLoaded(fault)
               ELSE IF ~ requested THEN Loaded(records, related)
               ELSE Loaded(Linked(records, r, ids), related)
  BY DEF LoadHas
<1>3. other = IF found.error # "none" THEN NotLoaded(found.error)
              ELSE IF fault # "none" THEN NotLoaded(fault)
              ELSE IF ~ requested THEN Loaded(bared, related)
              ELSE Loaded(Linked(bared, r, ids2), related)
  BY <1>1 DEF LoadHas
<1>4. ids2 = ids
  <2>. HIDE DEF own, own2, index
  <2>1. \A i \in holders : own2(i) = own(i) /\ (taken2(i) <=> taken(i))
    BY <1>1
  <2>. HIDE DEF taken, taken2
  <2>. QED BY <2>1
<1>5. Linked(records, r, <<>>) = records /\ Linked(bared, r, <<>>) = bared
  <2>1. BareOf(bared, records, kind)
    BY BaredIs
  <2>2. Records(bared, kind)
    BY <2>1 DEF BareOf
  <2>. QED BY <2>2, NothingLinked
<1>6. DOMAIN given \subseteq holders
  <2>1. DOMAIN ids = holders
    OBVIOUS
  <2>. HIDE DEF ids
  <2>. QED BY <2>1
<1>. HIDE DEF ids, ids2, found, fault, requested, loaded, other
<1>7. LoadsBy(loaded, records, r, error, given, related) /\ LoadsBy(other, bared, r, error, given, related)
  BY <1>2, <1>3, <1>4, <1>5 DEF LoadsBy
<1>8. LoadsAlike(loaded, other, records, bared, s, r)
  <2>. HIDE DEF error, given
  <2>. QED BY <1>6, <1>7 DEF LoadsAlike
<1>. QED BY <1>8 DEF loaded, other

\* What was there before stays, what the load adds is what it would have added
\* to the bared records.
Adds(loaded, other, records, r) ==
  /\ loaded.error = other.error /\ loaded.related = other.related
  /\ loaded.error = "none" =>
       /\ Len(loaded.records) = Len(records) /\ Len(other.records) = Len(records)
       /\ \A i \in 1..Len(records) :
            LET was == records[i]
                now == loaded.records[i]
                added == other.records[i]
            IN /\ now.kind = was.kind /\ now.id = was.id /\ now.columns = was.columns
               /\ added.kind = was.kind /\ added.id = was.id /\ added.columns = was.columns
               /\ DOMAIN added.relationships \subseteq {r.name}
               /\ DOMAIN now.relationships = DOMAIN was.relationships \cup DOMAIN added.relationships
               /\ \A name \in DOMAIN now.relationships :
                    now.relationships[name] = IF name \in DOMAIN added.relationships
                                              THEN added.relationships[name] ELSE was.relationships[name]

LEMMA LoadAdds ==
    ASSUME NEW s, NEW target, NEW r, NEW kind, NEW records, Records(records, kind), NEW fields, NEW include,
           NEW table,
           NEW loaded, loaded = LoadRelated(s, target, r, records, fields, include, table),
           NEW other, other = LoadRelated(s, target, r, Bared(records), fields, include, table)
    PROVE  Adds(loaded, other, records, r)
<1>. DEFINE bared == Bared(records)
<1>1. LoadsAlike(loaded, other, records, bared, s, r)
  <2>1. CASE r.kind = "belongs_to"
    <3>1. /\ loaded = LoadBelongsTo(s, target, r, records, fields, include, table)
          /\ other = LoadBelongsTo(s, target, r, bared, fields, include, table)
      BY <2>1 DEF LoadRelated
    <3>. HIDE DEF bared
    <3>2. bared = Bared(records)
      BY DEF bared
    <3>. QED BY <3>1, <3>2, BelongsToIgnoresLinkage
  <2>2. CASE r.kind # "belongs_to"
    <3>1. /\ loaded = LoadHas(s, target, r, records, fields, table)
          /\ other = LoadHas(s, target, r, bared, fields, table)
      BY <2>2 DEF LoadRelated
    <3>. HIDE DEF bared
    <3>2. bared = Bared(records)
      BY DEF bared
    <3>. QED BY <3>1, <3>2, HasIgnoresLinkage
  <2>. QED BY <2>1, <2>2
<1>2. PICK error, ids, related :
        /\ LoadsBy(loaded, records, r, error, ids, related)
        /\ LoadsBy(other, bared, r, error, ids, related)
        /\ DOMAIN ids \subseteq Holders(s, records, r)
  BY <1>1 DEF LoadsAlike
<1>3. /\ Records(bared, kind) /\ Len(bared) = Len(records)
      /\ \A i \in 1..Len(records) :
           /\ bared[i].kind = records[i].kind /\ bared[i].id = records[i].id
           /\ bared[i].columns = records[i].columns /\ bared[i].relationships = <<>>
  <2>1. BareOf(bared, records, kind)
    BY BaredIs
  <2>. QED BY <2>1 DEF BareOf
<1>. HIDE DEF bared
<1>. DEFINE t == Linked(records, r, ids)
            u == Linked(bared, r, ids)
<1>4. CASE error # "none"
  BY <1>2, <1>4 DEF LoadsBy, NotLoaded, Adds
<1>5. CASE error = "none"
  <2>1. /\ loaded.error = "none" /\ other.error = "none" /\ loaded.related = other.related
        /\ loaded.records = t /\ other.records = u
    <3>. HIDE DEF t, u
    <3>1. loaded = Loaded(t, related) /\ other = Loaded(u, related)
      BY <1>2, <1>5 DEF LoadsBy, t, u
    <3>. QED BY <3>1 DEF Loaded
  <2>2. /\ Records(t, kind) /\ Len(t) = Len(records)
        /\ \A i \in 1..Len(records) :
             /\ t[i].id = records[i].id /\ t[i].columns = records[i].columns
             /\ t[i].relationships = IF i \in DOMAIN ids THEN Put(records[i].relationships, r.name, ids[i])
                                     ELSE records[i].relationships
    BY LinkedIs
  <2>3. /\ Records(u, kind) /\ Len(u) = Len(bared)
        /\ \A i \in 1..Len(bared) :
             /\ u[i].id = bared[i].id /\ u[i].columns = bared[i].columns
             /\ u[i].relationships = IF i \in DOMAIN ids THEN Put(bared[i].relationships, r.name, ids[i])
                                     ELSE bared[i].relationships
    BY <1>3, LinkedIs
  <2>. HIDE DEF t, u
  <2>4. ASSUME NEW i \in 1..Len(records)
        PROVE  LET was == records[i]
                   now == t[i]
                   added == u[i]
               IN /\ now.kind = was.kind /\ now.id = was.id /\ now.columns = was.columns
                  /\ added.kind = was.kind /\ added.id = was.id /\ added.columns = was.columns
                  /\ DOMAIN added.relationships \subseteq {r.name}
                  /\ DOMAIN now.relationships = DOMAIN was.relationships \cup DOMAIN added.relationships
                  /\ \A name \in DOMAIN now.relationships :
                       now.relationships[name] = IF name \in DOMAIN added.relationships
                                                 THEN added.relationships[name] ELSE was.relationships[name]
    <3>1. t[i].kind = records[i].kind /\ u[i].kind = records[i].kind
      <4>1. i \in 1..Len(t) /\ i \in 1..Len(u)
        BY <1>3, <2>2, <2>3
      <4>. QED BY <1>3, <2>2, <2>3, <4>1 DEF Records, IsRecord
    <3>2. /\ t[i].id = records[i].id /\ t[i].columns = records[i].columns
          /\ u[i].id = records[i].id /\ u[i].columns = records[i].columns
      BY <1>3, <2>2, <2>3
    <3>. DEFINE rel == records[i].relationships
    <3>3. /\ t[i].relationships = IF i \in DOMAIN ids THEN Put(rel, r.name, ids[i]) ELSE rel
          /\ u[i].relationships = IF i \in DOMAIN ids THEN Put(<<>>, r.name, ids[i]) ELSE <<>>
      BY <1>3, <2>2, <2>3
    <3>. HIDE DEF rel
    <3>4. /\ DOMAIN u[i].relationships \subseteq {r.name}
          /\ DOMAIN t[i].relationships = DOMAIN rel \cup DOMAIN u[i].relationships
          /\ \A name \in DOMAIN t[i].relationships :
               t[i].relationships[name] = IF name \in DOMAIN u[i].relationships
                                          THEN u[i].relationships[name] ELSE rel[name]
      <4>1. CASE i \in DOMAIN ids
        <5>1. t[i].relationships = Put(rel, r.name, ids[i]) /\ u[i].relationships = Put(<<>>, r.name, ids[i])
          BY <3>3, <4>1
        <5>2. DOMAIN <<>> = {}
          OBVIOUS
        <5>. QED BY <5>1, <5>2 DEF Put
      <4>2. CASE i \notin DOMAIN ids
        BY <3>3, <4>2
      <4>. QED BY <4>1, <4>2
    <3>. QED BY <3>1, <3>2, <3>4 DEF rel
  <2>. QED BY <1>3, <2>1, <2>2, <2>3, <2>4 DEF Adds
<1>. QED BY <1>4, <1>5

-----------------------------------------------------------------------------
(* The cache. *)

\* The cache after so many records of a collection.
LEMMA MergingIs ==
    ASSUME NEW c, NEW records, Len(records) \in Nat
    PROVE  /\ Merging(c, records)[0] = c
           /\ \A i \in 1..Len(records) :
                Merging(c, records)[i] = Merge(Merging(c, records)[i - 1], records[i])
<1>. DEFINE n == Len(records)
            Good(f, k) == f[0] = c /\ \A i \in 1..k : f[i] = Merge(f[i - 1], records[i])
            G(f) == [i \in 0..n |-> IF i = 0 THEN c ELSE Merge(f[i - 1], records[i])]
            after == CHOOSE f : f = G(f)
            S == {k \in 0..n : \E f : f = [i \in 0..k |-> f[i]] /\ Good(f, k)}
<1>1. n \in Nat
  OBVIOUS
<1>. HIDE DEF n
<1>2. 0 \in S
  <2>1. 0 \in 0..n
    BY <1>1
  <2>2. [i \in 0..0 |-> c] = [i \in 0..0 |-> [j \in 0..0 |-> c][i]] /\ Good([i \in 0..0 |-> c], 0)
    OBVIOUS
  <2>. QED BY <2>1, <2>2
<1>3. ASSUME NEW k \in 1..n, k - 1 \in S PROVE k \in S
  <2>1. PICK f : f = [i \in 0..(k - 1) |-> f[i]] /\ Good(f, k - 1)
    BY <1>3
  <2>. DEFINE value(i) == IF i = k THEN Merge(f[k - 1], records[k]) ELSE f[i]
              g == [i \in 0..k |-> value(i)]
  <2>2. k \in Nat /\ k # 0 /\ k \in 0..n /\ k - 1 \in 0..k /\ k - 1 # k
    BY <1>1
  <2>3. g[0] = c
    BY <2>1, <2>2
  <2>4. ASSUME NEW i \in 1..k PROVE g[i] = Merge(g[i - 1], records[i])
    <3>1. i \in 0..k /\ i - 1 \in 0..k /\ i - 1 # k
      BY <2>2
    <3>2. CASE i = k
      BY <3>1, <3>2
    <3>3. CASE i # k
      <4>1. i \in 1..(k - 1)
        BY <2>2, <3>3
      <4>2. f[i] = Merge(f[i - 1], records[i])
        BY <2>1, <4>1
      <4>. QED BY <3>1, <3>3, <4>2
    <3>. QED BY <3>2, <3>3
  <2>5. g = [i \in 0..k |-> g[i]]
    <3>. HIDE DEF value
    <3>. QED OBVIOUS
  <2>. HIDE DEF g
  <2>. QED BY <2>2, <2>3, <2>4, <2>5
<1>. HIDE DEF S
<1>4. 0..n \subseteq S
  <2>. HIDE DEF G, Good
  <2>. QED BY <1>1, <1>2, <1>3, BoundedInduction
<1>. USE DEF Good
<1>5. PICK f : f = [i \in 0..n |-> f[i]] /\ Good(f, n)
  <2>1. n \in 0..n
    BY <1>1
  <2>. QED BY <1>4, <2>1 DEF S
<1>6. f = G(f)
  <2>1. ASSUME NEW i \in 0..n PROVE f[i] = IF i = 0 THEN c ELSE Merge(f[i - 1], records[i])
    <3>1. i = 0 \/ (i # 0 /\ i \in 1..n)
      BY <1>1
    <3>. QED BY <1>5, <3>1
  <2>. QED BY <1>5, <2>1
<1>7. after = G(after)
  <2>. HIDE DEF G
  <2>. QED BY <1>6
<1>8. Merging(c, records) = after
  BY DEF Merging, n
<1>. HIDE DEF after
<1>9. after[0] = c /\ \A i \in 1..n : after[i] = Merge(after[i - 1], records[i])
  <2>1. 0 \in 0..n /\ \A i \in 1..n : i \in 0..n /\ i # 0
    BY <1>1
  <2>. QED BY <1>7, <2>1
<1>. QED BY <1>8, <1>9 DEF n

\* A cache has what it holds under its identifier.
Keyed(c) ==
  \A key \in DOMAIN c : IsRecord(c[key], c[key].kind) /\ Identifier(c[key]) = key

LEMMA MergeIs ==
    ASSUME NEW c, Keyed(c), NEW x, IsRecord(x, x.kind)
    PROVE  LET key == Identifier(x)
               d == Merge(c, x)
           IN /\ Keyed(d)
              /\ DOMAIN d = DOMAIN c \cup {key}
              /\ \A k \in DOMAIN c : k # key => d[k] = c[k]
              /\ key \notin DOMAIN c => d[key] = x
              /\ key \in DOMAIN c =>
                   /\ d[key].columns = c[key].columns
                   /\ d[key].relationships = Over(c[key].relationships, x.relationships)
<1>. DEFINE key == Identifier(x)
            d == Merge(c, x)
<1>1. CASE key \notin DOMAIN c
  <2>1. d = Put(c, key, x)
    BY <1>1 DEF Merge
  <2>2. DOMAIN d = DOMAIN c \cup {key} /\ d[key] = x /\ \A k \in DOMAIN c : k # key => d[k] = c[k]
    BY <2>1 DEF Put
  <2>. HIDE DEF d
  <2>3. Keyed(d)
    BY <2>2 DEF Keyed
  <2>. QED BY <1>1, <2>2, <2>3 DEF d
<1>2. CASE key \in DOMAIN c
  <2>. DEFINE both == Over(c[key].relationships, x.relationships)
  <2>1. d = [c EXCEPT ![key].relationships = both]
    BY <1>2 DEF Merge
  <2>2. IsRecord(c[key], c[key].kind) /\ Identifier(c[key]) = key
    BY <1>2 DEF Keyed
  <2>. HIDE DEF d, both, key
  <2>3. DOMAIN d = DOMAIN c /\ \A k \in DOMAIN c : k # key => d[k] = c[k]
    BY <2>1
  <2>4. d[key] = [c[key] EXCEPT !.relationships = both]
    BY <1>2, <2>1
  <2>5. /\ d[key].kind = c[key].kind /\ d[key].id = c[key].id /\ d[key].columns = c[key].columns
        /\ d[key].relationships = both /\ DOMAIN d[key] = DOMAIN c[key]
    BY <2>2, <2>4 DEF IsRecord
  <2>6. IsRecord(d[key], d[key].kind) /\ Identifier(d[key]) = key
    BY <2>2, <2>5 DEF IsRecord, Identifier
  <2>7. Keyed(d)
    BY <2>3, <2>6 DEF Keyed
  <2>. QED BY <1>2, <2>3, <2>5, <2>7 DEF d, both, key
<1>. QED BY <1>1, <1>2

Identifiers(xs) == {Identifier(x) : x \in ToSet(xs)}

LEMMA MergeAllIs ==
    ASSUME NEW c, Keyed(c), NEW kind, NEW records, Records(records, kind)
    PROVE  /\ Keyed(MergeAll(c, records))
           /\ DOMAIN MergeAll(c, records) = DOMAIN c \cup Identifiers(records)
<1>. DEFINE n == Len(records)
            after == Merging(c, records)
            upTo(i) == {Identifier(records[j]) : j \in 1..i}
            S == {i \in 0..n : Keyed(after[i]) /\ DOMAIN after[i] = DOMAIN c \cup upTo(i)}
<1>1. n \in Nat /\ DOMAIN records = 1..n /\ \A i \in 1..n : IsRecord(records[i], kind)
  BY DEF Records
<1>2. after[0] = c /\ \A i \in 1..n : after[i] = Merge(after[i - 1], records[i])
  BY <1>1, MergingIs
<1>. HIDE DEF after, n
<1>3. 0 \in S
  BY <1>1, <1>2
<1>4. ASSUME NEW i \in 1..n, i - 1 \in S PROVE i \in S
  <2>1. Keyed(after[i - 1]) /\ DOMAIN after[i - 1] = DOMAIN c \cup upTo(i - 1)
    BY <1>4
  <2>2. IsRecord(records[i], records[i].kind)
    BY <1>1 DEF IsRecord
  <2>3. /\ Keyed(after[i])
        /\ DOMAIN after[i] = DOMAIN after[i - 1] \cup {Identifier(records[i])}
    <3>. DEFINE before == after[i - 1]
                x == records[i]
    <3>1. Keyed(before) /\ IsRecord(x, x.kind) /\ after[i] = Merge(before, x)
      BY <1>2, <2>1, <2>2
    <3>. HIDE DEF before, x
    <3>2. Keyed(Merge(before, x)) /\ DOMAIN Merge(before, x) = DOMAIN before \cup {Identifier(x)}
      BY <3>1, MergeIs
    <3>. QED BY <3>1, <3>2 DEF before, x
  <2>4. upTo(i) = upTo(i - 1) \cup {Identifier(records[i])} /\ i \in 0..n
    <3>1. 1..i = 1..(i - 1) \cup {i} /\ i \in 0..n
      BY <1>1
    <3>. QED BY <3>1
  <2>. QED BY <2>1, <2>3, <2>4
<1>. HIDE DEF S
<1>5. n \in S
  <2>1. n \in Nat
    BY <1>1
  <2>2. 0..n \subseteq S
    <3>. HIDE DEF upTo
    <3>. QED BY <1>3, <1>4, <2>1, BoundedInduction
  <2>. QED BY <2>1, <2>2
<1>6. Keyed(after[n]) /\ DOMAIN after[n] = DOMAIN c \cup upTo(n)
  BY <1>5 DEF S
<1>7. upTo(n) = Identifiers(records)
  BY <1>1 DEF Identifiers, ToSet
<1>. QED BY <1>6, <1>7 DEF MergeAll, after, n
-----------------------------------------------------------------------------
(* Parsing a query. *)

\* The parameters after so many entries, each read only if those before were.
ReadSoFar(query, s, byName, upTo) ==
  /\ upTo[0] = Blank(s)
  /\ \A i \in 1..Len(query) :
       upTo[i] = IF upTo[i - 1].error # "none" THEN upTo[i - 1]
                 ELSE ParseEntry(upTo[i - 1], query[i], s, byName)

LEMMA ParsingIs ==
    ASSUME NEW query, query \in Seq(ToSet(query)), NEW s, NEW byName
    PROVE  \E upTo :
             /\ ReadSoFar(query, s, byName, upTo)
             /\ Parse(query, s, byName) =
                  LET read == upTo[Len(query)]
                  IN IF read.error # "none" THEN read
                     ELSE [read EXCEPT !.fields = DiscoverFields(@, read.models, byName)]
<1>. DEFINE n == Len(query)
            b == Blank(s)
            next(p, i) == IF p.error # "none" THEN p ELSE ParseEntry(p, query[i], s, byName)
            Good(f, k) == f[0] = b /\ \A i \in 1..k : f[i] = next(f[i - 1], i)
            G(f) == [i \in 0..n |-> IF i = 0 THEN b ELSE next(f[i - 1], i)]
            after == CHOOSE f : f = G(f)
            S == {k \in 0..n : \E f : f = [i \in 0..k |-> f[i]] /\ Good(f, k)}
<1>1. n \in Nat
  OBVIOUS
<1>2. Parse(query, s, byName) =
        LET read == after[n]
        IN IF read.error # "none" THEN read
           ELSE [read EXCEPT !.fields = DiscoverFields(@, read.models, byName)]
  BY Zenon DEF Parse
<1>3. ASSUME ReadSoFar(query, s, byName, after)
      PROVE  \E upTo :
               /\ ReadSoFar(query, s, byName, upTo)
               /\ Parse(query, s, byName) =
                    LET read == upTo[Len(query)]
                    IN IF read.error # "none" THEN read
                       ELSE [read EXCEPT !.fields = DiscoverFields(@, read.models, byName)]
  <2>. HIDE DEF after
  <2>. QED BY <1>2, <1>3, Zenon
<1>4. SUFFICES ASSUME TRUE PROVE Good(after, n)
  <2>. HIDE DEF after
  <2>. QED BY <1>3 DEF ReadSoFar
<1>. HIDE DEF n, b, next
<1>5. 0 \in S
  <2>1. 0 \in 0..n
    BY <1>1
  <2>2. [i \in 0..0 |-> b] = [i \in 0..0 |-> [j \in 0..0 |-> b][i]] /\ Good([i \in 0..0 |-> b], 0)
    OBVIOUS
  <2>. QED BY <2>1, <2>2
<1>6. ASSUME NEW k \in 1..n, k - 1 \in S PROVE k \in S
  <2>1. PICK f : f = [i \in 0..(k - 1) |-> f[i]] /\ Good(f, k - 1)
    BY <1>6
  <2>. DEFINE value(i) == IF i = k THEN next(f[k - 1], k) ELSE f[i]
              g == [i \in 0..k |-> value(i)]
  <2>2. k \in Nat /\ k # 0 /\ k \in 0..n /\ k - 1 \in 0..k /\ k - 1 # k
    BY <1>1
  <2>3. g[0] = b
    BY <2>1, <2>2
  <2>4. ASSUME NEW i \in 1..k PROVE g[i] = next(g[i - 1], i)
    <3>1. i \in 0..k /\ i - 1 \in 0..k /\ i - 1 # k
      BY <2>2
    <3>2. CASE i = k
      BY <3>1, <3>2
    <3>3. CASE i # k
      <4>1. i \in 1..(k - 1)
        BY <2>2, <3>3
      <4>2. f[i] = next(f[i - 1], i)
        BY <2>1, <4>1
      <4>. QED BY <3>1, <3>3, <4>2
    <3>. QED BY <3>2, <3>3
  <2>5. g = [i \in 0..k |-> g[i]]
    <3>. HIDE DEF value
    <3>. QED OBVIOUS
  <2>. HIDE DEF g
  <2>. QED BY <2>2, <2>3, <2>4, <2>5
<1>7. 0..n \subseteq S
  <2>. HIDE DEF S, G
  <2>. QED BY <1>1, <1>5, <1>6, BoundedInduction
<1>8. PICK f : f = [i \in 0..n |-> f[i]] /\ Good(f, n)
  <2>1. n \in 0..n
    BY <1>1
  <2>. QED BY <1>7, <2>1
<1>9. f = G(f)
  <2>1. ASSUME NEW i \in 0..n PROVE f[i] = IF i = 0 THEN b ELSE next(f[i - 1], i)
    <3>1. i = 0 \/ (i # 0 /\ i \in 1..n)
      BY <1>1
    <3>. QED BY <1>8, <3>1
  <2>. QED BY <1>8, <2>1
<1>10. after = G(after)
  <2>. HIDE DEF G
  <2>. QED BY <1>9
<1>. HIDE DEF after
<1>11. 0 \in 0..n /\ \A i \in 1..n : i \in 0..n /\ i # 0
  BY <1>1
<1>. QED BY <1>10, <1>11
-----------------------------------------------------------------------------
(* Where a path leads. *)

Closed(byName) ==
  \A m \in DOMAIN byName :
    /\ m \in STRING /\ m # Null /\ byName[m].name = m
    /\ Declarable(byName[m]) /\ ValidSchema(byName[m])
    /\ \A r \in Relationships(byName[m]) :
         r.resource \in DOMAIN byName /\ ValidRelationship(byName[m], r, byName)

LEMMA RegistryIsClosed ==
    ASSUME Given, Consistent(schemas)
    PROVE  Closed(reg) /\ Registered(reg, schemas)
<1>1. Registered(reg, schemas)
  BY RegistryIs DEF Consistent, reg
<1>2. ASSUME NEW m \in DOMAIN reg
      PROVE  /\ m \in STRING /\ m # Null /\ reg[m].name = m
             /\ Declarable(reg[m]) /\ ValidSchema(reg[m])
             /\ \A r \in Relationships(reg[m]) :
                  r.resource \in DOMAIN reg /\ ValidRelationship(reg[m], r, reg)
  <2>1. reg[m] \in ToSet(schemas) /\ reg[m].name = m
    BY <1>1 DEF Registered
  <2>2. PICK i \in DOMAIN schemas : reg[m] = schemas[i]
    BY <2>1 DEF ToSet
  <2>. DEFINE s == reg[m]
  <2>3. Declarable(s) /\ m \in STRING /\ m # Null
    BY <2>1, NullAssumption DEF Given, Declarable
  <2>4. ValidSchema(s) /\ \A r \in Relationships(s) : ValidRelationship(s, r, reg)
    BY <2>2 DEF Consistent, reg
  <2>5. \A r \in Relationships(s) : r.resource \in DOMAIN reg
    BY <2>4 DEF ValidRelationship
  <2>. HIDE DEF s
  <2>. QED BY <2>1, <2>3, <2>4, <2>5 DEF s
<1>. QED BY <1>1, <1>2 DEF Closed

WalkStep(path, byName, at, i) ==
  IF at # Null /\ path[i] \in RelationshipNames(byName[at])
  THEN Relationship(byName[at], path[i]).resource
  ELSE Null

LEMMA WalkIs ==
    ASSUME NEW byName, Closed(byName), NEW s, s.name \in DOMAIN byName, NEW path, Len(path) \in Nat
    PROVE  LET at == Walk(path, s, byName)
           IN /\ at[0] = s.name
              /\ \A i \in 0..Len(path) : at[i] \in DOMAIN byName \cup {Null}
              /\ \A i \in 1..Len(path) : at[i] = WalkStep(path, byName, at[i - 1], i)
<1>. DEFINE n == Len(path)
            V == DOMAIN byName \cup {Null}
            b == s.name
            next(v, i) == WalkStep(path, byName, v, i)
            step == [i \in 1..n |-> [v \in V |-> next(v, i)]]
            G(f) == [i \in 0..n |-> IF i = 0 THEN b ELSE next(f[i - 1], i)]
            at == CHOOSE f : f = G(f)
<1>1. n \in Nat /\ b \in V
  OBVIOUS
<1>2. ASSUME NEW v \in V, NEW i \in 1..n PROVE next(v, i) \in V
  <2>1. CASE v # Null /\ path[i] \in RelationshipNames(byName[v])
    <3>1. Relationship(byName[v], path[i]) \in Relationships(byName[v])
      BY <2>1, RelationshipIs DEF Closed
    <3>. QED BY <2>1, <3>1 DEF WalkStep, Closed
  <2>2. CASE ~ (v # Null /\ path[i] \in RelationshipNames(byName[v]))
    BY <2>2 DEF WalkStep
  <2>. QED BY <2>1, <2>2
<1>3. Walk(path, s, byName) = at
  BY DEF Walk, WalkStep
<1>. HIDE DEF n, V, b, next
<1>4. step \in [1..n -> [V -> V]]
  BY <1>2
<1>5. PICK f \in [0..n -> V] : Unfolds(f, n, b, step)
  <2>. HIDE DEF step
  <2>. QED BY <1>1, <1>4, Recursion
<1>6. f = G(f)
  <2>1. ASSUME NEW i \in 0..n PROVE f[i] = IF i = 0 THEN b ELSE next(f[i - 1], i)
    <3>1. i = 0 \/ (i # 0 /\ i \in 1..n /\ i - 1 \in 0..n)
      BY <1>1
    <3>2. CASE i = 0
      BY <1>5, <3>2 DEF Unfolds
    <3>3. CASE i # 0
      <4>1. f[i - 1] \in V
        BY <3>1, <3>3
      <4>2. f[i] = step[i][f[i - 1]]
        BY <1>5, <3>1, <3>3 DEF Unfolds
      <4>. QED BY <3>1, <3>3, <4>1, <4>2
    <3>. QED BY <3>2, <3>3
  <2>. QED BY <2>1
<1>7. at = G(at)
  <2>. HIDE DEF G
  <2>. QED BY <1>6
<1>. HIDE DEF at
<1>8. at[0] = b /\ \A i \in 1..n : at[i] = next(at[i - 1], i)
  <2>1. 0 \in 0..n /\ \A i \in 1..n : i \in 0..n /\ i # 0
    BY <1>1
  <2>. QED BY <1>7, <2>1
<1>. DEFINE S == {i \in 0..n : at[i] \in V}
<1>9. 0 \in S
  BY <1>1, <1>8
<1>10. ASSUME NEW i \in 1..n, i - 1 \in S PROVE i \in S
  <2>1. i \in 0..n /\ at[i - 1] \in V
    BY <1>1, <1>10
  <2>. QED BY <1>2, <1>8, <2>1
<1>11. 0..n \subseteq S
  <2>. HIDE DEF S
  <2>. QED BY <1>1, <1>9, <1>10, BoundedInduction
<1>. QED BY <1>3, <1>8, <1>11 DEF n, b, V, next

\* A path that goes on where another one is, and takes the same steps, is led
\* the same way.
SameSteps(path, k, other, m) == \A i \in 1..m : path[k + i] = other[i]

LEMMA WalkAgrees ==
    ASSUME NEW byName, Closed(byName), NEW s, s.name \in DOMAIN byName, NEW t, t.name \in DOMAIN byName,
           NEW path, Len(path) \in Nat, NEW other, Len(other) \in Nat,
           NEW k \in Nat, NEW m \in 0..Len(other), k + m <= Len(path), SameSteps(path, k, other, m),
           Walk(path, s, byName)[k] = t.name
    PROVE  \A i \in 0..m : Walk(path, s, byName)[k + i] = Walk(other, t, byName)[i]
<1>. DEFINE at == Walk(path, s, byName)
            on == Walk(other, t, byName)
<1>1. \A i \in 1..Len(path) : at[i] = WalkStep(path, byName, at[i - 1], i)
  BY WalkIs
<1>2. on[0] = t.name /\ \A i \in 1..Len(other) : on[i] = WalkStep(other, byName, on[i - 1], i)
  BY WalkIs
<1>. DEFINE S == {i \in 0..m : at[k + i] = on[i]}
<1>. HIDE DEF at, on
<1>3. 0 \in S
  BY <1>2 DEF at
<1>4. ASSUME NEW i \in 1..m, i - 1 \in S PROVE i \in S
  <2>1. /\ i \in 0..m /\ i \in 1..Len(other) /\ k + i \in 1..Len(path)
        /\ (k + i) - 1 = k + (i - 1) /\ path[k + i] = other[i]
    BY DEF SameSteps
  <2>2. at[(k + i) - 1] = on[i - 1]
    BY <1>4, <2>1
  <2>3. at[k + i] = WalkStep(path, byName, at[(k + i) - 1], k + i) /\ on[i] = WalkStep(other, byName, on[i - 1], i)
    BY <1>1, <1>2, <2>1
  <2>4. at[k + i] = on[i]
    BY <2>1, <2>2, <2>3 DEF WalkStep
  <2>. QED BY <2>1, <2>4
<1>. HIDE DEF S
<1>5. m \in Nat
  OBVIOUS
<1>6. 0..m \subseteq S
  BY <1>3, <1>4, <1>5, BoundedInduction
<1>. QED BY <1>6 DEF S, at, on
\* Past an unknown name there is no way back.
LEMMA WalkStays ==
    ASSUME NEW byName, Closed(byName), NEW s, s.name \in DOMAIN byName, NEW path, Len(path) \in Nat,
           Walk(path, s, byName)[Len(path)] # Null
    PROVE  \A i \in 0..Len(path) : Walk(path, s, byName)[i] \in DOMAIN byName
<1>. DEFINE n == Len(path)
            at == Walk(path, s, byName)
            S == {i \in 0..n : at[n - i] # Null}
<1>1. /\ \A i \in 0..n : at[i] \in DOMAIN byName \cup {Null}
      /\ \A i \in 1..n : at[i] = WalkStep(path, byName, at[i - 1], i)
  BY WalkIs
<1>. HIDE DEF at
<1>2. n \in Nat /\ at[n] # Null
  BY DEF at
<1>. HIDE DEF n
<1>3. 0 \in S
  BY <1>2
<1>4. ASSUME NEW i \in 1..n, i - 1 \in S PROVE i \in S
  <2>1. i \in 0..n /\ n - (i - 1) \in 1..n /\ (n - (i - 1)) - 1 = n - i
    BY <1>2
  <2>2. at[n - (i - 1)] # Null
    BY <1>4
  <2>3. at[n - (i - 1)] = WalkStep(path, byName, at[n - i], n - (i - 1))
    BY <1>1, <2>1
  <2>4. at[n - i] # Null
    BY <2>2, <2>3 DEF WalkStep
  <2>. QED BY <2>1, <2>4
<1>5. 0..n \subseteq S
  <2>. HIDE DEF S
  <2>. QED BY <1>2, <1>3, <1>4, BoundedInduction
<1>6. ASSUME NEW i \in 0..n PROVE at[i] \in DOMAIN byName
  <2>1. n - i \in 0..n /\ n - (n - i) = i
    BY <1>2
  <2>2. at[n - (n - i)] # Null
    BY <1>5, <2>1
  <2>. QED BY <1>1, <2>1, <2>2
<1>. QED BY <1>6 DEF n, at

\* The include tree stays within the models that are served.
PathsIn(include, s, byName, models) ==
  \A path \in include :
    /\ path \in Seq(STRING) /\ Len(path) > 0
    /\ \A i \in 1..Len(path) : Walk(path, s, byName)[i] \in models

LEMMA IncludedIsServed ==
    ASSUME NEW byName, Closed(byName), NEW s, s.name \in DOMAIN byName, s = byName[s.name],
           NEW include, NEW models, PathsIn(include, s, byName, models), NEW r \in Relationships(s),
           IsIncluded(include, r.name)
    PROVE  r.resource \in models
<1>. DEFINE path == <<r.name>>
            at == Walk(path, s, byName)
<1>1. path \in include /\ Len(path) = 1 /\ path[1] = r.name
  BY DEF IsIncluded
<1>2. at[1] \in models
  BY <1>1 DEF PathsIn
<1>3. at[0] = s.name /\ at[1] = WalkStep(path, byName, at[0], 1)
  <2>. HIDE DEF path
  <2>1. /\ at[0] = s.name
        /\ \A i \in 1..Len(path) : at[i] = WalkStep(path, byName, at[i - 1], i)
    <3>1. Len(path) \in Nat
      BY <1>1
    <3>. QED BY <3>1, WalkIs
  <2>2. 1 \in 1..Len(path) /\ 1 - 1 = 0
    BY <1>1
  <2>. QED BY <2>1, <2>2
<1>. HIDE DEF at, path
<1>4. r.name \in RelationshipNames(s) /\ Relationship(s, r.name) = r /\ s.name # Null
  BY RelationshipIs DEF Closed
<1>5. at[1] = r.resource
  BY <1>1, <1>3, <1>4 DEF WalkStep
<1>. QED BY <1>2, <1>5

\* The rest of a path walks from where its first step led.
LEMMA TailWalks ==
    ASSUME NEW byName, Closed(byName), NEW s, s.name \in DOMAIN byName, s = byName[s.name],
           NEW r \in Relationships(s), NEW path, path \in Seq(STRING), Len(path) > 1, Head(path) = r.name
    PROVE  \A i \in 0..Len(Tail(path)) :
             Walk(path, s, byName)[1 + i] = Walk(Tail(path), byName[r.resource], byName)[i]
<1>. DEFINE t == byName[r.resource]
            other == Tail(path)
            m == Len(other)
            at == Walk(path, s, byName)
<1>1. t.name = r.resource /\ t.name \in DOMAIN byName
  BY DEF Closed
<1>. HIDE DEF t
<1>2. /\ Len(path) \in Nat /\ other \in Seq(STRING) /\ m = Len(path) - 1 /\ m > 0 /\ m \in Nat
      /\ \A i \in 1..m : path[1 + i] = other[i]
      /\ path[1] = r.name
  OBVIOUS
<1>3. at[1] = t.name
  <2>1. at[0] = s.name /\ at[1] = WalkStep(path, byName, at[0], 1)
    <3>1. /\ at[0] = s.name
          /\ \A i \in 1..Len(path) : at[i] = WalkStep(path, byName, at[i - 1], i)
      BY <1>2, WalkIs
    <3>2. 1 \in 1..Len(path) /\ 1 - 1 = 0
      BY <1>2
    <3>. QED BY <3>1, <3>2
  <2>2. r.name \in RelationshipNames(s) /\ Relationship(s, r.name) = r /\ s.name # Null
    BY RelationshipIs DEF Closed
  <2>. HIDE DEF at
  <2>. QED BY <1>1, <1>2, <2>1, <2>2 DEF WalkStep
<1>. HIDE DEF other, m
<1>4. m \in 0..Len(other) /\ 1 + m <= Len(path) /\ SameSteps(path, 1, other, m) /\ 1 \in Nat
      /\ Len(other) \in Nat
  BY <1>2 DEF m, SameSteps
<1>5. Walk(path, s, byName)[1] = t.name
  BY <1>3
<1>. HIDE DEF at
<1>6. \A i \in 0..m : Walk(path, s, byName)[1 + i] = Walk(other, t, byName)[i]
  <2>1. Len(path) \in Nat
    BY <1>2
  <2>. QED BY <1>1, <1>4, <1>5, <2>1, WalkAgrees
<1>. QED BY <1>6 DEF m, other, t

LEMMA DeriveStaysIn ==
    ASSUME NEW byName, Closed(byName), NEW s, s.name \in DOMAIN byName, s = byName[s.name],
           NEW include, NEW models, PathsIn(include, s, byName, models), NEW r \in Relationships(s)
    PROVE  PathsIn(Derive(include, r.name), byName[r.resource], byName, models)
<1>. DEFINE t == byName[r.resource]
<1>1. ASSUME NEW path \in include, Len(path) > 1, Head(path) = r.name
      PROVE  /\ Tail(path) \in Seq(STRING) /\ Len(Tail(path)) > 0
             /\ \A i \in 1..Len(Tail(path)) : Walk(Tail(path), t, byName)[i] \in models
  <2>. DEFINE m == Len(Tail(path))
              at == Walk(path, s, byName)
  <2>1. path \in Seq(STRING) /\ \A i \in 1..Len(path) : at[i] \in models
    BY DEF PathsIn
  <2>2. Len(path) \in Nat /\ Tail(path) \in Seq(STRING) /\ m = Len(path) - 1 /\ m > 0 /\ m \in Nat
    BY <1>1, <2>1
  <2>3. \A i \in 0..m : at[1 + i] = Walk(Tail(path), t, byName)[i]
    BY <1>1, <2>1, TailWalks
  <2>. HIDE DEF m, at, t
  <2>4. ASSUME NEW i \in 1..m PROVE Walk(Tail(path), t, byName)[i] \in models
    <3>1. i \in 0..m /\ 1 + i \in 1..Len(path)
      BY <2>2
    <3>. QED BY <2>1, <2>3, <3>1
  <2>. QED BY <2>2, <2>4 DEF m
<1>. HIDE DEF t
<1>. QED BY <1>1 DEF PathsIn, Derive, t
-----------------------------------------------------------------------------
(* What the entries read so far left in the parameters. *)

AskingFor(query, i) == {j \in 1..i : query[j].key = "fields"}
PinnedBy(query, i) == {query[j].on : j \in AskingFor(query, i)}
AskedOf(query, i, m) == UNION {ToSet(query[j].values) : j \in {k \in AskingFor(query, i) : query[k].on = m}}

Complete(p) ==
  /\ DOMAIN p = {"schema", "fields", "include", "filter", "search", "sort", "page", "models", "error"}
  /\ PageIs(p.page)

\* A sort is by attributes, one after the other.
SortedBy(sort, s) ==
  /\ Len(sort) \in Nat /\ DOMAIN sort = 1..Len(sort)
  /\ \A i \in 1..Len(sort) : sort[i].attribute \in Attributes(s)

Reading(p, s, byName) ==
  /\ Complete(p)
  /\ SortedBy(p.sort, s)
  /\ s.name \in p.models /\ p.models \subseteq DOMAIN byName
  /\ PathsIn(p.include, s, byName, p.models)

FieldsRead(fields, query, byName, i) ==
  /\ DOMAIN fields = PinnedBy(query, i) /\ DOMAIN fields \subseteq DOMAIN byName
  /\ \A m \in DOMAIN fields : fields[m] = AskedOf(query, i, m) /\ fields[m] \subseteq Fields(byName[m])

LEMMA AskingStep ==
    ASSUME NEW query, NEW n \in Nat, NEW i \in 1..n
    PROVE  /\ query[i].key # "fields" =>
                /\ PinnedBy(query, i) = PinnedBy(query, i - 1)
                /\ \A m : AskedOf(query, i, m) = AskedOf(query, i - 1, m)
           /\ query[i].key = "fields" =>
                /\ PinnedBy(query, i) = PinnedBy(query, i - 1) \cup {query[i].on}
                /\ \A m : AskedOf(query, i, m) =
                     AskedOf(query, i - 1, m) \cup (IF m = query[i].on THEN ToSet(query[i].values) ELSE {})
<1>1. 1..i = 1..(i - 1) \cup {i}
  OBVIOUS
<1>2. CASE query[i].key # "fields"
  <2>1. AskingFor(query, i) = AskingFor(query, i - 1)
    BY <1>1, <1>2 DEF AskingFor
  <2>. QED BY <1>2, <2>1 DEF PinnedBy, AskedOf
<1>3. CASE query[i].key = "fields"
  <2>1. AskingFor(query, i) = AskingFor(query, i - 1) \cup {i}
    BY <1>1, <1>3 DEF AskingFor
  <2>2. PinnedBy(query, i) = PinnedBy(query, i - 1) \cup {query[i].on}
    BY <2>1 DEF PinnedBy
  <2>3. ASSUME NEW m
        PROVE  AskedOf(query, i, m) =
                 AskedOf(query, i - 1, m) \cup (IF m = query[i].on THEN ToSet(query[i].values) ELSE {})
    <3>. DEFINE before == {k \in AskingFor(query, i - 1) : query[k].on = m}
                after == {k \in AskingFor(query, i) : query[k].on = m}
    <3>1. after = before \cup (IF m = query[i].on THEN {i} ELSE {})
      BY <2>1
    <3>. DEFINE values(S) == UNION {ToSet(query[j].values) : j \in S}
    <3>2. AskedOf(query, i, m) = values(after) /\ AskedOf(query, i - 1, m) = values(before)
      BY Zenon DEF AskedOf
    <3>. HIDE DEF before, after
    <3>3. CASE m = query[i].on
      <4>1. after = before \cup {i}
        BY <3>1, <3>3
      <4>2. values(after) = values(before) \cup ToSet(query[i].values)
        BY <4>1
      <4>. QED BY <3>2, <3>3, <4>2
    <3>4. CASE m # query[i].on
      <4>1. after = before
        BY <3>1, <3>4
      <4>. QED BY <3>2, <3>4, <4>1
    <3>. QED BY <3>3, <3>4
  <2>. QED BY <1>3, <2>2, <2>3
<1>. QED BY <1>2, <1>3

LEMMA FieldsReads ==
    ASSUME NEW query, NEW s, NEW byName, NEW p, Reading(p, s, byName), NEW n \in Nat, NEW i \in 1..n,
           FieldsRead(p.fields, query, byName, i - 1), query[i].key = "fields",
           NEW q, q = ParseFields(p, query[i], byName), q.error = "none"
    PROVE  Reading(q, s, byName) /\ FieldsRead(q.fields, query, byName, i)
<1>. DEFINE e == query[i]
            more == Put(p.fields, e.on, FieldsOf(p.fields, e.on) \cup ToSet(e.values))
<1>1. e.on \in DOMAIN byName /\ ToSet(e.values) \subseteq Fields(byName[e.on])
  BY DEF ParseFields, Failing, Reading, Complete
<1>2. q = [p EXCEPT !.fields = more]
  BY <1>1 DEF ParseFields
<1>3. /\ PinnedBy(query, i) = PinnedBy(query, i - 1) \cup {e.on}
      /\ \A m : AskedOf(query, i, m) =
            AskedOf(query, i - 1, m) \cup (IF m = e.on THEN ToSet(e.values) ELSE {})
  BY AskingStep
<1>. HIDE DEF e
<1>4. DOMAIN more = DOMAIN p.fields \cup {e.on}
  BY DEF Put
<1>5. ASSUME NEW m \in DOMAIN more
      PROVE  more[m] = AskedOf(query, i, m) /\ more[m] \subseteq Fields(byName[m])
  <2>1. CASE m = e.on
    <3>1. more[m] = FieldsOf(p.fields, m) \cup ToSet(e.values)
      BY <2>1 DEF Put
    <3>2. CASE m \in DOMAIN p.fields
      <4>1. FieldsOf(p.fields, m) = AskedOf(query, i - 1, m) /\ FieldsOf(p.fields, m) \subseteq Fields(byName[m])
        BY <3>2 DEF FieldsRead, FieldsOf
      <4>. QED BY <1>1, <1>3, <2>1, <3>1, <4>1
    <3>3. CASE m \notin DOMAIN p.fields
      <4>1. FieldsOf(p.fields, m) = {} /\ m \notin PinnedBy(query, i - 1)
        BY <3>3 DEF FieldsRead, FieldsOf
      <4>2. AskedOf(query, i - 1, m) = {}
        BY <4>1 DEF AskedOf, PinnedBy
      <4>. QED BY <1>1, <1>3, <2>1, <3>1, <4>1, <4>2
    <3>. QED BY <3>2, <3>3
  <2>2. CASE m # e.on
    <3>1. m \in DOMAIN p.fields /\ more[m] = p.fields[m]
      BY <1>4, <2>2 DEF Put
    <3>2. AskedOf(query, i, m) = AskedOf(query, i - 1, m)
      BY <1>3, <2>2
    <3>. QED BY <3>1, <3>2 DEF FieldsRead
  <2>. QED BY <2>1, <2>2
<1>. HIDE DEF more
<1>6. q.fields = more /\ FieldsRead(more, query, byName, i)
  <2>1. q.fields = more
    BY <1>2 DEF Reading, Complete
  <2>. QED BY <1>1, <1>3, <1>4, <1>5, <2>1 DEF FieldsRead
<1>7. Reading(q, s, byName)
  BY <1>2 DEF Reading, Complete
<1>. QED BY <1>6, <1>7

LEMMA IncludeReads ==
    ASSUME NEW e, e.values \in Seq(Seq(STRING)), NEW byName, Closed(byName), NEW s, s.name \in DOMAIN byName,
           NEW p, Reading(p, s, byName), NEW q, q = ParseInclude(p, e, s, byName), q.error = "none"
    PROVE  Reading(q, s, byName) /\ q.fields = p.fields
<1>. DEFINE paths == ToSet(e.values)
            reached(path) == {Walk(path, s, byName)[i] : i \in 1..Len(path)}
            prefixes(path) == {SubSeq(path, 1, i) : i \in 1..Len(path)}
            include == p.include \cup UNION {prefixes(path) : path \in paths}
            models == p.models \cup UNION {reached(path) : path \in paths}
<1>1. ASSUME NEW path \in paths
      PROVE  path \in Seq(STRING) /\ Len(path) \in Nat /\ Walk(path, s, byName)[Len(path)] # Null
  <2>1. path \in Seq(STRING)
    BY DEF ToSet
  <2>2. Walk(path, s, byName)[Len(path)] # Null
    <3>. DEFINE invalid(o) == Walk(o, s, byName)[Len(o)] = Null
    <3>1. ~ \E o \in paths : invalid(o)
      <4>. HIDE DEF invalid, paths
      <4>1. Failing(p, "QueryValidationFailure").error # "none"
        BY DEF Failing, Reading, Complete
      <4>. QED BY <4>1 DEF ParseInclude, invalid, paths
    <3>. HIDE DEF paths
    <3>. QED BY <3>1
  <2>. QED BY <2>1, <2>2
<1>2. q = [p EXCEPT !.include = include, !.models = models]
  BY <1>1 DEF ParseInclude
<1>3. models \subseteq DOMAIN byName /\ s.name \in models
  <2>1. ASSUME NEW path \in paths PROVE reached(path) \subseteq DOMAIN byName
    <3>1. \A i \in 0..Len(path) : Walk(path, s, byName)[i] \in DOMAIN byName
      BY <1>1, WalkStays
    <3>. QED BY <3>1
  <2>. HIDE DEF reached, paths
  <2>. QED BY <2>1 DEF Reading, Complete
<1>4. ASSUME NEW other \in include
      PROVE  /\ other \in Seq(STRING) /\ Len(other) > 0
             /\ \A i \in 1..Len(other) : Walk(other, s, byName)[i] \in models
  <2>1. CASE other \in p.include
    BY <2>1 DEF Reading, Complete, PathsIn
  <2>2. CASE other \notin p.include
    <3>1. PICK path \in paths : other \in prefixes(path)
      <4>. HIDE DEF prefixes, paths
      <4>. QED BY <2>2
    <3>2. PICK m \in 1..Len(path) : other = SubSeq(path, 1, m)
      BY <3>1
    <3>3. path \in Seq(STRING) /\ Len(path) \in Nat
      BY <1>1
    <3>4. /\ other \in Seq(STRING) /\ Len(other) = m /\ m \in Nat /\ m > 0
          /\ \A i \in 1..m : other[i] = path[i]
      BY <3>2, <3>3
    <3>5. \A i \in 0..m : Walk(path, s, byName)[0 + i] = Walk(other, s, byName)[i]
      <4>1. SameSteps(path, 0, other, m)
        BY <3>4 DEF SameSteps
      <4>2. Walk(path, s, byName)[0] = s.name
        BY <3>3, WalkIs
      <4>3. m \in 0..Len(other) /\ 0 + m <= Len(path) /\ 0 \in Nat
        BY <3>4
      <4>4. Len(path) \in Nat /\ Len(other) \in Nat
        BY <3>3, <3>4
      <4>. HIDE DEF include, models, paths
      <4>. QED BY <4>1, <4>2, <4>3, <4>4, WalkAgrees
    <3>6. ASSUME NEW i \in 1..Len(other) PROVE Walk(other, s, byName)[i] \in models
      <4>1. i \in 0..m /\ 0 + i = i /\ i \in 1..Len(path)
        BY <3>3, <3>4
      <4>2. Walk(other, s, byName)[i] \in reached(path)
        BY <3>5, <4>1
      <4>. HIDE DEF reached, paths
      <4>. QED BY <3>1, <4>2
    <3>. QED BY <3>4, <3>6
  <2>. QED BY <2>1, <2>2
<1>. HIDE DEF include, models
<1>5. PathsIn(include, s, byName, models)
  BY <1>4 DEF PathsIn
<1>6. /\ DOMAIN q = DOMAIN p /\ q.page = p.page /\ q.include = include /\ q.models = models
      /\ q.fields = p.fields /\ q.sort = p.sort
  BY <1>2 DEF Reading, Complete
<1>. QED BY <1>3, <1>5, <1>6 DEF Reading, Complete
LEMMA PageReads ==
    ASSUME NEW e, NEW byName, NEW s, NEW p, Reading(p, s, byName), NEW q, q = ParsePage(p, e), q.error = "none"
    PROVE  Reading(q, s, byName) /\ q.fields = p.fields
<1>. DEFINE value == e.values[1]
            page == IF p.page = <<>> THEN [number |-> 1, size |-> 20] ELSE p.page
            turned == IF e.on = "number" THEN [page EXCEPT !.number = value] ELSE [page EXCEPT !.size = value]
<1>1. value \in 1..(Numbers - 1) /\ q = [p EXCEPT !.page = turned]
  <2>1. Failing(p, "ParseParameterFailure").error # "none"
    BY DEF Failing, Reading, Complete
  <2>2. q = IF value \notin 1..(Numbers - 1) \/ e.on \notin {"number", "size"}
            THEN Failing(p, "ParseParameterFailure") ELSE [p EXCEPT !.page = turned]
    BY DEF ParsePage
  <2>. HIDE DEF value, turned
  <2>. QED BY <2>1, <2>2
<1>2. value \in Nat \ {0}
  <2>. HIDE DEF value
  <2>. QED BY <1>1, NumbersAssumption
<1>3. page \in [number : Nat \ {0}, size : Nat]
  BY DEF Reading, Complete, PageIs
<1>. HIDE DEF page, value
<1>4. PageIs(turned)
  BY <1>2, <1>3 DEF PageIs
<1>. HIDE DEF turned
<1>5. /\ DOMAIN q = DOMAIN p /\ q.page = turned /\ q.include = p.include /\ q.models = p.models
      /\ q.fields = p.fields /\ q.sort = p.sort
  BY <1>1 DEF Reading, Complete
<1>. QED BY <1>4, <1>5 DEF Reading, Complete

\* A condition, a search or an order changes none of these.
AsOther(q, p, e, s) ==
  q = ParseFilter(p, e, s) \/ q = ParseSearch(p, e) \/ q = ParseSort(p, e, s)

LEMMA OthersRead ==
    ASSUME NEW e, e.values \in Seq(ToSet(e.values)), NEW byName, NEW s, NEW p, Reading(p, s, byName),
           NEW q, q.error = "none", AsOther(q, p, e, s)
    PROVE  Reading(q, s, byName) /\ q.fields = p.fields
<1>1. \A error \in {"QueryValidationFailure", "ParseParameterFailure"} : Failing(p, error).error # "none"
  BY DEF Failing, Reading, Complete
<1>2. CASE q = ParseFilter(p, e, s)
  <2>1. PICK filter : q = [p EXCEPT !.filter = filter]
    <3>. DEFINE filter == Put(p.filter, e.on, {[op |-> c.op, operand |-> {c.value}] : c \in ToSet(e.values)})
                bad(c) == \/ c.op \notin Operators
                          \/ s.attributes[e.on] = "integer" /\ c.value = 0
                some == \E c \in ToSet(e.values) : bad(c)
    <3>1. q = IF e.on \notin Attributes(s) THEN Failing(p, "QueryValidationFailure")
              ELSE IF some THEN Failing(p, "ParseParameterFailure")
              ELSE [p EXCEPT !.filter = filter]
      BY <1>2 DEF ParseFilter
    <3>. HIDE DEF filter, some
    <3>2. q = [p EXCEPT !.filter = filter]
      BY <1>1, <3>1
    <3>. QED BY <3>2
  <2>. QED BY <2>1 DEF Reading, Complete
<1>3. CASE q = ParseSearch(p, e)
  BY <1>3 DEF ParseSearch, Reading, Complete
<1>4. CASE q = ParseSort(p, e, s)
  <2>. DEFINE values == e.values
  <2>1. q = [p EXCEPT !.sort = values] /\ \A i \in DOMAIN values : values[i].attribute \in Attributes(s)
    BY <1>1, <1>4 DEF ParseSort
  <2>2. SortedBy(values, s)
    <3>1. Len(values) \in Nat /\ DOMAIN values = 1..Len(values)
      BY SequenceIs
    <3>. QED BY <2>1, <3>1 DEF SortedBy
  <2>. HIDE DEF values
  <2>3. /\ DOMAIN q = DOMAIN p /\ q.page = p.page /\ q.include = p.include /\ q.models = p.models
        /\ q.fields = p.fields /\ q.sort = values
    BY <2>1 DEF Reading, Complete
  <2>. QED BY <2>2, <2>3 DEF Reading, Complete
<1>. QED BY <1>2, <1>3, <1>4 DEF AsOther

\* What parse makes of a query it accepts.
ParsedIs(p, query, s, byName) ==
  /\ Reading(p, s, byName)
  /\ \E fields : /\ FieldsRead(fields, query, byName, Len(query))
                 /\ p.fields = DiscoverFields(fields, p.models, byName)

LEMMA ParseIs ==
    ASSUME NEW query, Split(query), NEW byName, Closed(byName), NEW s, s.name \in DOMAIN byName,
           Parse(query, s, byName).error = "none"
    PROVE  ParsedIs(Parse(query, s, byName), query, s, byName)
<1>. DEFINE n == Len(query)
            parsed == Parse(query, s, byName)
<1>1. query \in Seq(ToSet(query)) /\ n \in Nat /\ DOMAIN query = 1..n
  BY SequenceIs DEF Split
<1>2. PICK upTo :
        /\ ReadSoFar(query, s, byName, upTo)
        /\ parsed = LET read == upTo[n]
                    IN IF read.error # "none" THEN read
                       ELSE [read EXCEPT !.fields = DiscoverFields(@, read.models, byName)]
  BY <1>1, ParsingIs
<1>. DEFINE Well(i) == Reading(upTo[i], s, byName) /\ FieldsRead(upTo[i].fields, query, byName, i)
            S == {i \in 0..n : upTo[i].error = "none" => Well(i)}
<1>3. 0 \in S
  <2>1. upTo[0] = Blank(s) /\ 0 \in 0..n
    BY <1>1, <1>2 DEF ReadSoFar
  <2>2. Reading(Blank(s), s, byName)
    <3>1. SortedBy(<<>>, s)
      BY DEF SortedBy
    <3>. QED BY <3>1 DEF Blank, Reading, Complete, PageIs, PathsIn
  <2>3. FieldsRead(<<>>, query, byName, 0)
    <3>1. AskingFor(query, 0) = {}
      BY DEF AskingFor
    <3>2. PinnedBy(query, 0) = {} /\ DOMAIN <<>> = {}
      BY <3>1 DEF PinnedBy
    <3>. QED BY <3>2 DEF FieldsRead
  <2>4. Blank(s).fields = <<>>
    BY DEF Blank
  <2>. QED BY <2>1, <2>2, <2>3, <2>4
<1>4. ASSUME NEW i \in 1..n, i - 1 \in S PROVE i \in S
  <2>. DEFINE p == upTo[i - 1]
              q == upTo[i]
              e == query[i]
  <2>1. i \in 0..n /\ q = IF p.error # "none" THEN p ELSE ParseEntry(p, e, s, byName)
    BY <1>1, <1>2 DEF ReadSoFar
  <2>2. p.error = "none" => Reading(p, s, byName) /\ FieldsRead(p.fields, query, byName, i - 1)
    BY <1>4
  <2>3. (e.key = "include" => e.values \in Seq(Seq(STRING))) /\ e.values \in Seq(ToSet(e.values))
    <3>1. e \in ToSet(query)
      BY <1>1 DEF ToSet
    <3>. QED BY <3>1 DEF Split
  <2>. HIDE DEF q, p
  <2>4. ASSUME q.error = "none" PROVE Reading(q, s, byName) /\ FieldsRead(q.fields, query, byName, i)
    <3>1. /\ q = ParseEntry(p, e, s, byName) /\ Reading(p, s, byName)
          /\ FieldsRead(p.fields, query, byName, i - 1)
      BY <2>1, <2>2, <2>4
    <3>2. CASE e.key = "fields"
      <4>1. q = ParseFields(p, query[i], byName)
        BY <3>1, <3>2 DEF ParseEntry
      <4>. QED BY <1>1, <2>4, <3>1, <3>2, <4>1, FieldsReads
    <3>3. CASE e.key # "fields"
      <4>1. Reading(q, s, byName) /\ q.fields = p.fields
        <5>1. CASE e.key = "include"
          <6>1. q = ParseInclude(p, e, s, byName)
            BY <3>1, <5>1 DEF ParseEntry
          <6>. HIDE DEF e
          <6>. QED BY <2>3, <2>4, <3>1, <5>1, <6>1, IncludeReads
        <5>2. CASE e.key = "page"
          <6>1. q = ParsePage(p, e)
            BY <3>1, <5>2 DEF ParseEntry
          <6>. HIDE DEF e
          <6>. QED BY <2>4, <3>1, <6>1, PageReads
        <5>3. CASE e.key \in {"filter", "search", "sort"}
          <6>1. AsOther(q, p, e, s)
            BY <3>1, <5>3 DEF ParseEntry, AsOther
          <6>. HIDE DEF e
          <6>. QED BY <2>3, <2>4, <3>1, <6>1, OthersRead
        <5>4. CASE e.key \notin {"fields", "include", "page", "filter", "search", "sort"}
          <6>1. q = Failing(p, "ParseParameterFailure")
            BY <3>1, <5>4 DEF ParseEntry
          <6>. QED BY <2>4, <3>1, <6>1 DEF Failing, Reading, Complete
        <5>. QED BY <3>3, <5>1, <5>2, <5>3, <5>4
      <4>2. /\ PinnedBy(query, i) = PinnedBy(query, i - 1)
            /\ \A m : AskedOf(query, i, m) = AskedOf(query, i - 1, m)
        <5>. HIDE DEF S, n
        <5>1. n \in Nat /\ i \in 1..n
          BY <1>1
        <5>. QED BY <3>3, <5>1, AskingStep
      <4>. QED BY <3>1, <4>1, <4>2 DEF FieldsRead
    <3>. QED BY <3>2, <3>3
  <2>. QED BY <2>1, <2>4 DEF q
<1>5. n \in S
  <2>. HIDE DEF S, n
  <2>1. n \in Nat
    BY <1>1
  <2>2. 0..n \subseteq S
    BY <1>3, <1>4, <2>1, BoundedInduction
  <2>3. n \in 0..n
    BY <2>1
  <2>. QED BY <2>2, <2>3
<1>. DEFINE read == upTo[n]
            found == DiscoverFields(read.fields, read.models, byName)
<1>6. parsed = IF read.error # "none" THEN read ELSE [read EXCEPT !.fields = found]
  BY <1>2
<1>7. parsed.error = "none"
  OBVIOUS
<1>8. read.error = "none" => Reading(read, s, byName) /\ FieldsRead(read.fields, query, byName, n)
  BY <1>5
<1>. HIDE DEF read, found, parsed
<1>9. read.error = "none" /\ parsed = [read EXCEPT !.fields = found]
  BY <1>6, <1>7
<1>10. /\ DOMAIN parsed = DOMAIN read /\ parsed.page = read.page /\ parsed.include = read.include
       /\ parsed.models = read.models /\ parsed.fields = found /\ parsed.sort = read.sort
  BY <1>8, <1>9 DEF Reading, Complete
<1>11. Reading(parsed, s, byName)
  BY <1>8, <1>9, <1>10 DEF Reading, Complete
<1>12. parsed.fields = DiscoverFields(read.fields, parsed.models, byName)
  BY <1>10 DEF found
<1>13. FieldsRead(read.fields, query, byName, n)
  BY <1>8, <1>9
<1>. QED BY <1>11, <1>12, <1>13 DEF ParsedIs, parsed
-----------------------------------------------------------------------------
(* Creating a batch. *)

\* What create_collection can do, with the rows it stores.
Stores(setters) ==
  LET records == request.batch
      stored == Completed(Schema, db[Schema.name], RowsOf(Schema, records, setters))
      columns == ColumnsFor(Schema, parameters.fields)
  IN /\ InsertFault(Schema, RowsOf(Schema, records, setters), parameters.fields, reg, db) = "none"
     /\ stored \in Seq(ToSet(stored)) /\ Len(stored) = Len(records)
     /\ phase' = "loading" /\ UNCHANGED <<parameters, parent, reply>>
     /\ db' = [db EXCEPT ![Schema.name] = @ \cup ToSet(stored)]
     /\ StartLoading(Schema, Refreshed(Schema, records, Selected(stored, columns)), parameters)

Rejects(setters) ==
  LET fault == InsertFault(Schema, RowsOf(Schema, request.batch, setters), parameters.fields, reg, db)
  IN fault # "none" /\ Refuse(Mapped(fault))

FailsToAttach == \E i \in DOMAIN request.batch : AttachFails(Schema, request.batch[i])

LEMMA RowsAreSent ==
    ASSUME Given, NEW setters, NEW rows, rows = RowsOf(Schema, request.batch, setters)
    PROVE  rows \in Seq(ToSet(rows)) /\ Len(rows) = Len(request.batch) /\ DOMAIN request.batch = 1..Len(request.batch)
<1>. DEFINE records == request.batch
            columns(i) == Over(Attached(records[i], setters[i]), records[i].columns)
            row(i) == IF records[i].id = Null THEN columns(i)
                      ELSE Put(columns(i), Schema.key.name, records[i].id)
<1>1. Len(records) \in Nat /\ DOMAIN records = 1..Len(records)
  BY SequenceIs DEF Given
<1>2. rows = [i \in DOMAIN records |-> row(i)]
  BY DEF RowsOf
<1>. HIDE DEF row
<1>3. DOMAIN rows = 1..Len(records) /\ rows = [i \in 1..Len(records) |-> rows[i]]
  BY <1>1, <1>2
<1>. QED BY <1>1, <1>3, FunctionIsSequence

LEMMA CompletedIs ==
    ASSUME NEW s, NEW table, NEW rows, rows \in Seq(ToSet(rows)),
           NEW stored, stored = Completed(s, table, rows)
    PROVE  stored \in Seq(ToSet(stored)) /\ Len(stored) = Len(rows)
<1>1. Len(rows) \in Nat /\ DOMAIN rows = 1..Len(rows)
  OBVIOUS
<1>. DEFINE top == Max({0} \cup Taken(s, table, rows))
            at(i) == Over(rows[i], [column \in Columns(s) |-> IF column = s.key.name THEN top + i ELSE Null])
<1>2. stored = [i \in DOMAIN rows |-> at(i)]
  BY DEF Completed
<1>. HIDE DEF at
<1>3. DOMAIN stored = 1..Len(rows) /\ stored = [i \in 1..Len(rows) |-> stored[i]]
  BY <1>1, <1>2
<1>. QED BY <1>1, <1>3, FunctionIsSequence

LEMMA CreateIs ==
    ASSUME Given, CreateCollection
    PROVE  \/ FailsToAttach /\ Refuse("RelatedRecordNotFound")
           \/ \E setters \in AllSetters(Schema, request.batch) : Rejects(setters)
           \/ ~ FailsToAttach /\ \E setters \in AllSetters(Schema, request.batch) : Stores(setters)
<1>. SUFFICES ASSUME ~ FailsToAttach
              PROVE  \/ \E setters \in AllSetters(Schema, request.batch) : Rejects(setters)
                     \/ \E setters \in AllSetters(Schema, request.batch) : Stores(setters)
  BY DEF CreateCollection, FailsToAttach
<1>1. PICK setters \in AllSetters(Schema, request.batch) :
        LET written == InsertBatch(Schema, RowsOf(Schema, request.batch, setters), parameters.fields, reg, db)
        IN IF written.error # "none" THEN Refuse(Mapped(written.error))
           ELSE /\ phase' = "loading"
                /\ db' = written.db
                /\ StartLoading(Schema, Refreshed(Schema, request.batch, written.rows), parameters)
                /\ UNCHANGED <<parameters, parent, reply>>
  BY Zenon DEF CreateCollection, FailsToAttach
<1>. DEFINE rows == RowsOf(Schema, request.batch, setters)
            stored == Completed(Schema, db[Schema.name], rows)
            fault == InsertFault(Schema, rows, parameters.fields, reg, db)
            written == InsertBatch(Schema, rows, parameters.fields, reg, db)
<1>2. stored \in Seq(ToSet(stored)) /\ Len(stored) = Len(request.batch)
  <2>. DEFINE xs == rows
              table == db[Schema.name]
  <2>1. xs \in Seq(ToSet(xs)) /\ Len(xs) = Len(request.batch)
    BY RowsAreSent
  <2>. HIDE DEF xs, table
  <2>2. Completed(Schema, table, xs) \in Seq(ToSet(Completed(Schema, table, xs)))
        /\ Len(Completed(Schema, table, xs)) = Len(xs)
    BY <2>1, CompletedIs
  <2>. QED BY <2>1, <2>2 DEF xs, table
<1>3. written = IF fault # "none" THEN [error |-> fault, rows |-> <<>>, db |-> db]
                ELSE [error |-> "none", rows |-> Selected(stored, ColumnsFor(Schema, parameters.fields)),
                      db |-> [db EXCEPT ![Schema.name] = @ \cup ToSet(stored)]]
  BY DEF InsertBatch
<1>4. IF written.error # "none" THEN Refuse(Mapped(written.error))
      ELSE /\ phase' = "loading"
           /\ db' = written.db
           /\ StartLoading(Schema, Refreshed(Schema, request.batch, written.rows), parameters)
           /\ UNCHANGED <<parameters, parent, reply>>
  BY <1>1
<1>. HIDE DEF stored, fault, written, rows
<1>5. CASE fault # "none"
  <2>1. Rejects(setters)
    <3>1. written.error = fault
      BY <1>3, <1>5
    <3>. QED BY <1>4, <1>5, <3>1 DEF Rejects, fault, rows
  <2>. QED BY <2>1
<1>6. CASE fault = "none"
  <2>1. /\ written.error = "none" /\ written.rows = Selected(stored, ColumnsFor(Schema, parameters.fields))
        /\ written.db = [db EXCEPT ![Schema.name] = @ \cup ToSet(stored)]
    BY <1>3, <1>6
  <2>2. /\ phase' = "loading" /\ UNCHANGED <<parameters, parent, reply>>
        /\ db' = [db EXCEPT ![Schema.name] = @ \cup ToSet(stored)]
        /\ StartLoading(Schema, Refreshed(Schema, request.batch, Selected(stored, ColumnsFor(Schema, parameters.fields))),
                        parameters)
    BY <1>4, <2>1
  <2>3. Stores(setters)
    BY <1>2, <1>6, <2>2 DEF Stores, fault, rows, stored
  <2>. QED BY <2>3
<1>. QED BY <1>5, <1>6

LEMMA RefreshedIs ==
    ASSUME NEW s, NEW records, NEW stored, stored \in Seq(ToSet(stored)), NEW columns
    PROVE  LET xs == Refreshed(s, records, Selected(stored, columns))
           IN /\ Records(xs, s.name) /\ Len(xs) = Len(stored)
              /\ \A i \in 1..Len(stored) :
                   xs[i] = [FromRow(s, Restrict(stored[i], columns)) EXCEPT !.relationships = records[i].relationships]
<1>. DEFINE n == Len(stored)
            at(i) == [FromRow(s, Restrict(stored[i], columns)) EXCEPT !.relationships = records[i].relationships]
            xs == Refreshed(s, records, Selected(stored, columns))
<1>1. n \in Nat /\ DOMAIN stored = 1..n
  OBVIOUS
<1>2. \A i \in 1..n : IsRecord(at(i), s.name)
  BY DEF FromRow, IsRecord
<1>3. xs = [i \in 1..n |-> at(i)]
  <2>. HIDE DEF n
  <2>. QED BY <1>1 DEF Refreshed, Selected
<1>. HIDE DEF xs, n, at
<1>4. DOMAIN xs = 1..n /\ xs = [i \in 1..n |-> xs[i]] /\ \A i \in 1..n : xs[i] = at(i)
  BY <1>3
<1>5. xs \in Seq(ToSet(xs)) /\ Len(xs) = n
  BY <1>1, <1>4, FunctionIsSequence
<1>6. Records(xs, s.name)
  BY <1>2, <1>4, <1>5 DEF Records
<1>. QED BY <1>4, <1>5, <1>6 DEF xs, n, at

LEMMA ElementsAreFinite ==
    ASSUME NEW t, t \in Seq(ToSet(t))
    PROVE  IsFiniteSet(ToSet(t))
<1>1. Len(t) \in Nat /\ DOMAIN t = 1..Len(t)
  OBVIOUS
<1>2. IsFiniteSet(1..Len(t))
  BY <1>1, FS_Interval
<1>3. t \in [1..Len(t) -> ToSet(t)] /\ \A x \in ToSet(t) : \E i \in 1..Len(t) : t[i] = x
  BY <1>1 DEF ToSet
<1>4. t \in Surjection(1..Len(t), ToSet(t))
  BY <1>3 DEF Surjection
<1>. QED BY <1>2, <1>4, FS_Surjection

-----------------------------------------------------------------------------
(* Types. *)

IsFrame(f) ==
  /\ DOMAIN f = {"schema", "include", "records", "pending"}
  /\ f.schema \in DOMAIN reg
  /\ Records(f.records, f.schema)
  /\ f.pending \in Seq(Relationships(reg[f.schema]))

Frames(fs) == fs \in Seq(ToSet(fs)) /\ \A i \in 1..Len(fs) : IsFrame(fs[i])

TypeInv ==
  /\ Given /\ Stored
  /\ phase \in {"declared", "parent", "loading parent", "parsing", "querying", "loading", "done"}
  /\ phase \notin {"declared", "done"} => Consistent(schemas)
  /\ Frames(stack)
  /\ Keyed(cache) /\ included \subseteq DOMAIN cache
  /\ (Loading <=> (stack # <<>> /\ phase # "done"))
  /\ phase \in {"loading parent", "querying", "loading"} => Complete(parameters)
  /\ reply.error # "none" => reply = [Unanswered EXCEPT !.error = reply.error]

LEMMA TypeInvImpliesTypeOK == TypeInv => TypeOK
<1>. SUFFICES ASSUME TypeInv PROVE TypeOK
  OBVIOUS
<1>1. \A i \in DOMAIN stack :
        /\ stack[i].schema \in DOMAIN reg
        /\ \A j \in DOMAIN stack[i].records : stack[i].records[j].kind = stack[i].schema
  <2>1. ASSUME NEW i \in DOMAIN stack
        PROVE  /\ stack[i].schema \in DOMAIN reg
               /\ \A j \in DOMAIN stack[i].records : stack[i].records[j].kind = stack[i].schema
    <3>1. i \in 1..Len(stack)
      BY SequenceIs DEF TypeInv, Frames
    <3>2. IsFrame(stack[i])
      BY <3>1 DEF TypeInv, Frames
    <3>. DEFINE f == stack[i]
    <3>. HIDE DEF f
    <3>3. f.schema \in DOMAIN reg /\ Records(f.records, f.schema)
      BY <3>2 DEF IsFrame, f
    <3>4. DOMAIN f.records = 1..Len(f.records)
      BY <3>3 DEF Records
    <3>. QED BY <3>3, <3>4 DEF Records, IsRecord, f
  <2>. QED BY <2>1
<1>2. \A key \in DOMAIN cache : Identifier(cache[key]) = key
  BY DEF TypeInv, Keyed
<1>. QED BY <1>1, <1>2 DEF TypeInv, TypeOK
LEMMA TypeInit == Init => TypeInv
<1>. SUFFICES ASSUME Init PROVE TypeInv
  OBVIOUS
<1>1. Given /\ Stored
  BY InitGiven
<1>2. /\ phase = "declared" /\ stack = <<>> /\ cache = <<>> /\ included = {} /\ reply = Unanswered
  BY Zenon DEF Init
<1>3. Frames(stack)
  BY <1>2 DEF Frames, ToSet
<1>4. Keyed(cache)
  BY <1>2 DEF Keyed
<1>. QED BY <1>1, <1>2, <1>3, <1>4 DEF TypeInv, Loading, Unanswered

\* What is declared and asked stays.
LEMMA GivenStays == ASSUME Given, UNCHANGED input PROVE Given'
BY DEF Given, input

LEMMA StoredStays == ASSUME Stored, UNCHANGED input, UNCHANGED db PROVE Stored'
BY DEF Stored, input

LEMMA FramesStay == ASSUME Frames(stack), UNCHANGED input, UNCHANGED stack PROVE Frames(stack)'
<1>1. reg' = reg
  BY DEF reg, input
<1>. QED BY <1>1 DEF Frames, IsFrame

LEMMA RefuseTypes ==
    ASSUME TypeInv, UNCHANGED input, NEW error, Refuse(error)
    PROVE  TypeInv'
<1>1. Given' /\ Stored' /\ Frames(stack)'
  BY GivenStays, StoredStays, FramesStay DEF TypeInv, Refuse, loader
<1>2. phase' = "done" /\ reply' = [Unanswered EXCEPT !.error = error] /\ UNCHANGED <<stack, cache, included>>
  BY DEF Refuse, loader
<1>3. reply'.error # "none" => reply' = [Unanswered EXCEPT !.error = reply'.error]
  BY <1>2 DEF Unanswered
<1>. QED BY <1>1, <1>2, <1>3 DEF TypeInv, Loading, Keyed

\* The model of the primary data, and the relationship it is reached by.
LEMMA TargetsAre ==
    ASSUME Given, Consistent(schemas)
    PROVE  /\ Schema.name \in DOMAIN reg /\ reg[Schema.name] = Schema /\ Schema \in ToSet(schemas)
           /\ Target.name \in DOMAIN reg /\ reg[Target.name] = Target /\ Target \in ToSet(schemas)
           /\ request.kind \in {"related", "linkage"} => Descriptor \in Relationships(Schema)
<1>1. Closed(reg) /\ Registered(reg, schemas)
  BY RegistryIsClosed
<1>2. PICK s \in ToSet(schemas) :
        /\ s.name = request.resource
        /\ request.kind \in {"related", "linkage"} => request.relationship \in RelationshipNames(s)
  BY DEF Given, Mounted
<1>3. Schema = s /\ s.name \in DOMAIN reg
  BY <1>1, <1>2 DEF Registered, Schema
<1>4. request.kind \in {"related", "linkage"} => Descriptor \in Relationships(Schema)
  BY <1>2, <1>3, RelationshipIs DEF Given, Descriptor
<1>5. Target.name \in DOMAIN reg /\ reg[Target.name] = Target /\ Target \in ToSet(schemas)
  <2>1. CASE request.kind \in {"related", "linkage"}
    <3>1. Descriptor.resource \in DOMAIN reg
      BY <1>1, <1>3, <1>4, <2>1 DEF Closed, Registered
    <3>. QED BY <1>1, <2>1, <3>1 DEF Closed, Registered, Target
  <2>2. CASE request.kind \notin {"related", "linkage"}
    BY <1>1, <1>2, <1>3, <2>2 DEF Registered, Target
  <2>. QED BY <2>1, <2>2
<1>. QED BY <1>1, <1>2, <1>3, <1>4, <1>5 DEF Registered

\* The loader starts on records of the model they were read for.
LEMMA StartTypes ==
    ASSUME Given, Consistent(schemas), NEW s, s.name \in DOMAIN reg, reg[s.name] = s,
           NEW records, Records(records, s.name), NEW p, StartLoading(s, records, p), UNCHANGED input
    PROVE  Frames(stack)' /\ stack' # <<>> /\ Len(stack') = 1 /\ Keyed(cache)' /\ included' = {}
<1>. DEFINE first == Frame(s, records, p.fields, p.include)
            f == IF records = <<>> THEN [first EXCEPT !.pending = <<>>] ELSE first
<1>1. stack' = <<f>> /\ cache' = <<>> /\ included' = {}
  BY DEF StartLoading
<1>2. reg' = reg
  BY DEF reg, input
<1>3. Declarable(s)
  BY RegistryIsClosed DEF Closed
<1>4. RelationshipsToLoad(s, p.fields, p.include) \in Seq(Relationships(s))
  BY <1>3, ToLoadIs
<1>5. IsFrame(f)
  <2>. DEFINE ToLoad == RelationshipsToLoad(s, p.fields, p.include)
  <2>1. first = [schema |-> s.name, include |-> p.include, records |-> records, pending |-> ToLoad]
    BY DEF Frame
  <2>4. ToLoad \in Seq(Relationships(s)) /\ <<>> \in Seq(Relationships(s))
    BY <1>4
  <2>. HIDE DEF first, ToLoad
  <2>2. /\ DOMAIN f = {"schema", "include", "records", "pending"} /\ f.schema = s.name /\ f.records = records
        /\ f.pending \in {<<>>, ToLoad}
    BY <2>1
  <2>. HIDE DEF f
  <2>3. f.pending \in Seq(Relationships(s))
    BY <2>2, <2>4
  <2>. QED BY <2>2, <2>3 DEF IsFrame
<1>. HIDE DEF f
<1>6. Frames(<<f>>)
  <2>1. <<f>> \in Seq({f}) /\ Len(<<f>>) = 1 /\ <<f>>[1] = f
    OBVIOUS
  <2>2. <<f>> \in Seq(ToSet(<<f>>))
    BY <2>1, ItsOwnElements
  <2>. QED BY <1>5, <2>1, <2>2 DEF Frames
<1>7. Frames(stack)'
  BY <1>1, <1>2, <1>6 DEF Frames, IsFrame
<1>. QED BY <1>1, <1>7 DEF Keyed

LEMMA LoadAnswerTypes ==
    ASSUME TypeInv, Consistent(schemas), UNCHANGED input,
           NEW s, s.name \in DOMAIN reg, reg[s.name] = s, NEW answer, NEW p, NEW next,
           AnswerIs(s, answer, p.fields), Complete(p), next \in {"loading", "loading parent"},
           LoadAnswer(s, answer, p, next)
    PROVE  TypeInv'
<1>1. CASE answer.error # "none"
  BY <1>1, RefuseTypes DEF LoadAnswer
<1>2. CASE answer.error = "none"
  <2>1. PICK rows : rows \in Seq(ToSet(rows)) /\ answer.rows = Selected(rows, ColumnsFor(s, p.fields))
    BY <1>2 DEF AnswerIs
  <2>2. /\ phase' = next /\ parameters' = p /\ StartLoading(s, Reads(s, rows, p.fields), p)
        /\ UNCHANGED <<db, parent, reply>>
    BY <1>2, <2>1 DEF LoadAnswer, Reads
  <2>3. Records(Reads(s, rows, p.fields), s.name)
    BY <2>1, ReadsAre
  <2>4. Frames(stack)' /\ stack' # <<>> /\ Keyed(cache)' /\ included' = {}
    BY <2>2, <2>3, StartTypes DEF TypeInv
  <2>5. Given' /\ Stored' /\ Consistent(schemas)'
    BY <2>2, GivenStays, StoredStays DEF TypeInv, input
  <2>. QED BY <2>2, <2>4, <2>5 DEF TypeInv, Loading
<1>. QED BY <1>1, <1>2

LEMMA TryBuildTypes == ASSUME TypeInv, TryBuild PROVE TypeInv'
<1>1. UNCHANGED input /\ phase = "declared"
  BY DEF TryBuild
<1>2. CASE ~ Consistent(schemas)
  BY <1>1, <1>2, RefuseTypes DEF TryBuild
<1>3. CASE Consistent(schemas)
  <2>1. phase' \in {"parent", "parsing"} /\ UNCHANGED <<db, parameters, loader, parent, reply>>
    BY <1>3 DEF TryBuild
  <2>2. Given' /\ Stored' /\ Frames(stack)' /\ Consistent(schemas)'
    BY <1>1, <1>3, <2>1, GivenStays, StoredStays, FramesStay DEF TypeInv, loader, input
  <2>. QED BY <1>1, <2>1, <2>2 DEF TypeInv, Loading, Keyed, loader
<1>. QED BY <1>2, <1>3

LEMMA FetchParentTypes == ASSUME TypeInv, FetchParent PROVE TypeInv'
<1>. DEFINE p == IF request.kind = "linkage" THEN New(Schema, reg)
                 ELSE Asking(Schema, reg, Put(<<>>, Schema.name, {Descriptor.own}))
            answer == Find(Schema, request.id, p.fields, db[Schema.name])
<1>1. /\ UNCHANGED input /\ Consistent(schemas) /\ Given
      /\ LoadAnswer(Schema, answer, p, "loading parent")
  BY DEF FetchParent, TypeInv
<1>2. Schema.name \in DOMAIN reg /\ reg[Schema.name] = Schema
  BY <1>1, TargetsAre
<1>3. Complete(p)
  BY DEF New, Asking, Blank, Complete, PageIs
<1>. HIDE DEF p
<1>4. AnswerIs(Schema, answer, p.fields)
  BY FindIs
<1>. HIDE DEF answer
<1>. QED BY <1>1, <1>2, <1>3, <1>4, LoadAnswerTypes

LEMMA ParseQueryTypes == ASSUME TypeInv, ParseQuery PROVE TypeInv'
<1>. DEFINE p == Parse(request.query, Target, reg)
<1>1. UNCHANGED input /\ phase = "parsing" /\ Consistent(schemas) /\ Given
  BY DEF ParseQuery, TypeInv
<1>2. CASE p.error # "none"
  BY <1>1, <1>2, RefuseTypes DEF ParseQuery
<1>3. CASE p.error = "none"
  <2>1. phase' = "querying" /\ parameters' = p /\ UNCHANGED <<db, loader, parent, reply>>
    BY <1>3 DEF ParseQuery
  <2>2. Complete(p)
    <3>1. Closed(reg) /\ Target.name \in DOMAIN reg /\ Split(request.query)
      BY <1>1, RegistryIsClosed, TargetsAre DEF Given
    <3>2. ParsedIs(p, request.query, Target, reg)
      BY <1>3, <3>1, ParseIs
    <3>. HIDE DEF p
    <3>. QED BY <3>2 DEF ParsedIs, Reading
  <2>3. Given' /\ Stored' /\ Frames(stack)' /\ Consistent(schemas)'
    BY <1>1, <2>1, GivenStays, StoredStays, FramesStay DEF TypeInv, loader, input
  <2>. HIDE DEF p
  <2>. QED BY <1>1, <2>1, <2>2, <2>3 DEF TypeInv, Loading, Keyed, loader
<1>. QED BY <1>2, <1>3
\* fetch_related_*, as its query is run.
FetchedBy(p, way) ==
  LET value == Owned(Schema, parent, Descriptor.own)
      scoped == Scoped(p, Descriptor.related, value)
  IN IF ~ Has(Schema, parent, Descriptor.own) THEN Refuse("UnloadedAttributeAccess")
     ELSE IF value = Null
     THEN /\ Respond(<<>>, {})
          /\ UNCHANGED <<db, parameters, loader, parent>>
     ELSE LoadAnswer(Target, Query(Target, scoped, db[Target.name], way), scoped, "loading")

LEMMA FetchedIs ==
    ASSUME NEW p, FetchRelated(p)
    PROVE  \E way : FetchedBy(p, way)
BY Zenon DEF FetchRelated, FetchedBy

\* The relationships' rows, when their key is known.
LEMMA FetchRelatedTypes ==
    ASSUME TypeInv, UNCHANGED input, Consistent(schemas), NEW p, Complete(p), NEW way,
           phase = "querying", FetchedBy(p, way)
    PROVE  TypeInv'
<1>. DEFINE value == Owned(Schema, parent, Descriptor.own)
            scoped == Scoped(p, Descriptor.related, value)
            answer == Query(Target, scoped, db[Target.name], way)
<1>1. CASE ~ Has(Schema, parent, Descriptor.own)
  BY <1>1, RefuseTypes DEF FetchedBy
<1>2. CASE Has(Schema, parent, Descriptor.own)
  <2>1. CASE value = Null
    <3>1. Respond(<<>>, {}) /\ UNCHANGED <<db, parameters, loader, parent>>
      BY <1>2, <2>1 DEF FetchedBy
    <3>2. Given' /\ Stored' /\ Frames(stack)'
      BY <3>1, GivenStays, StoredStays, FramesStay DEF TypeInv, loader
    <3>. QED BY <3>1, <3>2 DEF TypeInv, Respond, Document, Loading, Keyed, loader
  <2>2. CASE value # Null
    <3>1. LoadAnswer(Target, answer, scoped, "loading")
      BY <1>2, <2>2 DEF FetchedBy
    <3>2. Complete(scoped)
      BY DEF Scoped, Complete
    <3>3. Target.name \in DOMAIN reg /\ reg[Target.name] = Target /\ Target \in ToSet(schemas)
      BY TargetsAre DEF TypeInv
    <3>. HIDE DEF scoped
    <3>4. AnswerIs(Target, answer, scoped.fields)
      <4>1. IsFiniteSet(db[Target.name])
        BY <3>3 DEF TypeInv, Stored
      <4>. QED BY <3>2, <4>1, QueryIs DEF Complete
    <3>. HIDE DEF answer
    <3>. QED BY <3>1, <3>2, <3>3, <3>4, LoadAnswerTypes
  <2>. QED BY <2>1, <2>2
<1>. QED BY <1>1, <1>2

LEMMA CreateTypes ==
    ASSUME TypeInv, UNCHANGED input, phase = "querying", CreateCollection
    PROVE  TypeInv'
<1>. DEFINE records == request.batch
<1>1. Consistent(schemas) /\ Given
  BY DEF TypeInv
<1>2. ASSUME NEW error, Refuse(error) PROVE TypeInv'
  BY <1>2, RefuseTypes
<1>3. ASSUME NEW setters, Stores(setters) PROVE TypeInv'
  <2>1. PICK stored :
          /\ stored \in Seq(ToSet(stored))
          /\ phase' = "loading" /\ UNCHANGED <<parameters, parent, reply>>
          /\ db' = [db EXCEPT ![Schema.name] = @ \cup ToSet(stored)]
          /\ StartLoading(Schema, Refreshed(Schema, records, Selected(stored, ColumnsFor(Schema, parameters.fields))),
                          parameters)
    BY <1>3 DEF Stores
  <2>. DEFINE xs == Refreshed(Schema, records, Selected(stored, ColumnsFor(Schema, parameters.fields)))
  <2>2. Records(xs, Schema.name)
    BY <2>1, RefreshedIs
  <2>3. Schema.name \in DOMAIN reg /\ reg[Schema.name] = Schema /\ Schema \in ToSet(schemas)
    BY <1>1, TargetsAre
  <2>4. StartLoading(Schema, xs, parameters)
    BY <2>1
  <2>. HIDE DEF xs
  <2>5. Frames(stack)' /\ stack' # <<>> /\ Keyed(cache)' /\ included' = {}
    BY <1>1, <2>2, <2>3, <2>4, StartTypes
  <2>6. Stored'
    <3>1. ASSUME NEW s \in ToSet(schemas) PROVE s.name \in DOMAIN db' /\ IsFiniteSet(db'[s.name])
      <4>1. s.name \in DOMAIN db /\ IsFiniteSet(db[s.name])
        BY <1>1 DEF TypeInv, Stored
      <4>2. CASE s.name = Schema.name
        <5>1. db'[s.name] = db[s.name] \cup ToSet(stored) /\ s.name \in DOMAIN db'
          BY <2>1, <4>1, <4>2
        <5>2. IsFiniteSet(ToSet(stored))
          BY <2>1, ElementsAreFinite
        <5>. QED BY <4>1, <5>1, <5>2, FS_Union
      <4>3. CASE s.name # Schema.name
        BY <2>1, <4>1, <4>3
      <4>. QED BY <4>2, <4>3
    <3>. QED BY <3>1 DEF Stored, input
  <2>7. Given' /\ Consistent(schemas)'
    BY <1>1, GivenStays DEF input
  <2>. QED BY <2>1, <2>5, <2>6, <2>7 DEF TypeInv, Loading
<1>. QED BY <1>1, <1>2, <1>3, CreateIs DEF Rejects

LEMMA FetchTypes == ASSUME TypeInv, Fetch PROVE TypeInv'
<1>1. UNCHANGED input /\ phase = "querying" /\ Consistent(schemas) /\ Given /\ Complete(parameters)
  BY DEF Fetch, TypeInv
<1>2. Schema.name \in DOMAIN reg /\ reg[Schema.name] = Schema /\ IsFiniteSet(db[Schema.name])
  BY <1>1, TargetsAre DEF TypeInv, Stored
<1>3. CASE FetchCollection
  <2>1. PICK way \in Ways(Schema, parameters, db[Schema.name]) :
          LoadAnswer(Schema, Query(Schema, parameters, db[Schema.name], way), parameters, "loading")
    BY <1>3 DEF FetchCollection
  <2>. DEFINE answer == Query(Schema, parameters, db[Schema.name], way)
  <2>2. AnswerIs(Schema, answer, parameters.fields)
    BY <1>1, <1>2, QueryIs DEF Complete
  <2>. HIDE DEF answer
  <2>. QED BY <1>1, <1>2, <2>1, <2>2, LoadAnswerTypes DEF answer
<1>4. CASE FetchRecord
  <2>. DEFINE answer == Find(Schema, request.id, parameters.fields, db[Schema.name])
  <2>1. LoadAnswer(Schema, answer, parameters, "loading")
    BY <1>4 DEF FetchRecord
  <2>2. AnswerIs(Schema, answer, parameters.fields)
    BY FindIs
  <2>. HIDE DEF answer
  <2>. QED BY <1>1, <1>2, <2>1, <2>2, LoadAnswerTypes
<1>5. CASE FetchRelatedRecords
  BY <1>1, <1>5, FetchedIs, FetchRelatedTypes DEF FetchRelatedRecords
<1>6. CASE PeekRelated
  <2>. DEFINE p == Asking(Target, reg, Put(<<>>, Target.name, {}))
  <2>1. Complete(p)
    BY DEF Asking, New, Blank, Complete, PageIs
  <2>2. FetchRelated(p)
    BY <1>6 DEF PeekRelated
  <2>. HIDE DEF p
  <2>. QED BY <1>1, <2>1, <2>2, FetchedIs, FetchRelatedTypes
<1>7. CASE CreateCollection
  BY <1>1, <1>7, CreateTypes
<1>. QED BY <1>3, <1>4, <1>5, <1>6, <1>7 DEF Fetch
\* The frame on top, and the stack without it or with another in its place.
LEMMA TopIs ==
    ASSUME TypeInv, Loading
    PROVE  /\ IsFrame(Top) /\ Len(stack) \in Nat /\ Len(stack) > 0
           /\ Consistent(schemas) /\ Closed(reg) /\ Registered(reg, schemas)
<1>1. stack # <<>> /\ stack \in Seq(ToSet(stack)) /\ \A i \in 1..Len(stack) : IsFrame(stack[i])
  BY DEF TypeInv, Frames, Loading
<1>2. Len(stack) \in Nat /\ Len(stack) > 0
  BY <1>1, TailIs, SequenceIs
<1>3. Len(stack) \in 1..Len(stack)
  BY <1>2
<1>4. Consistent(schemas) /\ Given
  BY DEF TypeInv, Loading
<1>. QED BY <1>1, <1>2, <1>3, <1>4, RegistryIsClosed DEF Top

LEMMA FramesReplaced ==
    ASSUME NEW fs, Frames(fs), NEW k \in 1..Len(fs), NEW f, IsFrame(f)
    PROVE  /\ Frames([fs EXCEPT ![k] = f]) /\ Len([fs EXCEPT ![k] = f]) = Len(fs)
           /\ [fs EXCEPT ![k] = f][k] = f
           /\ \A i \in 1..Len(fs) : i # k => [fs EXCEPT ![k] = f][i] = fs[i]
<1>. DEFINE t == [fs EXCEPT ![k] = f]
<1>1. /\ t \in Seq(ToSet(t)) /\ Len(t) = Len(fs) /\ t[k] = f
      /\ \A i \in 1..Len(fs) : i # k => t[i] = fs[i]
  BY ExceptIs DEF Frames
<1>. HIDE DEF t
<1>2. Frames(t)
  BY <1>1 DEF Frames
<1>. QED BY <1>1, <1>2 DEF t

LEMMA FramesAppended ==
    ASSUME NEW fs, Frames(fs), NEW f, IsFrame(f)
    PROVE  Frames(Append(fs, f)) /\ Len(Append(fs, f)) = Len(fs) + 1
<1>. DEFINE t == Append(fs, f)
<1>1. /\ t \in Seq(ToSet(t)) /\ Len(t) = Len(fs) + 1 /\ t[Len(fs) + 1] = f /\ Len(fs) \in Nat
      /\ \A i \in 1..Len(fs) : t[i] = fs[i]
  BY AppendIs, SequenceIs DEF Frames
<1>. HIDE DEF t
<1>2. \A i \in 1..Len(t) : i = Len(fs) + 1 \/ i \in 1..Len(fs)
  BY <1>1
<1>3. Frames(t)
  BY <1>1, <1>2 DEF Frames
<1>. QED BY <1>1, <1>3 DEF t

\* What a step of the loader makes of the collection on top.
LEMMA LoadedTypes ==
    ASSUME TypeInv, Loading, Top.pending # <<>>,
           NEW loaded,
           LoadedFrom(loaded, reg[Top.schema], reg[Head(Top.pending).resource], Head(Top.pending),
                      Top.records, parameters.fields),
           loaded.error = "none"
    PROVE  /\ Head(Top.pending) \in Relationships(reg[Top.schema])
           /\ IsFrame([Top EXCEPT !.records = loaded.records, !.pending = Tail(@)])
           /\ Records(loaded.related, Head(Top.pending).resource)
<1>. DEFINE s == reg[Top.schema]
            r == Head(Top.pending)
            target == reg[r.resource]
            here == [Top EXCEPT !.records = loaded.records, !.pending = Tail(@)]
<1>1. IsFrame(Top) /\ Closed(reg)
  BY TopIs
<1>2. r \in Relationships(s) /\ Tail(Top.pending) \in Seq(Relationships(s))
  <2>1. Top.pending \in Seq(Relationships(s))
    BY <1>1 DEF IsFrame
  <2>. QED BY <2>1, HeadTailProperties
<1>3. Top.schema \in DOMAIN reg /\ s.name = Top.schema /\ r.resource \in DOMAIN reg /\ target.name = r.resource
  BY <1>1, <1>2 DEF IsFrame, Closed
<1>4. Records(loaded.records, Top.schema)
  <2>1. Records(Top.records, Top.schema)
    BY <1>1 DEF IsFrame
  <2>2. CASE ~ IsRequested(parameters.fields, s.name, r.name)
    BY <2>1, <2>2 DEF LoadedFrom
  <2>3. CASE IsRequested(parameters.fields, s.name, r.name)
    <3>1. PICK ids : loaded.records = Linked(Top.records, r, ids)
      BY <2>3 DEF LoadedFrom
    <3>. HIDE DEF r
    <3>. QED BY <2>1, <3>1, LinkedIs
  <2>. QED BY <2>2, <2>3
<1>5. Records(loaded.related, r.resource)
  <2>1. CollectionIs(target, loaded.related, parameters.fields)
    BY DEF LoadedFrom
  <2>2. CASE loaded.related = <<>>
    BY <2>2 DEF Records, ToSet
  <2>3. CASE loaded.related # <<>>
    <3>1. PICK rows : rows \in Seq(ToSet(rows)) /\ loaded.related = Reads(target, rows, parameters.fields)
      BY <2>1, <2>3 DEF CollectionIs
    <3>. HIDE DEF target, r
    <3>2. Records(Reads(target, rows, parameters.fields), target.name)
      BY <3>1, ReadsAre
    <3>. QED BY <1>3, <3>1, <3>2
  <2>. QED BY <2>2, <2>3
<1>6. IsFrame(here)
  <2>1. /\ DOMAIN here = {"schema", "include", "records", "pending"} /\ here.schema = Top.schema
        /\ here.records = loaded.records /\ here.pending = Tail(Top.pending)
    BY <1>1 DEF IsFrame
  <2>. HIDE DEF here
  <2>. QED BY <1>2, <1>3, <1>4, <2>1 DEF IsFrame
<1>. QED BY <1>2, <1>5, <1>6

LEMMA LoadRelationshipTypes == ASSUME TypeInv, LoadRelationship PROVE TypeInv'
<1>. DEFINE s == reg[Top.schema]
            r == Head(Top.pending)
            target == reg[r.resource]
            recurse == IsIncluded(Top.include, r.name)
            loaded == LoadRelated(s, target, r, Top.records, parameters.fields, recurse, db[target.name])
            here == [Top EXCEPT !.records = loaded.records, !.pending = Tail(@)]
            below == Frame(target, loaded.related, parameters.fields, Derive(Top.include, r.name))
            conflict == MergeConflicts(cache, loaded.related)
<1>1. /\ Loading /\ Top.pending # <<>> /\ UNCHANGED input
      /\ IF loaded.error # "none" THEN Refuse(loaded.error)
         ELSE IF recurse
         THEN /\ stack' = Append([stack EXCEPT ![Len(stack)] = here], below)
              /\ UNCHANGED <<db, phase, parameters, cache, included, parent, reply>>
         ELSE IF conflict THEN Refuse("DataLoadingError")
         ELSE /\ cache' = MergeAll(cache, loaded.related)
              /\ stack' = [stack EXCEPT ![Len(stack)] = here]
              /\ UNCHANGED <<db, phase, parameters, included, parent, reply>>
  BY DEF LoadRelationship, Keep
<1>2. /\ IsFrame(Top) /\ Len(stack) \in Nat /\ Len(stack) > 0
      /\ Consistent(schemas) /\ Closed(reg) /\ Registered(reg, schemas)
  BY <1>1, TopIs
<1>3. r \in Relationships(s) /\ r.resource \in DOMAIN reg /\ target.name = r.resource /\ reg[target.name] = target
  <2>1. Top.pending \in Seq(Relationships(s))
    BY <1>2 DEF IsFrame
  <2>2. r \in Relationships(s)
    BY <1>1, <2>1, HeadTailProperties
  <2>. QED BY <1>2, <2>2 DEF IsFrame, Closed
<1>4. LoadedFrom(loaded, s, target, r, Top.records, parameters.fields)
  <2>1. IsFiniteSet(db[target.name])
    BY <1>2, <1>3 DEF TypeInv, Stored, Registered
  <2>. HIDE DEF recurse, s, r, target
  <2>. QED BY <2>1, LoadRelatedIs
<1>. HIDE DEF loaded, conflict
<1>5. CASE loaded.error # "none"
  BY <1>1, <1>5, RefuseTypes
<1>6. CASE loaded.error = "none"
  <2>1. IsFrame(here) /\ Records(loaded.related, target.name)
    BY <1>1, <1>3, <1>4, <1>6, LoadedTypes
  <2>. HIDE DEF here, recurse
  <2>2. /\ Frames([stack EXCEPT ![Len(stack)] = here]) /\ Len([stack EXCEPT ![Len(stack)] = here]) = Len(stack)
    <3>1. Len(stack) \in 1..Len(stack)
      BY <1>2
    <3>2. Frames(stack)
      BY DEF TypeInv
    <3>. QED BY <2>1, <3>1, <3>2, FramesReplaced
  <2>3. reg' = reg
    BY <1>1 DEF reg, input
  <2>4. CASE recurse
    <3>1. /\ stack' = Append([stack EXCEPT ![Len(stack)] = here], below)
          /\ UNCHANGED <<db, phase, parameters, cache, included, parent, reply>>
      BY <1>1, <1>6, <2>4
    <3>2. IsFrame(below)
      <4>. DEFINE ToLoad == RelationshipsToLoad(target, parameters.fields, Derive(Top.include, r.name))
      <4>1. ToLoad \in Seq(Relationships(target))
        BY <1>2, <1>3, ToLoadIs DEF Closed
      <4>2. below = [schema |-> target.name, include |-> Derive(Top.include, r.name),
                     records |-> loaded.related, pending |-> ToLoad]
        BY DEF Frame
      <4>. HIDE DEF ToLoad, target, r
      <4>. QED BY <1>3, <2>1, <4>1, <4>2 DEF IsFrame
    <3>. HIDE DEF below
    <3>3. Frames(stack') /\ Len(stack') = Len(stack) + 1
      BY <2>2, <3>1, <3>2, FramesAppended
    <3>4. Frames(stack)' /\ stack' # <<>> /\ stack # <<>>
      BY <1>2, <2>3, <3>3 DEF Frames, IsFrame
    <3>5. Given' /\ Stored' /\ Consistent(schemas)'
      BY <1>1, <1>2, <3>1, GivenStays, StoredStays DEF TypeInv, input
    <3>. QED BY <3>1, <3>4, <3>5 DEF TypeInv, Loading, Keyed
  <2>5. CASE ~ recurse
    <3>1. CASE conflict
      BY <1>1, <1>6, <2>5, <3>1, RefuseTypes
    <3>2. CASE ~ conflict
      <4>1. /\ cache' = MergeAll(cache, loaded.related)
            /\ stack' = [stack EXCEPT ![Len(stack)] = here]
            /\ UNCHANGED <<db, phase, parameters, included, parent, reply>>
        BY <1>1, <1>6, <2>5, <3>2
      <4>2. Keyed(cache') /\ DOMAIN cache' = DOMAIN cache \cup Identifiers(loaded.related)
        BY <2>1, <4>1, MergeAllIs DEF TypeInv
      <4>3. Frames(stack)' /\ stack' # <<>> /\ stack # <<>> /\ Keyed(cache)'
        <5>1. Frames(stack') /\ Len(stack') = Len(stack)
          BY <2>2, <4>1
        <5>2. stack' # <<>> /\ stack # <<>>
          BY <1>2, <5>1
        <5>3. Frames(stack)'
          BY <2>3, <5>1 DEF Frames, IsFrame
        <5>. QED BY <4>2, <5>2, <5>3 DEF Keyed
      <4>4. Given' /\ Stored' /\ Consistent(schemas)'
        BY <1>1, <1>2, <4>1, GivenStays, StoredStays DEF TypeInv, input
      <4>. QED BY <4>1, <4>2, <4>3, <4>4 DEF TypeInv, Loading
    <3>. QED BY <3>1, <3>2
  <2>. QED BY <2>4, <2>5
<1>. QED BY <1>5, <1>6

LEMMA ReturnTypes == ASSUME TypeInv, Return PROVE TypeInv'
<1>1. Loading /\ Len(stack) > 1 /\ UNCHANGED input
  BY DEF Return
<1>2. IsFrame(Top) /\ Len(stack) \in Nat /\ Consistent(schemas)
  BY <1>1, TopIs
<1>3. CASE MergeConflicts(cache, Top.records)
  BY <1>1, <1>3, RefuseTypes DEF Return
<1>4. CASE ~ MergeConflicts(cache, Top.records)
  <2>1. /\ cache' = MergeAll(cache, Top.records)
        /\ included' = included \cup Identifiers(Top.records)
        /\ stack' = SubSeq(stack, 1, Len(stack) - 1)
        /\ UNCHANGED <<db, phase, parameters, parent, reply>>
    BY <1>4 DEF Return, Keep, Identifiers
  <2>2. Keyed(cache') /\ DOMAIN cache' = DOMAIN cache \cup Identifiers(Top.records)
    BY <1>2, <2>1, MergeAllIs DEF TypeInv, IsFrame
  <2>3. /\ stack' \in Seq(ToSet(stack')) /\ Len(stack') = Len(stack) - 1
        /\ \A i \in 1..(Len(stack) - 1) : stack'[i] = stack[i]
    <3>1. stack \in Seq(ToSet(stack))
      BY DEF TypeInv, Frames
    <3>2. Len(stack) > 0
      BY <1>1, <1>2
    <3>. QED BY <2>1, <3>1, <3>2, FrontIs
  <2>4. reg' = reg
    BY <1>1 DEF reg, input
  <2>5. Frames(stack)' /\ stack' # <<>> /\ stack # <<>>
    <3>1. \A i \in 1..Len(stack) : IsFrame(stack[i])
      BY DEF TypeInv, Frames
    <3>2. \A i \in 1..Len(stack') : i \in 1..(Len(stack) - 1) /\ i \in 1..Len(stack)
      BY <1>2, <2>3
    <3>3. \A i \in 1..Len(stack') : IsFrame(stack'[i])
      BY <2>3, <3>1, <3>2
    <3>4. Frames(stack)'
      BY <2>3, <2>4, <3>3 DEF Frames, IsFrame
    <3>. QED BY <1>1, <1>2, <2>3, <3>4
  <2>6. Given' /\ Stored' /\ Consistent(schemas)'
    BY <1>1, <1>2, <2>1, GivenStays, StoredStays DEF TypeInv, input
  <2>7. included' \subseteq DOMAIN cache'
    BY <2>1, <2>2 DEF TypeInv
  <2>. QED BY <2>1, <2>2, <2>5, <2>6, <2>7 DEF TypeInv, Loading, Keyed
<1>. QED BY <1>3, <1>4

LEMMA FinishParentTypes == ASSUME TypeInv, FinishParent PROVE TypeInv'
<1>1. /\ Loading /\ phase = "loading parent" /\ phase' \in {"querying", "parsing"}
      /\ phase' = "querying" => request.kind = "linkage"
      /\ stack' = <<>> /\ cache' = <<>> /\ included' = {} /\ UNCHANGED <<input, db, parameters, reply>>
  BY DEF FinishParent, CollectionLoaded
<1>2. Given' /\ Stored' /\ Consistent(schemas)'
  BY <1>1, GivenStays, StoredStays DEF TypeInv, input
<1>3. Frames(stack)' /\ Keyed(cache)'
  <2>1. <<>> \in Seq(ToSet(<<>>)) /\ Len(<<>>) = 0
    OBVIOUS
  <2>2. stack' = <<>> /\ cache' = <<>>
    BY <1>1
  <2>3. stack' \in Seq(ToSet(stack')) /\ 1..Len(stack') = {}
    BY <2>1, <2>2
  <2>4. Frames(stack)'
    BY <2>3 DEF Frames
  <2>5. Keyed(cache)'
    <3>1. DOMAIN cache' = {}
      BY <2>2
    <3>. QED BY <3>1 DEF Keyed
  <2>. QED BY <2>4, <2>5
<1>. QED BY <1>1, <1>2, <1>3 DEF TypeInv, Loading

LEMMA FinishTypes == ASSUME TypeInv, Finish PROVE TypeInv'
<1>1. UNCHANGED input /\ Loading
  BY DEF Finish, CollectionLoaded
<1>2. CASE TooMany
  BY <1>1, <1>2, RefuseTypes DEF Finish
<1>3. CASE ~ TooMany
  <2>1. /\ phase' = "done" /\ reply'.error = "none" /\ UNCHANGED <<db, parameters, loader, parent>>
    BY <1>3 DEF Finish, Respond, Document
  <2>2. Given' /\ Stored' /\ Frames(stack)'
    BY <1>1, <2>1, GivenStays, StoredStays, FramesStay DEF TypeInv, loader
  <2>. QED BY <2>1, <2>2 DEF TypeInv, Loading, Keyed, loader
<1>. QED BY <1>2, <1>3

LEMMA TypeNext == TypeInv /\ [Next]_vars => TypeInv'
<1>. SUFFICES ASSUME TypeInv, [Next]_vars PROVE TypeInv'
  OBVIOUS
<1>1. CASE TryBuild
  BY <1>1, TryBuildTypes
<1>2. CASE FetchParent
  BY <1>2, FetchParentTypes
<1>3. CASE ParseQuery
  BY <1>3, ParseQueryTypes
<1>4. CASE Fetch
  BY <1>4, FetchTypes
<1>5. CASE LoadRelationship
  BY <1>5, LoadRelationshipTypes
<1>6. CASE Return
  BY <1>6, ReturnTypes
<1>7. CASE FinishParent
  BY <1>7, FinishParentTypes
<1>8. CASE Finish
  BY <1>8, FinishTypes
<1>9. CASE UNCHANGED vars
  <2>1. UNCHANGED <<input, db, phase, parameters, stack, cache, included, reply>>
    BY <1>9 DEF vars, input
  <2>2. Given' /\ Stored' /\ Frames(stack)'
    BY <2>1, GivenStays, StoredStays, FramesStay DEF TypeInv
  <2>. QED BY <2>1, <2>2 DEF TypeInv, Loading, Keyed, input
<1>. QED BY <1>1, <1>2, <1>3, <1>4, <1>5, <1>6, <1>7, <1>8, <1>9 DEF Next

\* The loader only ever holds records of the model it loads, under their own
\* identifiers, and what it marked as included it has.
THEOREM LoaderTyped == Spec => []TypeOK
<1>1. Spec => []TypeInv
  BY TypeInit, TypeNext, PTL DEF Spec
<1>. QED BY <1>1, TypeInvImpliesTypeOK, PTL

-----------------------------------------------------------------------------
(* What records hold while they are loaded. *)

\* A record has the columns its model was asked for, and no linkage that was
\* neither requested nor sent.
Honest(x, fields, byName, sent) ==
  LET s == byName[x.kind] IN
  /\ x.kind \in DOMAIN byName /\ ~ FieldsPanic(s, fields)
  /\ DOMAIN x.columns = ColumnsFor(s, fields) \ {s.key.name}
  /\ DOMAIN x.relationships \subseteq fields[x.kind] \cup sent

\* It has the linkage its model was asked for, but for what is still to come.
Owing(x, fields, pending, byName) ==
  \A r \in Relationships(byName[x.kind]) :
    IsRequested(fields, x.kind, r.name) /\ Has(byName[x.kind], x, r.own) =>
      r.name \in DOMAIN x.relationships \/ r \in ToSet(pending)
Whole(x, fields, byName) == Owing(x, fields, <<>>, byName)

AllHonest(xs, fields, byName, sent) == \A i \in 1..Len(xs) : Honest(xs[i], fields, byName, sent)
AllOwing(xs, fields, pending, byName) == \A i \in 1..Len(xs) : Owing(xs[i], fields, pending, byName)

FrameHonest(f, p, byName, sent) ==
  /\ f.schema \in p.models
  /\ PathsIn(f.include, byName[f.schema], byName, p.models)
  /\ AllHonest(f.records, p.fields, byName, sent)
  /\ AllOwing(f.records, p.fields, f.pending, byName)

CacheHonest(c, fields, byName, sent) == \A key \in DOMAIN c : Honest(c[key], fields, byName, sent)
IncludedWhole(c, keys, p, byName) ==
  \A key \in keys : c[key].kind \in p.models /\ Whole(c[key], p.fields, byName)

HonestLoading(fs, c, keys, p, byName, sent) ==
  /\ \A i \in 1..Len(fs) : FrameHonest(fs[i], p, byName, sent)
  /\ CacheHonest(c, p.fields, byName, sent)
  /\ IncludedWhole(c, keys, p, byName)

LEMMA ReadsAreHonest ==
    ASSUME NEW byName, NEW s, s.name \in DOMAIN byName, byName[s.name] = s, NEW fields,
           NEW xs, CollectionIs(s, xs, fields), NEW sent
    PROVE  AllHonest(xs, fields, byName, sent)
<1>1. CASE xs = <<>>
  BY <1>1 DEF AllHonest
<1>2. CASE xs # <<>>
  <2>1. PICK rows : ~ FieldsPanic(s, fields) /\ rows \in Seq(ToSet(rows)) /\ xs = Reads(s, rows, fields)
    BY <1>2 DEF CollectionIs
  <2>2. ASSUME NEW i \in 1..Len(rows)
        PROVE  Honest(FromRow(s, Restrict(rows[i], ColumnsFor(s, fields))), fields, byName, sent)
    <3>. DEFINE columns == ColumnsFor(s, fields)
                x == FromRow(s, Restrict(rows[i], columns))
    <3>1. x.kind = s.name /\ DOMAIN x.columns = columns \ {s.key.name} /\ DOMAIN x.relationships = {}
      <4>. HIDE DEF columns
      <4>. QED BY DEF FromRow, Restrict
    <3>. HIDE DEF x
    <3>. QED BY <2>1, <3>1 DEF Honest, x
  <2>. QED BY <2>1, <2>2, ReadsAre DEF AllHonest
<1>. QED BY <1>1, <1>2

\* Whatever is requested of a record is among what is to be loaded.
LEMMA OwingToLoad ==
    ASSUME NEW byName, Closed(byName), NEW s, s.name \in DOMAIN byName, byName[s.name] = s,
           NEW fields, NEW include, NEW x, x.kind = s.name
    PROVE  Owing(x, fields, RelationshipsToLoad(s, fields, include), byName)
<1>1. Declarable(s)
  BY DEF Closed
<1>. QED BY <1>1, ToLoadIs DEF Owing, ShouldLoad

LEMMA FrameIsHonest ==
    ASSUME NEW byName, Closed(byName), NEW s, s.name \in DOMAIN byName, byName[s.name] = s,
           NEW p, s.name \in p.models, NEW include, PathsIn(include, s, byName, p.models),
           NEW records, Records(records, s.name), NEW sent, AllHonest(records, p.fields, byName, sent)
    PROVE  FrameHonest(Frame(s, records, p.fields, include), p, byName, sent)
<1>. DEFINE ToLoad == RelationshipsToLoad(s, p.fields, include)
            f == Frame(s, records, p.fields, include)
<1>1. f.schema = s.name /\ f.include = include /\ f.records = records /\ f.pending = ToLoad
  BY DEF Frame
<1>2. \A i \in 1..Len(records) : records[i].kind = s.name
  BY DEF Records, IsRecord
<1>3. AllOwing(records, p.fields, ToLoad, byName)
  BY <1>2, OwingToLoad DEF AllOwing
<1>. HIDE DEF f
<1>4. FrameHonest(f, p, byName, sent)
  BY <1>1, <1>3 DEF FrameHonest
<1>. QED BY <1>4 DEF f

LEMMA StartIsHonest ==
    ASSUME NEW byName, Closed(byName), NEW s, s.name \in DOMAIN byName, byName[s.name] = s,
           NEW p, s.name \in p.models, PathsIn(p.include, s, byName, p.models),
           NEW records, Records(records, s.name), NEW sent, AllHonest(records, p.fields, byName, sent),
           StartLoading(s, records, p)
    PROVE  HonestLoading(stack', cache', included', p, byName, sent)
<1>. DEFINE first == Frame(s, records, p.fields, p.include)
            f == IF records = <<>> THEN [first EXCEPT !.pending = <<>>] ELSE first
<1>1. stack' = <<f>> /\ cache' = <<>> /\ included' = {}
  BY DEF StartLoading
<1>2. FrameHonest(first, p, byName, sent)
  BY FrameIsHonest
<1>3. FrameHonest(f, p, byName, sent)
  <2>1. CASE records # <<>>
    BY <1>2, <2>1
  <2>2. CASE records = <<>>
    <3>1. first.records = <<>>
      BY <2>2 DEF Frame
    <3>2. DOMAIN first = {"schema", "include", "records", "pending"}
      BY DEF Frame
    <3>. HIDE DEF first
    <3>3. f.schema = first.schema /\ f.include = first.include /\ f.records = <<>>
      BY <2>2, <3>1, <3>2
    <3>. HIDE DEF f
    <3>4. AllHonest(f.records, p.fields, byName, sent) /\ AllOwing(f.records, p.fields, f.pending, byName)
      BY <3>3 DEF AllHonest, AllOwing
    <3>. QED BY <1>2, <3>3, <3>4 DEF FrameHonest
  <2>. QED BY <2>1, <2>2
<1>. HIDE DEF f
<1>4. Len(stack') = 1 /\ stack'[1] = f /\ DOMAIN cache' = {}
  BY <1>1
<1>. QED BY <1>1, <1>3, <1>4 DEF HonestLoading, CacheHonest, IncludedWhole

-----------------------------------------------------------------------------
(* One relationship of a collection. *)

LEMMA LoadedIsHonest ==
    ASSUME NEW byName, NEW s, s.name \in DOMAIN byName, byName[s.name] = s, NEW target, NEW fields, NEW sent,
           NEW records, Records(records, s.name), NEW pending, pending \in Seq(Relationships(s)), pending # <<>>,
           AllHonest(records, fields, byName, sent), AllOwing(records, fields, pending, byName),
           NEW loaded, LoadedFrom(loaded, s, target, Head(pending), records, fields), loaded.error = "none"
    PROVE  /\ AllHonest(loaded.records, fields, byName, sent)
           /\ AllOwing(loaded.records, fields, Tail(pending), byName)
<1>. DEFINE r == Head(pending)
            rest == Tail(pending)
            requested == IsRequested(fields, s.name, r.name)
            ys == loaded.records
<1>1. ToSet(pending) = {r} \cup ToSet(rest)
  <2>1. /\ Len(pending) \in Nat /\ Len(pending) > 0 /\ DOMAIN pending = 1..Len(pending)
        /\ r = pending[1] /\ rest \in Seq(Relationships(s)) /\ Len(rest) = Len(pending) - 1
        /\ \A i \in 1..Len(rest) : rest[i] = pending[i + 1]
    BY HeadTailProperties
  <2>2. DOMAIN rest = 1..Len(rest)
    BY <2>1
  <2>. HIDE DEF r, rest
  <2>3. ASSUME NEW i \in 1..Len(pending) PROVE pending[i] \in {r} \cup ToSet(rest)
    <3>1. CASE i = 1
      BY <2>1, <3>1
    <3>2. CASE i # 1
      <4>1. i - 1 \in 1..Len(rest) /\ (i - 1) + 1 = i
        BY <2>1, <3>2
      <4>2. rest[i - 1] = pending[i]
        BY <2>1, <4>1
      <4>. QED BY <2>2, <4>1, <4>2 DEF ToSet
    <3>. QED BY <3>1, <3>2
  <2>4. ASSUME NEW i \in 1..Len(rest) PROVE rest[i] \in ToSet(pending)
    <3>1. i + 1 \in 1..Len(pending) /\ rest[i] = pending[i + 1]
      BY <2>1
    <3>. QED BY <2>1, <3>1 DEF ToSet
  <2>5. r \in ToSet(pending)
    <3>1. 1 \in 1..Len(pending)
      BY <2>1
    <3>. QED BY <2>1, <3>1 DEF ToSet
  <2>6. ToSet(pending) \subseteq {r} \cup ToSet(rest)
    BY <2>1, <2>3 DEF ToSet
  <2>7. ToSet(rest) \subseteq ToSet(pending)
    BY <2>2, <2>4 DEF ToSet
  <2>. QED BY <2>5, <2>6, <2>7
<1>2. \A i \in 1..Len(records) : records[i].kind = s.name
  BY DEF Records, IsRecord
<1>. HIDE DEF r, rest
<1>3. CASE ~ requested
  <2>1. ys = records
    BY <1>3 DEF LoadedFrom, r
  <2>2. ASSUME NEW i \in 1..Len(records) PROVE Owing(records[i], fields, rest, byName)
    <3>1. Owing(records[i], fields, pending, byName) /\ records[i].kind = s.name
      BY <1>2 DEF AllOwing
    <3>. QED BY <1>1, <1>3, <3>1 DEF Owing
  <2>. HIDE DEF requested
  <2>. QED BY <2>1, <2>2 DEF AllOwing, rest
<1>4. CASE requested
  <2>1. PICK ids : DOMAIN ids = Holders(s, records, r) /\ ys = Linked(records, r, ids)
    BY <1>4 DEF LoadedFrom, r
  <2>2. /\ Records(ys, s.name) /\ Len(ys) = Len(records)
        /\ \A i \in 1..Len(records) :
             /\ ys[i].columns = records[i].columns
             /\ ys[i].relationships = IF i \in DOMAIN ids THEN Put(records[i].relationships, r.name, ids[i])
                                      ELSE records[i].relationships
    BY <2>1, LinkedIs
  <2>. HIDE DEF ys
  <2>3. ASSUME NEW i \in 1..Len(records)
        PROVE  Honest(ys[i], fields, byName, sent) /\ Owing(ys[i], fields, rest, byName)
    <3>. DEFINE x == records[i]
                y == ys[i]
    <3>1. Honest(x, fields, byName, sent) /\ Owing(x, fields, pending, byName) /\ x.kind = s.name
      BY <1>2 DEF AllHonest, AllOwing
    <3>2. y.kind = s.name /\ y.columns = x.columns
      BY <2>2 DEF Records, IsRecord
    <3>3. i \in DOMAIN ids <=> Has(s, x, r.own)
      BY <2>1 DEF Holders, Records
    <3>4. y.relationships = IF i \in DOMAIN ids THEN Put(x.relationships, r.name, ids[i]) ELSE x.relationships
      BY <2>2
    <3>. HIDE DEF x, y
    <3>5. DOMAIN y.relationships = DOMAIN x.relationships \cup (IF i \in DOMAIN ids THEN {r.name} ELSE {})
      BY <3>4 DEF Put
    <3>6. r.name \in fields[s.name]
      <4>1. s.name \in DOMAIN fields
        BY <3>1 DEF Honest, FieldsPanic
      <4>. QED BY <1>4, <4>1 DEF IsRequested, FieldsOf
    <3>7. Honest(y, fields, byName, sent)
      BY <3>1, <3>2, <3>5, <3>6 DEF Honest
    <3>8. Owing(y, fields, rest, byName)
      <4>1. ASSUME NEW q \in Relationships(s), IsRequested(fields, s.name, q.name), Has(s, y, q.own)
            PROVE  q.name \in DOMAIN y.relationships \/ q \in ToSet(rest)
        <5>1. Has(s, x, q.own)
          BY <3>2, <4>1 DEF Has
        <5>2. q.name \in DOMAIN x.relationships \/ q \in ToSet(pending)
          BY <3>1, <4>1, <5>1 DEF Owing
        <5>. QED BY <1>1, <3>3, <3>5, <5>1, <5>2
      <4>. QED BY <3>2, <4>1 DEF Owing
    <3>. QED BY <3>7, <3>8 DEF y
  <2>. QED BY <2>2, <2>3 DEF AllHonest, AllOwing, ys, rest
<1>. QED BY <1>3, <1>4

-----------------------------------------------------------------------------
(* The cache. *)

\* A record that was merged with others: the same columns, and more linkage.
Extends(y, x) ==
  /\ y.kind = x.kind /\ DOMAIN y.columns = DOMAIN x.columns
  /\ DOMAIN x.relationships \subseteq DOMAIN y.relationships

LEMMA WholeStays ==
    ASSUME NEW x, NEW y, Extends(y, x), NEW fields, NEW byName, Whole(x, fields, byName)
    PROVE  Whole(y, fields, byName)
<1>1. ToSet(<<>>) = {}
  BY DEF ToSet
<1>. QED BY <1>1 DEF Extends, Whole, Owing, Has

LEMMA MergeIsHonest ==
    ASSUME NEW c, Keyed(c), NEW fields, NEW byName, NEW sent, CacheHonest(c, fields, byName, sent),
           NEW x, IsRecord(x, x.kind), Honest(x, fields, byName, sent)
    PROVE  /\ CacheHonest(Merge(c, x), fields, byName, sent)
           /\ \A key \in DOMAIN c : Extends(Merge(c, x)[key], c[key])
           /\ Extends(Merge(c, x)[Identifier(x)], x)
<1>. DEFINE key == Identifier(x)
            d == Merge(c, x)
<1>1. /\ Keyed(d) /\ DOMAIN d = DOMAIN c \cup {key}
      /\ \A k \in DOMAIN c : k # key => d[k] = c[k]
      /\ key \notin DOMAIN c => d[key] = x
      /\ key \in DOMAIN c =>
           /\ d[key].columns = c[key].columns
           /\ d[key].relationships = Over(c[key].relationships, x.relationships)
  BY MergeIs
<1>. HIDE DEF d
<1>2. ASSUME NEW k \in DOMAIN c, k # key PROVE Honest(d[k], fields, byName, sent) /\ Extends(d[k], c[k])
  BY <1>1, <1>2 DEF CacheHonest, Extends
<1>3. CASE key \notin DOMAIN c
  <2>1. Honest(d[key], fields, byName, sent) /\ Extends(d[key], x)
    BY <1>1, <1>3 DEF Extends
  <2>. QED BY <1>1, <1>2, <1>3, <2>1 DEF CacheHonest, d
<1>4. CASE key \in DOMAIN c
  <2>. DEFINE z == c[key]
              y == d[key]
  <2>1. y.columns = z.columns /\ y.relationships = Over(z.relationships, x.relationships)
    BY <1>1, <1>4
  <2>2. z.kind = x.kind /\ y.kind = x.kind
    <3>1. Identifier(z) = key /\ Identifier(y) = key
      BY <1>1, <1>4 DEF Keyed
    <3>. QED BY <3>1 DEF Identifier
  <2>3. Honest(z, fields, byName, sent)
    BY <1>4 DEF CacheHonest
  <2>. HIDE DEF y, z
  <2>4. DOMAIN y.relationships = DOMAIN z.relationships \cup DOMAIN x.relationships
    BY <2>1 DEF Over
  <2>5. Honest(y, fields, byName, sent) /\ Extends(y, z) /\ Extends(y, x)
    BY <2>1, <2>2, <2>3, <2>4 DEF Honest, Extends
  <2>. QED BY <1>1, <1>2, <1>4, <2>5 DEF CacheHonest, d, y, z
<1>. QED BY <1>3, <1>4

LEMMA MergeAllIsHonest ==
    ASSUME NEW c, Keyed(c), NEW fields, NEW byName, NEW sent, CacheHonest(c, fields, byName, sent),
           NEW kind, NEW records, Records(records, kind), AllHonest(records, fields, byName, sent)
    PROVE  LET d == MergeAll(c, records)
           IN /\ CacheHonest(d, fields, byName, sent)
              /\ \A key \in DOMAIN c : Extends(d[key], c[key])
              /\ \A x \in ToSet(records) : Extends(d[Identifier(x)], x)
<1>. DEFINE n == Len(records)
            after == Merging(c, records)
            Well(i) ==
              /\ Keyed(after[i]) /\ CacheHonest(after[i], fields, byName, sent)
              /\ \A key \in DOMAIN c : key \in DOMAIN after[i] /\ Extends(after[i][key], c[key])
              /\ \A j \in 1..i : /\ Identifier(records[j]) \in DOMAIN after[i]
                                 /\ Extends(after[i][Identifier(records[j])], records[j])
            S == {i \in 0..n : Well(i)}
<1>1. n \in Nat /\ DOMAIN records = 1..n /\ \A i \in 1..n : IsRecord(records[i], records[i].kind)
  BY DEF Records, IsRecord
<1>2. after[0] = c /\ \A i \in 1..n : after[i] = Merge(after[i - 1], records[i])
  BY <1>1, MergingIs
<1>3. \A i \in 1..n : Honest(records[i], fields, byName, sent)
  BY DEF AllHonest
<1>. HIDE DEF after, n
<1>4. 0 \in S
  <2>1. \A key \in DOMAIN c : Extends(c[key], c[key])
    BY DEF Extends
  <2>. QED BY <1>1, <1>2, <2>1
<1>5. ASSUME NEW i \in 1..n, i - 1 \in S PROVE i \in S
  <2>. DEFINE before == after[i - 1]
              d == after[i]
              x == records[i]
              key == Identifier(x)
  <2>1. Well(i - 1) /\ i \in 0..n /\ d = Merge(before, x) /\ IsRecord(x, x.kind) /\ Honest(x, fields, byName, sent)
    BY <1>1, <1>2, <1>3, <1>5
  <2>. HIDE DEF x, before, d
  <2>2. Keyed(before) /\ CacheHonest(before, fields, byName, sent)
    BY <2>1 DEF before
  <2>3. Keyed(d) /\ DOMAIN d = DOMAIN before \cup {key}
    BY <2>1, <2>2, MergeIs
  <2>4. /\ CacheHonest(d, fields, byName, sent) /\ \A k \in DOMAIN before : Extends(d[k], before[k])
        /\ Extends(d[key], x)
    BY <2>1, <2>2, MergeIsHonest
  <2>5. ASSUME NEW k \in DOMAIN c PROVE k \in DOMAIN d /\ Extends(d[k], c[k])
    <3>1. k \in DOMAIN before /\ Extends(before[k], c[k])
      BY <2>1 DEF before
    <3>. QED BY <2>3, <2>4, <3>1 DEF Extends
  <2>6. ASSUME NEW j \in 1..i
        PROVE  Identifier(records[j]) \in DOMAIN d /\ Extends(d[Identifier(records[j])], records[j])
    <3>1. CASE j = i
      BY <2>3, <2>4, <3>1 DEF x
    <3>2. CASE j # i
      <4>1. j \in 1..(i - 1)
        BY <1>1, <3>2
      <4>2. Identifier(records[j]) \in DOMAIN before /\ Extends(before[Identifier(records[j])], records[j])
        BY <2>1, <4>1 DEF before
      <4>. QED BY <2>3, <2>4, <4>2 DEF Extends
    <3>. QED BY <3>1, <3>2
  <2>. QED BY <2>1, <2>3, <2>4, <2>5, <2>6 DEF d
<1>. HIDE DEF Well, S
<1>6. 0..n \subseteq S
  BY <1>1, <1>4, <1>5, BoundedInduction
<1>7. Well(n)
  <2>1. n \in 0..n
    BY <1>1
  <2>. QED BY <1>6, <2>1 DEF S
<1>8. ASSUME NEW x \in ToSet(records) PROVE Extends(after[n][Identifier(x)], x)
  <2>1. PICK j \in 1..n : x = records[j]
    BY <1>1 DEF ToSet
  <2>. QED BY <1>7, <2>1 DEF Well
<1>. QED BY <1>7, <1>8 DEF MergeAll, Well, after, n

-----------------------------------------------------------------------------
(* The invariant, step by step. *)

FieldsInv ==
  /\ request.kind # "linkage" /\ phase \in {"querying", "loading"} =>
       ParsedIs(parameters, request.query, Target, reg)
  /\ request.kind # "linkage" /\ phase = "loading" =>
       HonestLoading(stack, cache, included, parameters, reg, Sent)
  /\ FieldsetsAreHonoured

LEMMA InputStays ==
    ASSUME UNCHANGED input
    PROVE  /\ UNCHANGED <<schemas, request, reg, Schema, Descriptor, Target, Sent>>
           /\ Given => Given'
BY GivenStays DEF input, reg, Schema, Descriptor, Target, Sent

LEMMA RefuseIsHonest == ASSUME NEW error, Refuse(error) PROVE FieldsInv'
<1>1. phase' = "done" /\ reply' = [Unanswered EXCEPT !.error = error]
  BY DEF Refuse
<1>2. ShownResources' = {}
  BY <1>1 DEF ShownResources, Unanswered, ToSet
<1>3. FieldsetsAreHonoured'
  BY <1>2 DEF FieldsetsAreHonoured
<1>. QED BY <1>1, <1>3 DEF FieldsInv

LEMMA UnfinishedIsHonest == ASSUME phase' # "done" PROVE FieldsetsAreHonoured'
BY DEF FieldsetsAreHonoured, WithRecords, Answered

\* A step of the loader that reads no further query.
LEMMA StepIsHonest ==
    ASSUME FieldsInv, UNCHANGED <<input, parameters, phase>>, phase \in {"loading", "loading parent"},
           request.kind # "linkage" /\ phase = "loading" =>
             HonestLoading(stack', cache', included', parameters, reg, Sent)
    PROVE  FieldsInv'
<1>1. UNCHANGED <<request, reg, Target, Sent, parameters, phase>>
  BY InputStays
<1>2. FieldsetsAreHonoured'
  BY UnfinishedIsHonest
<1>. QED BY <1>1, <1>2 DEF FieldsInv

LEMMA LoadRelationshipHonest == ASSUME TypeInv, FieldsInv, LoadRelationship PROVE FieldsInv'
<1>. DEFINE s == reg[Top.schema]
            r == Head(Top.pending)
            target == reg[r.resource]
            recurse == IsIncluded(Top.include, r.name)
            loaded == LoadRelated(s, target, r, Top.records, parameters.fields, recurse, db[target.name])
            here == [Top EXCEPT !.records = loaded.records, !.pending = Tail(@)]
            below == Frame(target, loaded.related, parameters.fields, Derive(Top.include, r.name))
            conflict == MergeConflicts(cache, loaded.related)
            replaced == [stack EXCEPT ![Len(stack)] = here]
<1>1. /\ Loading /\ Top.pending # <<>> /\ UNCHANGED input
      /\ IF loaded.error # "none" THEN Refuse(loaded.error)
         ELSE IF recurse
         THEN /\ stack' = Append(replaced, below)
              /\ UNCHANGED <<db, phase, parameters, cache, included, parent, reply>>
         ELSE IF conflict THEN Refuse("DataLoadingError")
         ELSE /\ cache' = MergeAll(cache, loaded.related)
              /\ stack' = replaced
              /\ UNCHANGED <<db, phase, parameters, included, parent, reply>>
  BY DEF LoadRelationship, Keep
<1>2. /\ IsFrame(Top) /\ Len(stack) \in Nat /\ Len(stack) > 0
      /\ Consistent(schemas) /\ Closed(reg) /\ Registered(reg, schemas)
  BY <1>1, TopIs
<1>3. r \in Relationships(s) /\ r.resource \in DOMAIN reg /\ target.name = r.resource /\ reg[target.name] = target
  <2>1. Top.pending \in Seq(Relationships(s))
    BY <1>2 DEF IsFrame
  <2>2. r \in Relationships(s)
    BY <1>1, <2>1, HeadTailProperties
  <2>. QED BY <1>2, <2>2 DEF IsFrame, Closed
<1>4. LoadedFrom(loaded, s, target, r, Top.records, parameters.fields)
  <2>1. IsFiniteSet(db[target.name])
    BY <1>2, <1>3 DEF TypeInv, Stored, Registered
  <2>. HIDE DEF recurse, s, r, target
  <2>. QED BY <2>1, LoadRelatedIs
<1>. HIDE DEF loaded, conflict
<1>5. CASE loaded.error # "none"
  BY <1>1, <1>5, RefuseIsHonest
<1>6. CASE loaded.error = "none"
  <2>0. IsFrame(here) /\ Records(loaded.related, target.name)
    BY <1>1, <1>3, <1>4, <1>6, LoadedTypes
  <2>. DEFINE honest == request.kind # "linkage" /\ phase = "loading"
  <2>1. honest =>
          /\ HonestLoading(stack, cache, included, parameters, reg, Sent)
          /\ FrameHonest(Top, parameters, reg, Sent)
    <3>1. Len(stack) \in 1..Len(stack)
      BY <1>2
    <3>. QED BY <3>1 DEF FieldsInv, HonestLoading, Top
  <2>2. here.schema = Top.schema /\ here.include = Top.include /\ here.records = loaded.records /\ here.pending = Tail(Top.pending)
    BY <1>2 DEF IsFrame
  <2>3. honest => FrameHonest(here, parameters, reg, Sent) /\ AllHonest(loaded.related, parameters.fields, reg, Sent)
    <3>. SUFFICES ASSUME honest
                  PROVE  FrameHonest(here, parameters, reg, Sent) /\ AllHonest(loaded.related, parameters.fields, reg, Sent)
      OBVIOUS
    <3>. DEFINE f == Top
    <3>1. /\ f.schema \in DOMAIN reg /\ s.name = f.schema /\ reg[s.name] = s
          /\ Records(f.records, s.name) /\ f.pending \in Seq(Relationships(s)) /\ f.pending # <<>>
      BY <1>1, <1>2 DEF IsFrame, Closed
    <3>2. AllHonest(f.records, parameters.fields, reg, Sent) /\ AllOwing(f.records, parameters.fields, f.pending, reg)
      BY <2>1 DEF FrameHonest
    <3>3. LoadedFrom(loaded, s, target, Head(f.pending), f.records, parameters.fields)
      BY <1>4
    <3>4. FrameHonest(f, parameters, reg, Sent)
      BY <2>1
    <3>. HIDE DEF here, f, s, target, r
    <3>5. /\ AllHonest(loaded.records, parameters.fields, reg, Sent)
          /\ AllOwing(loaded.records, parameters.fields, Tail(f.pending), reg)
      BY <1>6, <3>1, <3>2, <3>3, LoadedIsHonest
    <3>6. AllHonest(loaded.related, parameters.fields, reg, Sent)
      <4>1. CollectionIs(target, loaded.related, parameters.fields)
        BY <1>4, <1>6 DEF LoadedFrom
      <4>. QED BY <1>3, <4>1, ReadsAreHonest
    <3>7. FrameHonest(here, parameters, reg, Sent)
      BY <2>2, <3>4, <3>5 DEF FrameHonest, f
    <3>. QED BY <3>6, <3>7
  <2>. HIDE DEF here
  <2>4. /\ Frames(replaced) /\ Len(replaced) = Len(stack) /\ replaced[Len(stack)] = here
        /\ \A i \in 1..Len(stack) : i # Len(stack) => replaced[i] = stack[i]
    <3>1. Len(stack) \in 1..Len(stack)
      BY <1>2
    <3>2. Frames(stack)
      BY DEF TypeInv
    <3>. QED BY <2>0, <3>1, <3>2, FramesReplaced
  <2>5. honest => \A i \in 1..Len(replaced) : FrameHonest(replaced[i], parameters, reg, Sent)
    BY <2>1, <2>3, <2>4 DEF HonestLoading
  <2>. HIDE DEF replaced, recurse
  <2>6. CASE recurse
    <3>1. stack' = Append(replaced, below) /\ UNCHANGED <<phase, parameters, cache, included>>
      BY <1>1, <1>6, <2>6
    <3>2. honest => FrameHonest(below, parameters, reg, Sent)
      <4>. SUFFICES ASSUME honest PROVE FrameHonest(below, parameters, reg, Sent)
        OBVIOUS
      <4>. DEFINE include == Derive(Top.include, r.name)
      <4>1. PathsIn(Top.include, s, reg, parameters.models)
        BY <2>1 DEF FrameHonest
      <4>2. s.name \in DOMAIN reg /\ s = reg[s.name]
        BY <1>2 DEF IsFrame, Closed
      <4>3. target.name \in parameters.models
        BY <1>2, <1>3, <2>6, <4>1, <4>2, IncludedIsServed DEF recurse
      <4>4. PathsIn(include, target, reg, parameters.models)
        BY <1>2, <1>3, <4>1, <4>2, DeriveStaysIn
      <4>. HIDE DEF include, target
      <4>. QED BY <1>2, <1>3, <2>0, <2>3, <4>3, <4>4, FrameIsHonest DEF include
    <3>. HIDE DEF below
    <3>3. honest => \A i \in 1..Len(stack') : FrameHonest(stack'[i], parameters, reg, Sent)
      <4>1. /\ Len(stack') = Len(replaced) + 1 /\ stack'[Len(replaced) + 1] = below /\ Len(replaced) \in Nat
            /\ \A i \in 1..Len(replaced) : stack'[i] = replaced[i]
        BY <2>4, <3>1, AppendIs, SequenceIs DEF Frames
      <4>2. \A i \in 1..Len(stack') : i = Len(replaced) + 1 \/ i \in 1..Len(replaced)
        BY <4>1
      <4>. QED BY <2>5, <3>2, <4>1, <4>2
    <3>4. honest => HonestLoading(stack', cache', included', parameters, reg, Sent)
      BY <2>1, <3>1, <3>3 DEF HonestLoading
    <3>. QED BY <1>1, <3>1, <3>4, StepIsHonest DEF Loading
  <2>7. CASE ~ recurse
    <3>1. CASE conflict
      BY <1>1, <1>6, <2>7, <3>1, RefuseIsHonest
    <3>2. CASE ~ conflict
      <4>1. /\ cache' = MergeAll(cache, loaded.related) /\ stack' = replaced
            /\ UNCHANGED <<phase, parameters, included>>
        BY <1>1, <1>6, <2>7, <3>2
      <4>2. honest => HonestLoading(stack', cache', included', parameters, reg, Sent)
        <5>. SUFFICES ASSUME honest PROVE HonestLoading(stack', cache', included', parameters, reg, Sent)
          OBVIOUS
        <5>1. /\ CacheHonest(cache', parameters.fields, reg, Sent)
              /\ \A key \in DOMAIN cache : Extends(cache'[key], cache[key])
          <6>1. Keyed(cache) /\ CacheHonest(cache, parameters.fields, reg, Sent)
            BY <2>1 DEF TypeInv, HonestLoading
          <6>. QED BY <2>0, <2>3, <4>1, <6>1, MergeAllIsHonest
        <5>2. IncludedWhole(cache', included, parameters, reg)
          <6>1. IncludedWhole(cache, included, parameters, reg) /\ included \subseteq DOMAIN cache
            BY <2>1 DEF TypeInv, HonestLoading
          <6>. QED BY <5>1, <6>1, WholeStays DEF IncludedWhole, Extends
        <5>. QED BY <2>5, <4>1, <5>1, <5>2 DEF HonestLoading
      <4>. QED BY <1>1, <4>1, <4>2, StepIsHonest DEF Loading
    <3>. QED BY <3>1, <3>2
  <2>. QED BY <2>6, <2>7
<1>. QED BY <1>5, <1>6

LEMMA ReturnHonest == ASSUME TypeInv, FieldsInv, Return PROVE FieldsInv'
<1>1. Loading /\ Len(stack) > 1 /\ UNCHANGED input /\ Top.pending = <<>>
  BY DEF Return
<1>2. IsFrame(Top) /\ Len(stack) \in Nat
  BY <1>1, TopIs
<1>3. CASE MergeConflicts(cache, Top.records)
  BY <1>1, <1>3, RefuseIsHonest DEF Return
<1>4. CASE ~ MergeConflicts(cache, Top.records)
  <2>. DEFINE honest == request.kind # "linkage" /\ phase = "loading"
              f == Top
  <2>1. /\ cache' = MergeAll(cache, f.records)
        /\ included' = included \cup Identifiers(f.records)
        /\ stack' = SubSeq(stack, 1, Len(stack) - 1)
        /\ UNCHANGED <<phase, parameters>>
    BY <1>4 DEF Return, Keep, Identifiers
  <2>2. Records(f.records, f.schema) /\ f.pending = <<>> /\ Keyed(cache) /\ included \subseteq DOMAIN cache
    BY <1>1, <1>2 DEF TypeInv, IsFrame
  <2>3. honest =>
          /\ HonestLoading(stack, cache, included, parameters, reg, Sent)
          /\ FrameHonest(f, parameters, reg, Sent)
    <3>1. Len(stack) \in 1..Len(stack)
      BY <1>1, <1>2
    <3>. QED BY <3>1 DEF FieldsInv, HonestLoading, Top
  <2>. HIDE DEF f
  <2>4. honest => HonestLoading(stack', cache', included', parameters, reg, Sent)
    <3>. SUFFICES ASSUME honest PROVE HonestLoading(stack', cache', included', parameters, reg, Sent)
      OBVIOUS
    <3>1. \A i \in 1..Len(stack') : FrameHonest(stack'[i], parameters, reg, Sent)
      <4>1. /\ Len(stack') = Len(stack) - 1
            /\ \A i \in 1..(Len(stack) - 1) : stack'[i] = stack[i]
        <5>1. stack \in Seq(ToSet(stack)) /\ Len(stack) > 0
          BY <1>1, <1>2 DEF TypeInv, Frames
        <5>. QED BY <2>1, <5>1, FrontIs
      <4>2. \A i \in 1..Len(stack') : i \in 1..(Len(stack) - 1) /\ i \in 1..Len(stack)
        BY <1>2, <4>1
      <4>. QED BY <2>3, <4>1, <4>2 DEF HonestLoading
    <3>2. CacheHonest(cache, parameters.fields, reg, Sent) /\ IncludedWhole(cache, included, parameters, reg)
      BY <2>3 DEF HonestLoading
    <3>3. AllHonest(f.records, parameters.fields, reg, Sent) /\ f.schema \in parameters.models
      BY <2>3 DEF FrameHonest
    <3>4. /\ CacheHonest(cache', parameters.fields, reg, Sent)
          /\ \A key \in DOMAIN cache : Extends(cache'[key], cache[key])
          /\ \A x \in ToSet(f.records) : Extends(cache'[Identifier(x)], x)
      BY <2>1, <2>2, <3>2, <3>3, MergeAllIsHonest
    <3>5. ASSUME NEW key \in included'
          PROVE  cache'[key].kind \in parameters.models /\ Whole(cache'[key], parameters.fields, reg)
      <4>1. CASE key \in included
        <5>1. Extends(cache'[key], cache[key]) /\ cache[key].kind \in parameters.models
              /\ Whole(cache[key], parameters.fields, reg)
          BY <2>2, <3>2, <3>4, <4>1 DEF IncludedWhole
        <5>2. cache'[key].kind = cache[key].kind
          BY <5>1 DEF Extends
        <5>. QED BY <5>1, <5>2, WholeStays
      <4>2. CASE key \notin included
        <5>1. PICK x \in ToSet(f.records) : key = Identifier(x)
          BY <2>1, <4>2 DEF Identifiers
        <5>2. PICK i \in 1..Len(f.records) : x = f.records[i]
          BY <2>2 DEF Records, ToSet
        <5>3. x.kind = f.schema
          BY <2>2, <5>2 DEF Records, IsRecord
        <5>4. Whole(x, parameters.fields, reg)
          BY <2>2, <2>3, <5>2 DEF FrameHonest, AllOwing, Whole
        <5>5. Extends(cache'[key], x)
          BY <3>4, <5>1
        <5>6. cache'[key].kind = x.kind
          BY <5>5 DEF Extends
        <5>. QED BY <3>3, <5>3, <5>4, <5>5, <5>6, WholeStays
      <4>. QED BY <4>1, <4>2
    <3>. QED BY <3>1, <3>4, <3>5 DEF HonestLoading, IncludedWhole
  <2>. QED BY <1>1, <2>1, <2>4, StepIsHonest DEF Loading
<1>. QED BY <1>3, <1>4

\* An answer starts the loader on records as honest as they were read.
LEMMA LoadAnswerHonest ==
    ASSUME TypeInv, Consistent(schemas), UNCHANGED input, NEW answer, NEW p,
           AnswerIs(Target, answer, p.fields), LoadAnswer(Target, answer, p, "loading"),
           request.kind # "linkage" => ParsedIs(p, request.query, Target, reg)
    PROVE  FieldsInv'
<1>1. CASE answer.error # "none"
  BY <1>1, RefuseIsHonest DEF LoadAnswer
<1>2. CASE answer.error = "none"
  <2>1. PICK rows : rows \in Seq(ToSet(rows)) /\ answer.rows = Selected(rows, ColumnsFor(Target, p.fields))
    BY <1>2 DEF AnswerIs
  <2>2. phase' = "loading" /\ parameters' = p /\ StartLoading(Target, Reads(Target, rows, p.fields), p)
    BY <1>2, <2>1 DEF LoadAnswer, Reads
  <2>3. /\ Target.name \in DOMAIN reg /\ reg[Target.name] = Target /\ Closed(reg)
    BY TargetsAre, RegistryIsClosed DEF TypeInv
  <2>. DEFINE xs == Reads(Target, rows, p.fields)
  <2>4. Records(xs, Target.name)
    BY <2>1, ReadsAre
  <2>5. AllHonest(xs, p.fields, reg, Sent)
    <3>1. CollectionIs(Target, xs, p.fields)
      BY <1>2, <2>1 DEF CollectionIs, AnswerIs
    <3>. QED BY <2>3, <3>1, ReadsAreHonest
  <2>. HIDE DEF xs
  <2>6. ASSUME request.kind # "linkage"
        PROVE  HonestLoading(stack', cache', included', p, reg, Sent) /\ ParsedIs(p, request.query, Target, reg)
    <3>1. Target.name \in p.models /\ PathsIn(p.include, Target, reg, p.models)
      BY <2>6 DEF ParsedIs, Reading
    <3>2. StartLoading(Target, xs, p)
      BY <2>2 DEF xs
    <3>. QED BY <2>3, <2>4, <2>5, <2>6, <3>1, <3>2, StartIsHonest
  <2>7. UNCHANGED <<request, reg, Target, Sent>> /\ FieldsetsAreHonoured'
    BY <2>2, InputStays, UnfinishedIsHonest
  <2>. QED BY <2>2, <2>6, <2>7 DEF FieldsInv
<1>. QED BY <1>1, <1>2

LEMMA ParseQueryHonest == ASSUME TypeInv, FieldsInv, ParseQuery PROVE FieldsInv'
<1>. DEFINE p == Parse(request.query, Target, reg)
<1>1. UNCHANGED input /\ phase = "parsing" /\ Consistent(schemas) /\ Given
  BY DEF ParseQuery, TypeInv
<1>2. CASE p.error # "none"
  BY <1>1, <1>2, RefuseIsHonest DEF ParseQuery
<1>3. CASE p.error = "none"
  <2>1. phase' = "querying" /\ parameters' = p
    BY <1>3 DEF ParseQuery
  <2>2. Closed(reg) /\ Target.name \in DOMAIN reg /\ Split(request.query)
    BY <1>1, RegistryIsClosed, TargetsAre DEF Given
  <2>3. ParsedIs(p, request.query, Target, reg)
    BY <1>3, <2>2, ParseIs
  <2>. HIDE DEF p
  <2>4. UNCHANGED <<request, reg, Target, Sent>> /\ FieldsetsAreHonoured'
    BY <1>1, <2>1, InputStays, UnfinishedIsHonest
  <2>. QED BY <2>1, <2>3, <2>4 DEF FieldsInv
<1>. QED BY <1>2, <1>3

\* The condition on the join key leaves the rest of the query as it was parsed.
LEMMA ScopedIsParsed ==
    ASSUME NEW p, NEW query, NEW s, NEW byName, ParsedIs(p, query, s, byName), NEW column, NEW value
    PROVE  ParsedIs(Scoped(p, column, value), query, s, byName)
<1>. DEFINE q == Scoped(p, column, value)
<1>1. PICK filter : q = [p EXCEPT !.filter = filter]
  BY DEF Scoped
<1>2. DOMAIN p = {"schema", "fields", "include", "filter", "search", "sort", "page", "models", "error"}
  BY DEF ParsedIs, Reading, Complete
<1>. HIDE DEF q
<1>3. /\ DOMAIN q = DOMAIN p /\ q.fields = p.fields /\ q.include = p.include /\ q.models = p.models
      /\ q.page = p.page /\ q.sort = p.sort
  BY <1>1, <1>2
<1>4. ParsedIs(q, query, s, byName)
  BY <1>3 DEF ParsedIs, Reading, Complete
<1>. QED BY <1>4 DEF q

LEMMA FetchRelatedHonest ==
    ASSUME TypeInv, UNCHANGED input, Consistent(schemas), NEW p, Complete(p), NEW way,
           request.kind # "linkage" => ParsedIs(p, request.query, Target, reg), FetchedBy(p, way)
    PROVE  FieldsInv'
<1>. DEFINE value == Owned(Schema, parent, Descriptor.own)
            scoped == Scoped(p, Descriptor.related, value)
            answer == Query(Target, scoped, db[Target.name], way)
<1>1. CASE ~ Has(Schema, parent, Descriptor.own)
  BY <1>1, RefuseIsHonest DEF FetchedBy
<1>2. CASE Has(Schema, parent, Descriptor.own)
  <2>1. CASE value = Null
    <3>1. phase' = "done" /\ reply' = Document(<<>>, {})
      BY <1>2, <2>1 DEF FetchedBy, Respond
    <3>2. ShownResources' = {}
      BY <3>1 DEF ShownResources, Document, ToSet
    <3>3. FieldsetsAreHonoured'
      BY <3>2 DEF FieldsetsAreHonoured
    <3>. QED BY <3>1, <3>3 DEF FieldsInv
  <2>2. CASE value # Null
    <3>1. LoadAnswer(Target, answer, scoped, "loading")
      BY <1>2, <2>2 DEF FetchedBy
    <3>2. request.kind # "linkage" => ParsedIs(scoped, request.query, Target, reg)
      BY ScopedIsParsed
    <3>3. Complete(scoped)
      BY DEF Scoped, Complete
    <3>4. Target.name \in DOMAIN reg /\ reg[Target.name] = Target /\ Target \in ToSet(schemas)
      BY TargetsAre DEF TypeInv
    <3>. HIDE DEF scoped
    <3>5. AnswerIs(Target, answer, scoped.fields)
      <4>1. IsFiniteSet(db[Target.name])
        BY <3>4 DEF TypeInv, Stored
      <4>. QED BY <3>3, <4>1, QueryIs DEF Complete
    <3>. HIDE DEF answer
    <3>. QED BY <3>1, <3>2, <3>5, LoadAnswerHonest
  <2>. QED BY <2>1, <2>2
<1>. QED BY <1>1, <1>2

\* The records of a batch come back with the columns asked for, and the linkage
\* they were sent with.
LEMMA RefreshedAreHonest ==
    ASSUME NEW byName, NEW s, s.name \in DOMAIN byName, byName[s.name] = s, NEW fields, ~ FieldsPanic(s, fields),
           NEW records, NEW stored, stored \in Seq(ToSet(stored)), NEW sent,
           \A i \in 1..Len(stored) : DOMAIN records[i].relationships \subseteq sent
    PROVE  AllHonest(Refreshed(s, records, Selected(stored, ColumnsFor(s, fields))), fields, byName, sent)
<1>. DEFINE columns == ColumnsFor(s, fields)
            xs == Refreshed(s, records, Selected(stored, columns))
<1>. DEFINE n == Len(stored)
            at(i) == [FromRow(s, Restrict(stored[i], columns)) EXCEPT !.relationships = records[i].relationships]
<1>1. n \in Nat /\ xs = [i \in 1..n |-> at(i)]
  <2>1. n \in Nat /\ DOMAIN stored = 1..n
    OBVIOUS
  <2>. HIDE DEF columns, n
  <2>. QED BY <2>1 DEF Refreshed, Selected
<1>. HIDE DEF xs, at, n
<1>3. DOMAIN xs = 1..n /\ xs = [i \in 1..n |-> xs[i]] /\ \A i \in 1..n : xs[i] = at(i)
  BY <1>1
<1>4. xs \in Seq(ToSet(xs)) /\ Len(xs) = n
  BY <1>1, <1>3, FunctionIsSequence
<1>. HIDE DEF xs
<1>2. ASSUME NEW i \in 1..Len(stored) PROVE Honest(xs[i], fields, byName, sent)
  <2>. DEFINE x == FromRow(s, Restrict(stored[i], columns))
              y == xs[i]
  <2>1. /\ DOMAIN x = {"kind", "id", "columns", "relationships"} /\ x.kind = s.name
        /\ DOMAIN x.columns = columns \ {s.key.name}
    <3>. HIDE DEF columns
    <3>. QED BY DEF FromRow, Restrict
  <2>2. y = [x EXCEPT !.relationships = records[i].relationships]
    BY <1>3 DEF at, n
  <2>. HIDE DEF x, y
  <2>3. y.kind = s.name /\ DOMAIN y.columns = columns \ {s.key.name} /\ DOMAIN y.relationships \subseteq sent
    BY <2>1, <2>2
  <2>4. Honest(y, fields, byName, sent)
    BY <2>3 DEF Honest
  <2>. QED BY <2>4 DEF y
<1>. QED BY <1>2, <1>3, <1>4 DEF AllHonest, xs, n

LEMMA CreateHonest ==
    ASSUME TypeInv, FieldsInv, UNCHANGED input, phase = "querying", CreateCollection
    PROVE  FieldsInv'
<1>. DEFINE records == request.batch
<1>1. /\ Consistent(schemas) /\ Given /\ request.kind = "create" /\ Target = Schema
      /\ ParsedIs(parameters, request.query, Target, reg)
  BY DEF TypeInv, CreateCollection, Target, FieldsInv
<1>2. ASSUME NEW error, Refuse(error) PROVE FieldsInv'
  BY <1>2, RefuseIsHonest
<1>3. ASSUME NEW setters, Stores(setters) PROVE FieldsInv'
  <2>0. InsertFault(Schema, RowsOf(Schema, records, setters), parameters.fields, reg, db) = "none"
    BY <1>3 DEF Stores
  <2>1. PICK stored :
          /\ stored \in Seq(ToSet(stored)) /\ Len(stored) = Len(records)
          /\ phase' = "loading" /\ UNCHANGED <<parameters, parent, reply>>
          /\ StartLoading(Schema, Refreshed(Schema, records, Selected(stored, ColumnsFor(Schema, parameters.fields))),
                          parameters)
    BY <1>3 DEF Stores
  <2>2. ~ FieldsPanic(Schema, parameters.fields)
    BY <2>0 DEF InsertFault
  <2>. DEFINE xs == Refreshed(Schema, records, Selected(stored, ColumnsFor(Schema, parameters.fields)))
  <2>3. phase' = "loading" /\ StartLoading(Schema, xs, parameters) /\ UNCHANGED parameters
    BY <2>1
  <2>4. /\ Schema.name \in DOMAIN reg /\ reg[Schema.name] = Schema /\ Closed(reg)
    BY <1>1, TargetsAre, RegistryIsClosed
  <2>5. Records(xs, Schema.name)
    BY <2>1, RefreshedIs
  <2>6. AllHonest(xs, parameters.fields, reg, Sent)
    <3>1. \A i \in DOMAIN records : DOMAIN records[i].relationships \subseteq Sent
      BY <1>1 DEF Sent
    <3>2. \A i \in 1..Len(stored) : DOMAIN records[i].relationships \subseteq Sent
      <4>1. DOMAIN records = 1..Len(records)
        BY <1>1, SequenceIs DEF Given
      <4>. QED BY <2>1, <3>1, <4>1
    <3>. QED BY <2>1, <2>2, <2>4, <3>2, RefreshedAreHonest
  <2>. HIDE DEF xs
  <2>7. Schema.name \in parameters.models /\ PathsIn(parameters.include, Schema, reg, parameters.models)
    BY <1>1 DEF ParsedIs, Reading
  <2>8. HonestLoading(stack', cache', included', parameters, reg, Sent)
    BY <2>3, <2>4, <2>5, <2>6, <2>7, StartIsHonest
  <2>9. UNCHANGED <<request, reg, Target, Sent>> /\ FieldsetsAreHonoured'
    BY <2>3, InputStays, UnfinishedIsHonest
  <2>. QED BY <1>1, <2>3, <2>8, <2>9 DEF FieldsInv
<1>. QED BY <1>1, <1>2, <1>3, CreateIs DEF Rejects

LEMMA FetchHonest == ASSUME TypeInv, FieldsInv, Fetch PROVE FieldsInv'
<1>1. /\ UNCHANGED input /\ phase = "querying" /\ Consistent(schemas) /\ Given /\ Complete(parameters)
      /\ request.kind # "linkage" => ParsedIs(parameters, request.query, Target, reg)
  BY DEF Fetch, TypeInv, FieldsInv
<1>2. Schema.name \in DOMAIN reg /\ reg[Schema.name] = Schema /\ IsFiniteSet(db[Schema.name])
  BY <1>1, TargetsAre DEF TypeInv, Stored
<1>3. CASE FetchCollection
  <2>1. PICK way \in Ways(Schema, parameters, db[Schema.name]) :
          LoadAnswer(Schema, Query(Schema, parameters, db[Schema.name], way), parameters, "loading")
    BY <1>3 DEF FetchCollection
  <2>. DEFINE answer == Query(Schema, parameters, db[Schema.name], way)
  <2>2. AnswerIs(Schema, answer, parameters.fields)
    BY <1>1, <1>2, QueryIs DEF Complete
  <2>3. Target = Schema
    BY <1>3 DEF FetchCollection, Target
  <2>4. LoadAnswer(Target, answer, parameters, "loading")
    BY <2>1, <2>3
  <2>. HIDE DEF answer
  <2>. QED BY <1>1, <2>2, <2>3, <2>4, LoadAnswerHonest
<1>4. CASE FetchRecord
  <2>. DEFINE answer == Find(Schema, request.id, parameters.fields, db[Schema.name])
  <2>1. LoadAnswer(Schema, answer, parameters, "loading")
    BY <1>4 DEF FetchRecord
  <2>2. AnswerIs(Schema, answer, parameters.fields)
    BY FindIs
  <2>3. Target = Schema
    BY <1>4 DEF FetchRecord, Target
  <2>. HIDE DEF answer
  <2>. QED BY <1>1, <2>1, <2>2, <2>3, LoadAnswerHonest
<1>5. CASE FetchRelatedRecords
  BY <1>1, <1>5, FetchedIs, FetchRelatedHonest DEF FetchRelatedRecords
<1>6. CASE PeekRelated
  <2>. DEFINE p == Asking(Target, reg, Put(<<>>, Target.name, {}))
  <2>1. Complete(p)
    BY DEF Asking, New, Blank, Complete, PageIs
  <2>2. FetchRelated(p) /\ request.kind = "linkage"
    BY <1>6 DEF PeekRelated
  <2>. HIDE DEF p
  <2>. QED BY <1>1, <2>1, <2>2, FetchedIs, FetchRelatedHonest
<1>7. CASE CreateCollection
  BY <1>1, <1>7, CreateHonest
<1>. QED BY <1>1, <1>3, <1>4, <1>5, <1>6, <1>7 DEF Fetch

-----------------------------------------------------------------------------
(* What the fieldsets of a parsed query say of a model that is served. *)

Wanted(s) == IF Pinned(s) THEN Asked(s) ELSE Fields(s)

\* A model is asked for what the client wanted of it, and for the columns that
\* served models join it by.
Serves(fields, s) ==
  /\ s.name \in DOMAIN fields
  /\ Wanted(s) \subseteq fields[s.name] \cap Fields(s)
  /\ \A f \in fields[s.name] : f \in Wanted(s) \/ (f \in JoinColumns(s) /\ f \in Columns(s))

LEMMA AskedInFull ==
    ASSUME Split(request.query), NEW s
    PROVE  LET query == request.query
           IN /\ (Pinned(s) <=> s.name \in PinnedBy(query, Len(query)))
              /\ Asked(s) = AskedOf(query, Len(query), s.name)
<1>. DEFINE query == request.query
            n == Len(query)
<1>1. DOMAIN query = 1..n
  BY SequenceIs DEF Split
<1>. HIDE DEF n
<1>2. Pinned(s) <=> s.name \in PinnedBy(query, n)
  BY <1>1 DEF Pinned, PinnedBy, AskingFor
<1>3. Asked(s) = AskedOf(query, n, s.name)
  <2>1. {j \in DOMAIN query : query[j].key = "fields" /\ query[j].on = s.name}
          = {k \in AskingFor(query, n) : query[k].on = s.name}
    BY <1>1 DEF AskingFor
  <2>. QED BY <2>1 DEF Asked, AskedOf
<1>. QED BY <1>2, <1>3 DEF n

LEMMA ServedFields ==
    ASSUME Closed(reg), Split(request.query), NEW p, NEW target, ParsedIs(p, request.query, target, reg),
           NEW s, s.name \in p.models, reg[s.name] = s
    PROVE  Serves(p.fields, s)
<1>. DEFINE query == request.query
            n == Len(query)
            m == s.name
            models == p.models
<1>1. models \subseteq DOMAIN reg
  BY DEF ParsedIs, Reading
<1>2. PICK fields : FieldsRead(fields, query, reg, n) /\ p.fields = DiscoverFields(fields, models, reg)
  BY DEF ParsedIs
<1>. DEFINE pinned == Over(fields, [k \in models |-> Fields(reg[k])])
            joins == UNION {Relationships(reg[k]) : k \in models}
            joined == {r.related : r \in {j \in joins : j.resource = m}}
<1>3. m \in DOMAIN p.fields /\ p.fields[m] = FieldsOf(pinned, m) \cup joined
  <2>1. m \in DOMAIN pinned
    BY DEF Over
  <2>2. p.fields = [k \in DOMAIN pinned \cup {r.resource : r \in joins} |->
                      FieldsOf(pinned, k) \cup {r.related : r \in {j \in joins : j.resource = k}}]
    BY <1>2 DEF DiscoverFields
  <2>. HIDE DEF pinned, joins, m
  <2>. QED BY <2>1, <2>2
<1>4. FieldsOf(pinned, m) = Wanted(s)
  <2>1. FieldsOf(pinned, m) = IF m \in DOMAIN fields THEN fields[m] ELSE Fields(s)
    BY DEF FieldsOf, Over
  <2>2. (Pinned(s) <=> m \in DOMAIN fields) /\ Asked(s) = AskedOf(query, n, m)
    <3>1. DOMAIN fields = PinnedBy(query, n)
      BY <1>2 DEF FieldsRead
    <3>. QED BY <3>1, AskedInFull
  <2>3. m \in DOMAIN fields => fields[m] = AskedOf(query, n, m)
    BY <1>2 DEF FieldsRead
  <2>. HIDE DEF pinned, n, query
  <2>. QED BY <2>1, <2>2, <2>3 DEF Wanted
<1>. HIDE DEF pinned
<1>5. ASSUME NEW f \in joined PROVE f \in JoinColumns(s) /\ f \in Columns(s)
  <2>1. PICK k \in models : \E r \in Relationships(reg[k]) : r.resource = m /\ f = r.related
    BY <1>5
  <2>2. PICK r \in Relationships(reg[k]) : r.resource = m /\ f = r.related
    BY <2>1
  <2>3. f \in JoinColumns(s)
    <3>1. k \in DOMAIN reg /\ f \in {q.related : q \in {e \in Relationships(reg[k]) : e.resource = s.name}}
      BY <1>1, <2>1, <2>2
    <3>. QED BY <3>1, Zenon DEF JoinColumns
  <2>4. ValidRelationship(reg[k], r, reg)
    BY <1>1, <2>1, <2>2 DEF Closed
  <2>5. f \in Columns(s)
    BY <2>2, <2>4 DEF ValidRelationship, Referenced, Columns
  <2>. QED BY <2>3, <2>5
<1>6. Wanted(s) \subseteq Fields(s)
  <2>1. Pinned(s) => m \in DOMAIN fields /\ Asked(s) = fields[m]
    BY <1>2, AskedInFull DEF FieldsRead
  <2>2. m \in DOMAIN fields => fields[m] \subseteq Fields(s)
    BY <1>2 DEF FieldsRead
  <2>. QED BY <2>1, <2>2 DEF Wanted
<1>. QED BY <1>3, <1>4, <1>5, <1>6 DEF Serves

\* What a record was asked for is what its resource shows.
ResourceHonoured(x) ==
  LET s == reg[x.kind] IN
  /\ Wanted(s) \ TakenForColumn(s) \subseteq DOMAIN x.attributes \cup DOMAIN x.relationships
  /\ DOMAIN x.attributes \subseteq Wanted(s) \cup JoinColumns(s)
  /\ DOMAIN x.relationships \subseteq Wanted(s) \cup JoinColumns(s) \cup Sent

LEMMA ServedResource ==
    ASSUME Closed(reg), NEW fields, NEW x, Honest(x, fields, reg, Sent), Whole(x, fields, reg),
           Serves(fields, reg[x.kind])
    PROVE  ResourceHonoured(Resource(x))
<1>. DEFINE s == reg[x.kind]
            y == Resource(x)
            columns == ColumnsFor(s, fields)
<1>1. /\ x.kind \in DOMAIN reg /\ s.name = x.kind /\ ~ FieldsPanic(s, fields)
      /\ DOMAIN x.columns = columns \ {s.key.name}
      /\ DOMAIN x.relationships \subseteq fields[s.name] \cup Sent
  BY DEF Honest, Closed
<1>2. Declarable(s) /\ ValidSchema(s)
  BY <1>1 DEF Closed
<1>3. /\ y.kind = x.kind /\ y.relationships = x.relationships
      /\ DOMAIN y.attributes = DOMAIN x.columns \cap Attributes(s)
  BY DEF Resource, Restrict
<1>4. Wanted(s) \subseteq Fields(s)
  BY <1>1 DEF Serves
<1>5. \A r \in Relationships(s) :
        IsRequested(fields, s.name, r.name) /\ Has(s, x, r.own) => r.name \in DOMAIN x.relationships
  BY <1>1 DEF Whole, Owing, ToSet
<1>. HIDE DEF s, y, columns
<1>6. ASSUME NEW f \in Wanted(s) \ TakenForColumn(s)
      PROVE  f \in DOMAIN y.attributes \cup DOMAIN y.relationships
  <2>1. f \in fields[s.name] /\ s.name \in DOMAIN fields
    BY <1>6 DEF Serves, s
  <2>2. CASE f \in Attributes(s)
    <3>1. f \in columns /\ f # s.key.name
      BY <1>2, <2>1, <2>2 DEF columns, ColumnsFor, Columns, ValidSchema
    <3>. QED BY <1>1, <1>3, <2>2, <3>1
  <2>3. CASE f \in RelationshipNames(s)
    <3>. DEFINE r == Relationship(s, f)
    <3>1. r \in Relationships(s) /\ r.name = f
      BY <1>2, <2>3, RelationshipIs
    <3>2. r.own = s.key.name \/ r.own \in columns
      <4>1. CASE f \in Columns(s)
        <5>1. f \in columns
          BY <2>1, <4>1 DEF columns, ColumnsFor
        <5>2. r.own \in {f, s.key.name}
          BY <1>6, <3>1, <4>1 DEF TakenForColumn
        <5>. QED BY <5>1, <5>2
      <4>2. CASE f \notin Columns(s)
        BY <2>1, <4>2 DEF columns, ColumnsFor
      <4>. QED BY <4>1, <4>2
    <3>3. Has(s, x, r.own)
      BY <1>1, <3>2 DEF Has
    <3>4. IsRequested(fields, s.name, r.name)
      BY <2>1, <3>1 DEF IsRequested, FieldsOf
    <3>. HIDE DEF r
    <3>. QED BY <1>3, <1>5, <3>1, <3>3, <3>4
  <2>. QED BY <1>4, <1>6, <2>2, <2>3 DEF Fields
<1>7. ASSUME NEW a \in DOMAIN y.attributes PROVE a \in Wanted(s) \cup JoinColumns(s)
  <2>1. a \in columns /\ a # s.key.name /\ a \in Attributes(s)
    BY <1>1, <1>3, <1>7
  <2>2. PICK f \in fields[s.name] : a = IF f \in Columns(s) THEN f ELSE Relationship(s, f).own
    BY <2>1 DEF columns, ColumnsFor
  <2>3. f \in Wanted(s) \/ (f \in JoinColumns(s) /\ f \in Columns(s))
    BY <2>2 DEF Serves, s
  <2>4. CASE f \in Columns(s)
    BY <2>2, <2>3, <2>4
  <2>5. CASE f \notin Columns(s) /\ ~ Pinned(s)
    BY <2>1, <2>5 DEF Wanted, Fields
  <2>6. CASE f \notin Columns(s) /\ Pinned(s)
    <3>1. f \in RelationshipNames(s) /\ f \in Asked(s)
      BY <1>1, <2>2, <2>3, <2>6 DEF FieldsPanic, Wanted
    <3>2. Relationship(s, f) \in Relationships(s) /\ Relationship(s, f).name = f
      BY <1>2, <3>1, RelationshipIs
    <3>4. Relationship(s, f).own \in JoinColumns(s)
      BY <3>1, <3>2 DEF JoinColumns
    <3>. QED BY <2>2, <2>6, <3>4
  <2>. QED BY <2>4, <2>5, <2>6
<1>8. DOMAIN y.relationships \subseteq Wanted(s) \cup JoinColumns(s) \cup Sent
  BY <1>1, <1>3 DEF Serves, s
<1>9. reg[y.kind] = s
  BY <1>3 DEF s
<1>. QED BY <1>6, <1>7, <1>8, <1>9 DEF ResourceHonoured, y

-----------------------------------------------------------------------------
(* The document. *)

LEMMA HonouredAnswer ==
    ASSUME UNCHANGED input, \A x \in ShownResources' : ResourceHonoured(x)
    PROVE  FieldsetsAreHonoured'
<1>1. UNCHANGED <<request, reg, Sent>>
  BY InputStays
<1>2. ASSUME NEW s
      PROVE  UNCHANGED <<Wanted(s), JoinColumns(s), TakenForColumn(s)>>
  BY <1>1 DEF Wanted, Pinned, Asked, JoinColumns, TakenForColumn
<1>3. ASSUME NEW x \in ShownResources'
      PROVE  LET s == reg[x.kind]
                 wanted == IF Pinned(s) THEN Asked(s) ELSE Fields(s)
             IN (/\ wanted \ TakenForColumn(s) \subseteq DOMAIN x.attributes \cup DOMAIN x.relationships
                 /\ DOMAIN x.attributes \subseteq wanted \cup JoinColumns(s)
                 /\ DOMAIN x.relationships \subseteq wanted \cup JoinColumns(s) \cup Sent)'
  BY <1>1, <1>2, <1>3 DEF ResourceHonoured, Wanted
<1>. QED BY <1>3 DEF FieldsetsAreHonoured

\* A record that the loader is done with.
Done(x) == x.kind \in parameters.models /\ Honest(x, parameters.fields, reg, Sent) /\ Whole(x, parameters.fields, reg)

LEMMA DoneIsHonoured ==
    ASSUME Given, Closed(reg), ParsedIs(parameters, request.query, Target, reg), NEW x, Done(x)
    PROVE  ResourceHonoured(Resource(x))
<1>. DEFINE s == reg[x.kind]
<1>1. s.name \in parameters.models /\ reg[s.name] = s
  BY DEF Done, Honest, Closed
<1>2. Serves(parameters.fields, s)
  BY <1>1, ServedFields DEF Given
<1>. QED BY <1>2, ServedResource DEF Done

LEMMA FinishHonest == ASSUME TypeInv, FieldsInv, Finish PROVE FieldsInv'
<1>1. /\ UNCHANGED input /\ phase = "loading" /\ Loading /\ Len(stack) = 1 /\ Top.pending = <<>>
      /\ Consistent(schemas) /\ Given
  BY DEF Finish, CollectionLoaded, TypeInv, Loading
<1>2. CASE TooMany
  BY <1>1, <1>2, RefuseIsHonest DEF Finish
<1>3. CASE ~ TooMany
  <2>. DEFINE Shape(x) == IF request.kind = "linkage" THEN Bare(x) ELSE Resource(x)
              f == Top
              primary == [i \in DOMAIN f.records |-> Shape(f.records[i])]
  <2>1. phase' = "done" /\ reply' = Document(primary, {Resource(x) : x \in Included})
    BY <1>3 DEF Finish, Respond
  <2>2. CASE request.kind = "linkage"
    <3>1. UNCHANGED request
      BY <1>1 DEF input
    <3>2. FieldsetsAreHonoured'
      BY <2>2, <3>1 DEF FieldsetsAreHonoured, WithRecords
    <3>. QED BY <2>1, <3>2 DEF FieldsInv
  <2>3. CASE request.kind # "linkage"
    <3>1. HonestLoading(stack, cache, included, parameters, reg, Sent) /\ ParsedIs(parameters, request.query, Target, reg)
      BY <1>1, <2>3 DEF FieldsInv
    <3>2. Closed(reg) /\ IsFrame(f)
      BY <1>1, TopIs
    <3>3. FrameHonest(f, parameters, reg, Sent) /\ f.pending = <<>>
      <4>1. f = stack[1] /\ 1 \in 1..Len(stack)
        BY <1>1 DEF Top
      <4>. QED BY <1>1, <3>1, <4>1 DEF HonestLoading
    <3>. HIDE DEF f
    <3>4. ASSUME NEW i \in DOMAIN f.records PROVE Done(f.records[i])
      <4>1. i \in 1..Len(f.records) /\ f.records[i].kind = f.schema
        BY <3>2 DEF IsFrame, Records, IsRecord
      <4>. QED BY <3>3, <4>1 DEF FrameHonest, AllHonest, AllOwing, Whole, Done
    <3>5. ASSUME NEW x \in Included PROVE Done(x)
      <4>1. PICK key \in included \cap DOMAIN cache : x = cache[key]
        BY <3>5 DEF Included
      <4>. QED BY <3>1, <4>1 DEF HonestLoading, CacheHonest, IncludedWhole, Done
    <3>6. ShownResources' = {Resource(f.records[i]) : i \in DOMAIN f.records} \cup {Resource(x) : x \in Included}
      <4>1. reply'.primary = primary /\ reply'.included = {Resource(x) : x \in Included}
        BY <2>1 DEF Document
      <4>2. ToSet(primary) = {Resource(f.records[i]) : i \in DOMAIN f.records}
        BY <2>3 DEF ToSet
      <4>. QED BY <4>1, <4>2 DEF ShownResources
    <3>7. \A x \in ShownResources' : ResourceHonoured(x)
      BY <1>1, <3>1, <3>2, <3>4, <3>5, <3>6, DoneIsHonoured
    <3>8. FieldsetsAreHonoured'
      BY <1>1, <3>7, HonouredAnswer
    <3>. QED BY <2>1, <3>8 DEF FieldsInv
  <2>. QED BY <2>2, <2>3
<1>. QED BY <1>2, <1>3

-----------------------------------------------------------------------------

LEMMA InitHonest == Init => FieldsInv
<1>. SUFFICES ASSUME Init PROVE FieldsInv
  OBVIOUS
<1>1. phase = "declared"
  BY Zenon DEF Init
<1>. QED BY <1>1 DEF FieldsInv, FieldsetsAreHonoured, WithRecords, Answered

\* Before the primary fetch nothing is known of the fields yet.
LEMMA EarlyIsHonest == ASSUME phase' \in {"declared", "parent", "loading parent", "parsing"} PROVE FieldsInv'
<1>1. FieldsetsAreHonoured'
  BY UnfinishedIsHonest
<1>. QED BY <1>1 DEF FieldsInv

LEMMA FieldsNext == TypeInv /\ FieldsInv /\ [Next]_vars => FieldsInv'
<1>. SUFFICES ASSUME TypeInv, FieldsInv, [Next]_vars PROVE FieldsInv'
  OBVIOUS
<1>1. CASE TryBuild
  <2>1. CASE ~ Consistent(schemas)
    BY <1>1, <2>1, RefuseIsHonest DEF TryBuild
  <2>2. CASE Consistent(schemas)
    BY <1>1, <2>2, EarlyIsHonest DEF TryBuild
  <2>. QED BY <2>1, <2>2
<1>2. CASE FetchParent
  <2>1. PICK s, answer, p : LoadAnswer(s, answer, p, "loading parent")
    BY <1>2, Zenon DEF FetchParent
  <2>2. CASE answer.error # "none"
    BY <2>1, <2>2, RefuseIsHonest DEF LoadAnswer
  <2>3. CASE answer.error = "none"
    BY <2>1, <2>3, EarlyIsHonest DEF LoadAnswer
  <2>. QED BY <2>2, <2>3
<1>3. CASE ParseQuery
  BY <1>3, ParseQueryHonest
<1>4. CASE Fetch
  BY <1>4, FetchHonest
<1>5. CASE LoadRelationship
  BY <1>5, LoadRelationshipHonest
<1>6. CASE Return
  BY <1>6, ReturnHonest
<1>7. CASE FinishParent
  <2>1. CASE request.kind = "linkage"
    <3>1. UNCHANGED request /\ phase' = "querying"
      BY <1>7, <2>1 DEF FinishParent, input
    <3>2. FieldsetsAreHonoured'
      BY <3>1, UnfinishedIsHonest
    <3>. QED BY <2>1, <3>1, <3>2 DEF FieldsInv
  <2>2. CASE request.kind # "linkage"
    BY <1>7, <2>2, EarlyIsHonest DEF FinishParent
  <2>. QED BY <2>1, <2>2
<1>8. CASE Finish
  BY <1>8, FinishHonest
<1>9. CASE UNCHANGED vars
  <2>1. UNCHANGED <<input, phase, parameters, stack, cache, included, reply>>
    BY <1>9 DEF vars, input
  <2>2. UNCHANGED <<request, reg, Target, Sent>>
    BY <2>1, InputStays
  <2>3. FieldsetsAreHonoured'
    <3>1. WithRecords' = WithRecords /\ ShownResources' = ShownResources
      BY <2>1, <2>2 DEF WithRecords, Answered, ShownResources
    <3>2. WithRecords => \A x \in ShownResources : ResourceHonoured(x)
      BY DEF FieldsInv, FieldsetsAreHonoured, ResourceHonoured, Wanted
    <3>3. CASE WithRecords
      BY <2>1, <3>1, <3>2, <3>3, HonouredAnswer
    <3>4. CASE ~ WithRecords
      BY <3>1, <3>4 DEF FieldsetsAreHonoured
    <3>. QED BY <3>3, <3>4
  <2>. QED BY <2>1, <2>2, <2>3 DEF FieldsInv
<1>. QED BY <1>1, <1>2, <1>3, <1>4, <1>5, <1>6, <1>7, <1>8, <1>9 DEF Next

\* Sparse fieldsets (serialisation/factories.rs, database/query_parameters.rs and
\* data_loader.rs): whatever is declared, stored, asked and sent, each resource
\* of a document has the fields its client named for its type, or all of them,
\* and beyond them only join columns and the linkage that the client sent.
THEOREM FieldsetsHonoured == Spec => []FieldsetsAreHonoured
<1>1. Init => TypeInv /\ FieldsInv
  BY TypeInit, InitHonest
<1>2. TypeInv /\ FieldsInv /\ [Next]_vars => (TypeInv /\ FieldsInv)'
  BY TypeNext, FieldsNext
<1>3. TypeInv /\ FieldsInv => FieldsetsAreHonoured
  BY DEF FieldsInv
<1>. QED BY <1>1, <1>2, <1>3, PTL DEF Spec

-----------------------------------------------------------------------------
(* ORDER BY: the attributes of the sort in turn, then the key. *)

\* What a row weighs in a place of the sort.
Weight(sort, x, i) ==
  IF sort[i].descending THEN 0 - Rank(x[sort[i].attribute]) ELSE Rank(x[sort[i].attribute])

AgreeUpTo(sort, x, y, m) == \A j \in 1..m : Weight(sort, x, j) = Weight(sort, y, j)

Lighter(s, sort, x, y) ==
  \/ \E m \in 1..Len(sort) : Weight(sort, x, m) < Weight(sort, y, m) /\ AgreeUpTo(sort, x, y, m - 1)
  \/ AgreeUpTo(sort, x, y, Len(sort)) /\ x[s.key.name] < y[s.key.name]

Values == (Nat \ {0}) \cup {Null}

\* Rows that SQLite can tell apart, and sort.
Sortable(s, sort, rows) ==
  /\ Len(sort) \in Nat /\ DOMAIN sort = 1..Len(sort)
  /\ \A x \in rows : /\ x[s.key.name] \in Nat
                     /\ \A i \in 1..Len(sort) : x[sort[i].attribute] \in Values
  /\ \A x, y \in rows : x[s.key.name] = y[s.key.name] => x = y

LEMMA PrecedesIs ==
    ASSUME NEW s, NEW sort, NEW rows, Sortable(s, sort, rows), NEW x \in rows, NEW y \in rows
    PROVE  /\ Precedes(s, sort, x, y) <=> Lighter(s, sort, x, y)
           /\ \A i \in 1..Len(sort) : Weight(sort, x, i) \in Int
<1>. DEFINE k == Len(sort)
            differ == {i \in DOMAIN sort : x[sort[i].attribute] # y[sort[i].attribute]}
            w(i) == Weight(sort, x, i)
            v(i) == Weight(sort, y, i)
            m == Min(differ)
            before(p, q) == IF sort[m].descending THEN Rank(p) > Rank(q) ELSE Rank(p) < Rank(q)
<1>1. k \in Nat /\ DOMAIN sort = 1..k
  BY DEF Sortable
<1>2. ASSUME NEW i \in 1..k
      PROVE  /\ w(i) \in Int /\ v(i) \in Int
             /\ (w(i) = v(i) <=> x[sort[i].attribute] = y[sort[i].attribute])
             /\ w(i) < v(i) <=> IF sort[i].descending
                                THEN Rank(x[sort[i].attribute]) > Rank(y[sort[i].attribute])
                                ELSE Rank(x[sort[i].attribute]) < Rank(y[sort[i].attribute])
  <2>. DEFINE a == x[sort[i].attribute]
              b == y[sort[i].attribute]
  <2>1. a \in Values /\ b \in Values
    BY DEF Sortable
  <2>. HIDE DEF a, b
  <2>2. Rank(a) \in Nat /\ Rank(b) \in Nat /\ (Rank(a) = Rank(b) <=> a = b)
    BY <2>1 DEF Rank, Values
  <2>3. /\ w(i) = IF sort[i].descending THEN 0 - Rank(a) ELSE Rank(a)
        /\ v(i) = IF sort[i].descending THEN 0 - Rank(b) ELSE Rank(b)
    BY DEF Weight, a, b
  <2>. HIDE DEF w, v
  <2>4. /\ w(i) \in Int /\ v(i) \in Int /\ (w(i) = v(i) <=> a = b)
        /\ w(i) < v(i) <=> IF sort[i].descending THEN Rank(a) > Rank(b) ELSE Rank(a) < Rank(b)
    BY <2>2, <2>3
  <2>. QED BY <2>4 DEF a, b
<1>3. Precedes(s, sort, x, y) <=>
        IF differ = {} THEN x[s.key.name] < y[s.key.name]
        ELSE before(x[sort[m].attribute], y[sort[m].attribute])
  BY DEF Precedes
<1>4. differ = {i \in 1..k : w(i) # v(i)}
  <2>. HIDE DEF w, v
  <2>. QED BY <1>1, <1>2
<1>5. Lighter(s, sort, x, y) <=>
        \/ \E i \in 1..k : w(i) < v(i) /\ \A j \in 1..(i - 1) : w(j) = v(j)
        \/ (\A j \in 1..k : w(j) = v(j)) /\ x[s.key.name] < y[s.key.name]
  BY DEF Lighter, AgreeUpTo
<1>6. CASE differ = {}
  <2>1. \A j \in 1..k : w(j) = v(j)
    <3>. HIDE DEF w, v
    <3>. QED BY <1>4, <1>6
  <2>2. \A i \in 1..k : ~ (w(i) < v(i))
    <3>. HIDE DEF w, v
    <3>. QED BY <1>2, <2>1
  <2>. HIDE DEF w, v, differ
  <2>. QED BY <1>2, <1>3, <1>5, <1>6, <2>1, <2>2 DEF w
<1>7. CASE differ # {}
  <2>1. differ \subseteq 1..k
    BY <1>1
  <2>. HIDE DEF differ, w, v, k
  <2>2. m \in differ /\ \A i \in differ : m <= i
    BY <1>1, <1>7, <2>1, LeastIsMember
  <2>3. m \in 1..k /\ w(m) # v(m) /\ \A j \in 1..(m - 1) : w(j) = v(j)
    <3>1. m \in 1..k
      BY <2>1, <2>2
    <3>2. \A j \in 1..(m - 1) : j \in 1..k /\ ~ (m <= j)
      BY <1>1, <3>1
    <3>. QED BY <1>4, <2>2, <3>1, <3>2
  <2>. HIDE DEF m
  <2>4. Precedes(s, sort, x, y) <=> w(m) < v(m)
    BY <1>2, <1>3, <1>7, <2>3 DEF k
  <2>5. ASSUME NEW i \in 1..k, w(i) < v(i), \A j \in 1..(i - 1) : w(j) = v(j) PROVE i = m
    <3>1. w(i) # v(i)
      BY <1>2, <2>5 DEF k
    <3>2. ~ (m < i)
      <4>1. SUFFICES ASSUME m < i PROVE FALSE
        OBVIOUS
      <4>2. m \in 1..(i - 1)
        BY <1>1, <2>3, <4>1
      <4>. QED BY <2>3, <2>5, <4>2
    <3>3. ~ (i < m)
      <4>1. SUFFICES ASSUME i < m PROVE FALSE
        OBVIOUS
      <4>2. i \in 1..(m - 1)
        BY <1>1, <2>3, <4>1
      <4>. QED BY <2>3, <3>1, <4>2
    <3>. QED BY <1>1, <2>3, <3>2, <3>3
  <2>6. Lighter(s, sort, x, y) <=> w(m) < v(m)
    BY <1>5, <2>3, <2>5
  <2>. QED BY <1>2, <2>4, <2>6 DEF w, k
<1>. QED BY <1>6, <1>7

LEMMA SortIsTotal ==
    ASSUME NEW s, NEW sort, NEW rows, Sortable(s, sort, rows)
    PROVE  TotalOrder({p \in rows \X rows : Precedes(s, sort, p[1], p[2])}, rows)
<1>. DEFINE R == {p \in rows \X rows : Precedes(s, sort, p[1], p[2])}
            k == Len(sort)
            W(x, i) == Weight(sort, x, i)
            key(x) == x[s.key.name]
            Less(x, y) == Lighter(s, sort, x, y)
<1>1. k \in Nat /\ \A x \in rows : key(x) \in Nat
  BY DEF Sortable
<1>2. \A x \in rows : \A i \in 1..k : W(x, i) \in Int
  BY PrecedesIs
<1>3. \A x, y \in rows : <<x, y>> \in R <=> Less(x, y)
  BY PrecedesIs
<1>4. \A x, y \in rows :
        Less(x, y) <=> \/ \E m \in 1..k : W(x, m) < W(y, m) /\ \A j \in 1..(m - 1) : W(x, j) = W(y, j)
                       \/ (\A j \in 1..k : W(x, j) = W(y, j)) /\ key(x) < key(y)
  BY DEF Lighter, AgreeUpTo
<1>5. \A x, y \in rows : key(x) = key(y) => x = y
  BY DEF Sortable
<1>. HIDE DEF R, k, W, key, Less
<1>6. ASSUME NEW x \in rows PROVE ~ Less(x, x)
  BY <1>1, <1>2, <1>4
<1>7. ASSUME NEW x \in rows, NEW y \in rows, x # y PROVE Less(x, y) \/ Less(y, x)
  <2>. DEFINE D == {i \in 1..k : W(x, i) # W(y, i)}
              m == Min(D)
  <2>1. CASE D = {}
    <3>1. \A j \in 1..k : W(x, j) = W(y, j)
      BY <2>1
    <3>2. key(x) < key(y) \/ key(y) < key(x)
      <4>1. key(x) # key(y)
        BY <1>5, <1>7
      <4>2. key(x) \in Nat /\ key(y) \in Nat
        BY <1>1
      <4>. QED BY <4>1, <4>2
    <3>. QED BY <1>4, <3>1, <3>2
  <2>2. CASE D # {}
    <3>1. D \subseteq 1..k
      OBVIOUS
    <3>. HIDE DEF D
    <3>2. m \in D /\ \A i \in D : m <= i
      BY <1>1, <2>2, <3>1, LeastIsMember
    <3>3. m \in 1..k /\ W(x, m) # W(y, m)
      BY <3>2 DEF D
    <3>4. \A j \in 1..(m - 1) : W(x, j) = W(y, j)
      <4>1. \A j \in 1..(m - 1) : j \in 1..k /\ ~ (m <= j)
        BY <1>1, <3>3
      <4>. QED BY <3>2, <4>1 DEF D
    <3>5. W(x, m) < W(y, m) \/ W(y, m) < W(x, m)
      BY <1>2, <3>3
    <3>. HIDE DEF m
    <3>. QED BY <1>4, <3>3, <3>4, <3>5
  <2>. QED BY <2>1, <2>2
<1>8. ASSUME NEW x \in rows, NEW y \in rows, NEW z \in rows, Less(x, y), Less(y, z) PROVE Less(x, z)
  <2>1. CASE (\A j \in 1..k : W(x, j) = W(y, j)) /\ key(x) < key(y)
    <3>1. CASE (\A j \in 1..k : W(y, j) = W(z, j)) /\ key(y) < key(z)
      <4>1. key(x) < key(z)
        BY <1>1, <2>1, <3>1
      <4>2. \A j \in 1..k : W(x, j) = W(z, j)
        BY <2>1, <3>1
      <4>. QED BY <1>4, <4>1, <4>2
    <3>2. CASE \E m \in 1..k : W(y, m) < W(z, m) /\ \A j \in 1..(m - 1) : W(y, j) = W(z, j)
      <4>1. PICK m \in 1..k : W(y, m) < W(z, m) /\ \A j \in 1..(m - 1) : W(y, j) = W(z, j)
        BY <3>2
      <4>2. \A j \in 1..(m - 1) : j \in 1..k
        BY <1>1
      <4>. QED BY <1>4, <2>1, <4>1, <4>2
    <3>. QED BY <1>4, <1>8, <3>1, <3>2
  <2>2. CASE \E m \in 1..k : W(x, m) < W(y, m) /\ \A j \in 1..(m - 1) : W(x, j) = W(y, j)
    <3>1. PICK m \in 1..k : W(x, m) < W(y, m) /\ \A j \in 1..(m - 1) : W(x, j) = W(y, j)
      BY <2>2
    <3>2. CASE (\A j \in 1..k : W(y, j) = W(z, j)) /\ key(y) < key(z)
      <4>1. \A j \in 1..(m - 1) : j \in 1..k
        BY <1>1
      <4>. QED BY <1>4, <3>1, <3>2, <4>1
    <3>3. CASE \E l \in 1..k : W(y, l) < W(z, l) /\ \A j \in 1..(l - 1) : W(y, j) = W(z, j)
      <4>1. PICK l \in 1..k : W(y, l) < W(z, l) /\ \A j \in 1..(l - 1) : W(y, j) = W(z, j)
        BY <3>3
      <4>2. CASE m < l
        <5>1. m \in 1..(l - 1) /\ \A j \in 1..(m - 1) : j \in 1..(l - 1)
          BY <1>1, <4>2
        <5>. QED BY <1>4, <3>1, <4>1, <5>1
      <4>3. CASE l < m
        <5>1. l \in 1..(m - 1) /\ \A j \in 1..(l - 1) : j \in 1..(m - 1)
          BY <1>1, <4>3
        <5>. QED BY <1>4, <3>1, <4>1, <5>1
      <4>4. CASE l = m
        <5>1. W(x, m) \in Int /\ W(y, m) \in Int /\ W(z, m) \in Int
          BY <1>2
        <5>2. W(x, m) < W(z, m)
          BY <3>1, <4>1, <4>4, <5>1
        <5>. QED BY <1>4, <3>1, <4>1, <4>4, <5>2
      <4>. QED BY <1>1, <4>2, <4>3, <4>4
    <3>. QED BY <1>4, <1>8, <3>2, <3>3
  <2>. QED BY <1>4, <1>8, <2>1, <2>2
<1>. QED BY <1>3, <1>6, <1>7, <1>8 DEF TotalOrder, R

\* The rows of an answer are the rows found, each once.
LEMMA OrderedLists ==
    ASSUME NEW s, NEW sort, NEW rows, IsFiniteSet(rows), Sortable(s, sort, rows)
    PROVE  Lists(Ordered(s, sort, rows), rows) /\ ToSet(Ordered(s, sort, rows)) = rows
<1>. DEFINE R == {p \in rows \X rows : Precedes(s, sort, p[1], p[2])}
            n == Cardinality(rows)
            at(i) == CHOOSE row \in rows : Cardinality({x \in rows : Precedes(s, sort, x, row)}) = i - 1
            t == Ordered(s, sort, rows)
<1>1. TotalOrder(R, rows)
  BY SortIsTotal
<1>2. t = [i \in 1..n |-> at(i)]
  BY DEF Ordered
<1>3. ASSUME NEW i \in 1..n, \E x \in rows : Cardinality(Below(R, rows, x)) = i - 1
      PROVE  at(i) \in rows /\ Cardinality(Below(R, rows, at(i))) = i - 1
  <2>1. \A row \in rows : Below(R, rows, row) = {x \in rows : Precedes(s, sort, x, row)}
    BY DEF Below
  <2>2. \E row \in rows : Cardinality({x \in rows : Precedes(s, sort, x, row)}) = i - 1
    BY <1>3, <2>1
  <2>3. at(i) \in rows /\ Cardinality({x \in rows : Precedes(s, sort, x, at(i))}) = i - 1
    BY <2>2
  <2>. QED BY <2>1, <2>3
<1>. HIDE DEF at, t
<1>4. DOMAIN t = 1..n /\ t = [i \in 1..n |-> t[i]] /\ \A i \in 1..n : t[i] = at(i)
  BY <1>2
<1>. HIDE DEF R
<1>5. Lists(t, rows) /\ ToSet(t) = rows
  <2>1. Ranked(t, R, rows)
    BY <1>3, <1>4 DEF Ranked
  <2>. HIDE DEF n
  <2>. QED BY <1>1, <2>1, Enumerated
<1>. QED BY <1>5 DEF t

LEMMA PageLists ==
    ASSUME NEW page, PageIs(page), NEW S, NEW rows, Lists(rows, S)
    PROVE  Lists(Page(page, rows), S) /\ (page = <<>> => Page(page, rows) = rows)
<1>. DEFINE t == Page(page, rows)
<1>1. CASE page = <<>>
  BY <1>1 DEF Page
<1>2. CASE page # <<>>
  <2>. DEFINE o == Offset(page)
              last == Min({o + page.size, Len(rows)})
  <2>0. rows \in Seq(S)
    BY DEF Lists
  <2>1. o \in Nat /\ Len(rows) \in Nat /\ page.size \in Nat
    <3>1. page.number - 1 \in Nat /\ page.size \in Nat /\ Numbers \in Nat /\ Numbers # 0
      BY <1>2, NumbersAssumption DEF PageIs
    <3>2. (page.number - 1) * page.size \in Nat
      BY <3>1
    <3>3. ((page.number - 1) * page.size) % Numbers \in Nat
      BY <3>1, <3>2
    <3>. QED BY <2>0, <3>1, <3>3 DEF Offset
  <2>2. last \in Nat /\ last <= Len(rows)
    <3>1. o + page.size \in Nat
      BY <2>1
    <3>. HIDE DEF o
    <3>. QED BY <2>1, <3>1, MinOfTwo
  <2>3. t = SubSeq(rows, o + 1, last)
    BY <1>2 DEF Page
  <2>. HIDE DEF last, o, t
  <2>4. /\ t \in Seq(S) /\ Len(t) = IF o + 1 <= last THEN last - (o + 1) + 1 ELSE 0
        /\ \A i \in 1..Len(t) : t[i] = rows[o + 1 + i - 1]
    <3>1. o + 1 \in Int /\ last \in Int /\ \A i \in (o + 1)..last : rows[i] \in S
      BY <2>0, <2>1, <2>2
    <3>. QED BY <2>3, <3>1, SubSeqProperties
  <2>5. ASSUME NEW i \in 1..Len(t), NEW j \in 1..Len(t), t[i] = t[j] PROVE i = j
    <3>1. o + 1 <= last /\ Len(t) = last - o /\ i \in Nat /\ j \in Nat
      BY <2>1, <2>2, <2>4
    <3>2. o + i \in 1..Len(rows) /\ o + j \in 1..Len(rows) /\ o + 1 + i - 1 = o + i /\ o + 1 + j - 1 = o + j
      BY <2>1, <2>2, <3>1
    <3>3. rows[o + i] = rows[o + j]
      BY <2>4, <2>5, <3>2
    <3>4. o + i = o + j
      BY <3>2, <3>3 DEF Lists
    <3>. QED BY <2>1, <3>1, <3>4
  <2>. QED BY <1>2, <2>4, <2>5 DEF Lists, t
<1>. QED BY <1>1, <1>2

-----------------------------------------------------------------------------
(* What SQLite keeps: rows that can be told apart, and foreign keys that   *)
(* lead somewhere.                                                         *)

KeptAll(byName, tables) ==
  \A m \in DOMAIN byName : m \in DOMAIN tables /\ Kept(byName[m], byName, tables)

LEMMA InitKept == Init => (Consistent(schemas) => KeptAll(reg, db))
<1>. SUFFICES ASSUME Init, Consistent(schemas) PROVE KeptAll(reg, db)
  OBVIOUS
<1>1. PICK w \in DOMAIN Worlds : schemas = Worlds[w].schemas /\ db \in Worlds[w].databases
  BY Zenon DEF Init
<1>2. \A s \in ToSet(schemas) : s.name \in DOMAIN db /\ Kept(s, reg, db)
  <2>1. Consistent(Worlds[w].schemas) =>
          \A tables \in Worlds[w].databases : \A s \in ToSet(Worlds[w].schemas) :
            s.name \in DOMAIN tables /\ Kept(s, ByName(Worlds[w].schemas), tables)
    BY WorldsAssumption
  <2>. QED BY <1>1, <2>1 DEF reg
<1>3. Registered(reg, schemas)
  <2>1. UniqueNames(schemas)
    BY DEF Consistent
  <2>. QED BY <2>1, RegistryIs DEF reg
<1>. QED BY <1>2, <1>3 DEF KeptAll, Registered

LEMMA RowsAre ==
    ASSUME NEW byName, Closed(byName), NEW tables, KeptAll(byName, tables), NEW m \in DOMAIN byName
    PROVE  LET s == byName[m] IN
           /\ IsFiniteSet(tables[m])
           /\ \A row \in tables[m] : /\ DOMAIN row = Columns(s)
                                     /\ \A c \in Columns(s) : row[c] \in Values
                                     /\ row[s.key.name] \in Nat \ {0}
                                     /\ Resolves(s, row, byName, tables)
           /\ \A c \in Unique(s, byName) : \A x, y \in tables[m] : x[c] = y[c] /\ x[c] # Null => x = y
           /\ \A x, y \in tables[m] : x[s.key.name] = y[s.key.name] => x = y
<1>. DEFINE s == byName[m]
            key == s.key.name
<1>1. s.name = m /\ Kept(s, byName, tables)
  BY DEF KeptAll, Closed
<1>2. key \in Columns(s) /\ key \in Unique(s, byName)
  BY DEF Columns, Unique
<1>3. /\ IsFiniteSet(tables[m])
      /\ \A row \in tables[m] : /\ row \in [Columns(s) -> (Nat \ {0}) \cup {Null}]
                                /\ row[key] # Null
                                /\ Resolves(s, row, byName, tables)
      /\ \A c \in Unique(s, byName) : \A x, y \in tables[m] : x[c] = y[c] /\ x[c] # Null => x = y
  BY <1>1 DEF Kept
<1>. HIDE DEF s
<1>4. ASSUME NEW row \in tables[m]
      PROVE  /\ DOMAIN row = Columns(s) /\ (\A c \in Columns(s) : row[c] \in Values)
             /\ row[key] \in Nat \ {0}
  <2>1. row \in [Columns(s) -> (Nat \ {0}) \cup {Null}] /\ row[key] # Null
    BY <1>3
  <2>. HIDE DEF key
  <2>. QED BY <1>2, <2>1 DEF Values
<1>5. \A x, y \in tables[m] : x[key] = y[key] => x = y
  BY <1>2, <1>3
<1>. QED BY <1>3, <1>4, <1>5 DEF s

LEMMA OwnIsColumn ==
    ASSUME NEW byName, Closed(byName), NEW m \in DOMAIN byName, NEW r \in Relationships(byName[m])
    PROVE  /\ r.own \in Columns(byName[m])
           /\ r.resource \in DOMAIN byName
           /\ r.related \in Columns(byName[r.resource])
           /\ r.kind # "has_many" => r.related \in Unique(byName[r.resource], byName)
           /\ r.kind # "belongs_to" => r.own \in Unique(byName[m], byName)
           /\ r.kind \in {"belongs_to", "has_one", "has_many"}
<1>1. /\ r.resource \in DOMAIN byName /\ ValidRelationship(byName[m], r, byName)
      /\ byName[r.resource].name = r.resource /\ Declarable(byName[m])
  BY DEF Closed
<1>2. r.own \in Columns(byName[m]) /\ r.related \in Columns(byName[r.resource])
  BY <1>1 DEF ValidRelationship, Referenced, Columns
<1>3. r.kind # "has_many" => r.related \in Unique(byName[r.resource], byName)
  <2>1. r \in UNION {Relationships(byName[n]) : n \in DOMAIN byName}
    OBVIOUS
  <2>. QED BY <1>1, <2>1 DEF Unique
<1>4. r.kind # "belongs_to" => r.own \in Unique(byName[m], byName)
  BY DEF Unique
<1>5. r.kind \in {"belongs_to", "has_one", "has_many"}
  BY <1>1, RelationshipTypes
<1>. QED BY <1>1, <1>2, <1>3, <1>4, <1>5

LEMMA ColumnsAreThere ==
    ASSUME NEW byName, Closed(byName), NEW m \in DOMAIN byName, NEW fields, ~ FieldsPanic(byName[m], fields)
    PROVE  ColumnsFor(byName[m], fields) \subseteq Columns(byName[m])
<1>. DEFINE s == byName[m]
<1>1. s.name = m /\ Declarable(s) /\ s.key.name \in Columns(s)
  BY DEF Closed, Columns
<1>2. fields[s.name] \subseteq Columns(s) \cup RelationshipNames(s)
  BY DEF FieldsPanic
<1>3. ASSUME NEW f \in fields[s.name], f \notin Columns(s) PROVE Relationship(s, f).own \in Columns(s)
  <2>1. Relationship(s, f) \in Relationships(s)
    BY <1>1, <1>2, <1>3, RelationshipIs
  <2>. QED BY <2>1, OwnIsColumn
<1>. QED BY <1>1, <1>3 DEF ColumnsFor

-----------------------------------------------------------------------------
(* What a read answers. *)

\* The rows of a table, each once, cut to the columns asked for.
ReadOf(answer, s, fields, rows, table) ==
  /\ ~ FieldsPanic(s, fields)
  /\ Lists(rows, table)
  /\ answer.rows = Selected(rows, ColumnsFor(s, fields))

LEMMA TableSorts ==
    ASSUME NEW byName, Closed(byName), NEW tables, KeptAll(byName, tables), NEW m \in DOMAIN byName,
           NEW sort, SortedBy(sort, byName[m]), NEW rows \in SUBSET tables[m]
    PROVE  Sortable(byName[m], sort, rows) /\ IsFiniteSet(rows)
<1>. DEFINE s == byName[m]
            table == tables[m]
<1>1. /\ IsFiniteSet(table)
      /\ \A row \in table : (\A c \in Columns(s) : row[c] \in Values) /\ row[s.key.name] \in Nat \ {0}
      /\ \A x, y \in table : x[s.key.name] = y[s.key.name] => x = y
  BY RowsAre
<1>2. Len(sort) \in Nat /\ DOMAIN sort = 1..Len(sort) /\ \A i \in 1..Len(sort) : sort[i].attribute \in Columns(s)
  BY DEF SortedBy, Columns
<1>3. IsFiniteSet(rows)
  BY <1>1, FS_Subset
<1>. HIDE DEF s, table
<1>4. Sortable(s, sort, rows)
  <2>1. rows \subseteq table
    BY DEF table
  <2>. QED BY <1>1, <1>2, <2>1 DEF Sortable
<1>. QED BY <1>3, <1>4 DEF s

LEMMA QueryReads ==
    ASSUME NEW byName, Closed(byName), NEW tables, KeptAll(byName, tables), NEW m \in DOMAIN byName,
           NEW p, PageIs(p.page), SortedBy(p.sort, byName[m]), NEW way,
           NEW answer, answer = Query(byName[m], p, tables[m], way), answer.error = "none"
    PROVE  \E rows : /\ ReadOf(answer, byName[m], p.fields, rows, tables[m])
                     /\ Lists(rows, Where(byName[m], p, tables[m]))
                     /\ p.page = <<>> => ToSet(rows) = Where(byName[m], p, tables[m])
<1>. DEFINE s == byName[m]
            table == tables[m]
            found == Where(s, p, table)
            sorted == Ordered(s, p.sort, found)
            rows == Page(p.page, sorted)
            fault == QueryFault(s, p, way)
<1>1. answer = IF fault # "none" THEN Refusal(fault) ELSE Answer(Selected(rows, ColumnsFor(s, p.fields)))
  BY Zenon DEF Query
<1>2. fault = "none" /\ answer.rows = Selected(rows, ColumnsFor(s, p.fields))
  <2>. HIDE DEF fault, rows, s
  <2>. QED BY <1>1 DEF Refusal, Answer
<1>3. ~ FieldsPanic(s, p.fields)
  BY <1>2 DEF QueryFault
<1>4. found \in SUBSET table
  BY DEF Where
<1>. HIDE DEF found, fault
<1>5. Sortable(s, p.sort, found) /\ IsFiniteSet(found)
  BY <1>4, TableSorts
<1>6. Lists(sorted, found) /\ ToSet(sorted) = found
  <2>. HIDE DEF s
  <2>. QED BY <1>5, OrderedLists
<1>. HIDE DEF sorted
<1>7. Lists(rows, found) /\ (p.page = <<>> => rows = sorted)
  BY <1>6, PageLists
<1>. HIDE DEF rows
<1>8. Lists(rows, table)
  <2>1. rows \in Seq(table)
    BY <1>4, <1>7 DEF Lists
  <2>. QED BY <1>7, <2>1 DEF Lists
<1>9. ReadOf(answer, s, p.fields, rows, table)
  BY <1>2, <1>3, <1>8 DEF ReadOf
<1>. QED BY <1>6, <1>7, <1>9 DEF found

LEMMA FindReads ==
    ASSUME NEW s, NEW id, NEW fields, NEW table, NEW answer, answer = Find(s, id, fields, table),
           answer.error = "none"
    PROVE  \E row \in table : row["id"] = id /\ ReadOf(answer, s, fields, <<row>>, table)
<1>. DEFINE found == {row \in table : row["id"] = id}
            row == CHOOSE x \in found : TRUE
<1>1. answer = IF FieldsPanic(s, fields) THEN Refusal("Panic")
               ELSE IF "id" \notin Columns(s) THEN Refusal("SqlFailure")
               ELSE IF found = {} THEN Refusal("RecordNotFound")
               ELSE Answer(Selected(<<row>>, ColumnsFor(s, fields)))
  BY Zenon DEF Find
<1>2. ~ FieldsPanic(s, fields) /\ found # {} /\ answer.rows = Selected(<<row>>, ColumnsFor(s, fields))
  <2>. HIDE DEF found, row
  <2>. QED BY <1>1 DEF Refusal, Answer
<1>3. row \in found
  BY <1>2
<1>4. row \in table /\ row["id"] = id
  BY <1>3
<1>. HIDE DEF row, found
<1>5. Lists(<<row>>, table)
  <2>1. <<row>> \in Seq(table) /\ Len(<<row>>) = 1
    BY <1>4
  <2>. QED BY <2>1 DEF Lists
<1>. QED BY <1>2, <1>4, <1>5 DEF ReadOf

\* The rows that hold one of the keys, all of them.
Collected(xs, column, keys, s, fields, table) ==
  \E rows : /\ Lists(rows, table)
            /\ ToSet(rows) = {row \in table : row[column] \in keys}
            /\ xs = Reads(s, rows, fields)
            /\ rows # <<>> => ~ FieldsPanic(s, fields)

LEMMA CollectionReads ==
    ASSUME NEW byName, Closed(byName), NEW tables, KeptAll(byName, tables), NEW m \in DOMAIN byName,
           NEW column, NEW keys, Null \notin keys, NEW fields,
           NEW answer, answer = LoadCollectionBy(byName[m], column, keys, fields, tables[m]),
           answer.error = "none"
    PROVE  Collected(answer.rows, column, keys, byName[m], fields, tables[m])
<1>. DEFINE s == byName[m]
            table == tables[m]
            in == [op |-> "in", operand |-> keys]
            p == [Blank(s) EXCEPT !.fields = fields, !.filter = Put(@, column, {in})]
            way == Usual
            read == Query(s, p, table, way)
<1>1. answer = IF keys = {} THEN Answer(<<>>) ELSE [read EXCEPT !.rows = FromRows(s, @)]
  BY Zenon DEF LoadCollectionBy
<1>2. CASE keys = {}
  <2>1. answer.rows = <<>>
    BY <1>1, <1>2 DEF Answer
  <2>2. Lists(<<>>, table)
    BY DEF Lists
  <2>3. ToSet(<<>>) = {}
    BY DEF ToSet
  <2>4. Reads(s, <<>>, fields) = <<>>
    BY DEF Reads, Selected, FromRows
  <2>. QED BY <1>2, <2>1, <2>2, <2>3, <2>4 DEF Collected
<1>3. CASE keys # {}
  <2>1. /\ p.page = <<>> /\ p.sort = <<>> /\ p.search = <<>> /\ p.fields = fields
        /\ DOMAIN p.filter = {column} /\ p.filter[column] = {in}
    BY DEF Blank, Put
  <2>2. DOMAIN read = {"error", "rows"}
    BY DEF Query, Refusal, Answer
  <2>. HIDE DEF p, read
  <2>3. read.error = "none" /\ answer.rows = FromRows(s, read.rows)
    BY <1>1, <1>3, <2>2
  <2>4. PageIs(p.page) /\ SortedBy(p.sort, s)
    BY <2>1 DEF PageIs, SortedBy
  <2>5. PICK rows : ReadOf(read, s, p.fields, rows, table) /\ ToSet(rows) = Where(s, p, table)
    <3>1. read = Query(byName[m], p, tables[m], way)
      BY DEF read
    <3>. HIDE DEF way
    <3>2. \E rows : /\ ReadOf(read, byName[m], p.fields, rows, tables[m])
                    /\ p.page = <<>> => ToSet(rows) = Where(byName[m], p, tables[m])
      BY <2>3, <2>4, <3>1, QueryReads
    <3>. QED BY <2>1, <3>2
  <2>6. Where(s, p, table) = {row \in table : row[column] \in keys}
    <3>1. \A row \in table : Satisfies(row[column], in) <=> row[column] \in keys
      BY DEF Satisfies
    <3>. HIDE DEF in
    <3>. QED BY <2>1, <3>1 DEF Where
  <2>7. answer.rows = Reads(s, rows, fields)
    BY <2>1, <2>3, <2>5 DEF ReadOf, Reads
  <2>. QED BY <2>1, <2>5, <2>6, <2>7 DEF ReadOf, Collected
<1>. QED BY <1>2, <1>3

-----------------------------------------------------------------------------
(* A record that says what the database says. *)

\* RelatedIds, of any database.
Leads(row, r, byName, tables) ==
  IF row[r.own] = Null THEN {}
  ELSE {t[byName[r.resource].key.name] : t \in {u \in tables[r.resource] : u[r.related] = row[r.own]}}

TrueTo(x, row, byName, tables) ==
  LET s == byName[x.kind] IN
  /\ row \in tables[x.kind] /\ row[s.key.name] = x.id
  /\ \A c \in DOMAIN x.columns : x.columns[c] = row[c]
  /\ \A name \in DOMAIN x.relationships :
       Exactly(x.relationships[name], Leads(row, Relationship(s, name), byName, tables))

Faithful(x, byName, tables) ==
  x.kind \in DOMAIN byName /\ \E row \in tables[x.kind] : TrueTo(x, row, byName, tables)

AllFaithful(xs, byName, tables) == \A i \in 1..Len(xs) : Faithful(xs[i], byName, tables)
Distinct(xs) == \A i, j \in 1..Len(xs) : xs[i].id = xs[j].id => i = j

LEMMA ListedCardinality ==
    ASSUME NEW S, NEW t, Lists(t, S)
    PROVE  Cardinality(ToSet(t)) = Len(t) /\ IsFiniteSet(ToSet(t))
<1>. DEFINE n == Len(t)
            T == ToSet(t)
<1>1. n \in Nat /\ DOMAIN t = 1..n /\ t = [i \in 1..n |-> t[i]]
  BY DEF Lists
<1>2. \A i, j \in 1..n : t[i] = t[j] => i = j
  BY DEF Lists
<1>3. T = {t[i] : i \in 1..n}
  BY <1>1 DEF ToSet
<1>. HIDE DEF T, n
<1>4. t \in [1..n -> T]
  BY <1>1, <1>3
<1>5. t \in Bijection(1..n, T)
  BY <1>2, <1>3, <1>4 DEF Bijection, Injection, Surjection, IsInjective
<1>6. IsFiniteSet(1..n) /\ Cardinality(1..n) = n
  BY <1>1, FS_Interval
<1>7. ExistsBijection(1..n, T)
  BY <1>5 DEF ExistsBijection
<1>. QED BY <1>6, <1>7, FS_Bijection DEF n, T

LEMMA RecordReads ==
    ASSUME NEW byName, Closed(byName), NEW tables, KeptAll(byName, tables), NEW m \in DOMAIN byName,
           NEW fields, ~ FieldsPanic(byName[m], fields), NEW row \in tables[m],
           NEW x, x = FromRow(byName[m], Restrict(row, ColumnsFor(byName[m], fields)))
    PROVE  /\ x.id = row[byName[m].key.name] /\ x.kind = m
           /\ DOMAIN x.columns = ColumnsFor(byName[m], fields) \ {byName[m].key.name}
           /\ TrueTo(x, row, byName, tables)
<1>. DEFINE s == byName[m]
            columns == ColumnsFor(s, fields)
            cut == Restrict(row, columns)
<1>1. s.name = m /\ s.key.name \in columns
  BY DEF Closed, ColumnsFor
<1>. HIDE DEF columns
<1>2. DOMAIN cut = columns /\ \A c \in columns : cut[c] = row[c]
  BY DEF Restrict
<1>3. /\ x.kind = m /\ x.id = cut[s.key.name] /\ x.columns = Restrict(cut, DOMAIN cut \ {s.key.name})
      /\ x.relationships = <<>>
  BY <1>1 DEF FromRow, columns
<1>. HIDE DEF cut, s
<1>4. DOMAIN x.columns = columns \ {s.key.name} /\ \A c \in DOMAIN x.columns : x.columns[c] = row[c]
  BY <1>2, <1>3 DEF Restrict
<1>5. DOMAIN x.relationships = {}
  BY <1>3
<1>. QED BY <1>1, <1>2, <1>3, <1>4, <1>5 DEF TrueTo, s, columns

LEMMA RowsRead ==
    ASSUME NEW byName, Closed(byName), NEW tables, KeptAll(byName, tables), NEW m \in DOMAIN byName,
           NEW fields, NEW rows, Lists(rows, tables[m]), rows # <<>> => ~ FieldsPanic(byName[m], fields),
           NEW xs, xs = Reads(byName[m], rows, fields)
    PROVE  /\ Records(xs, m) /\ Len(xs) = Len(rows)
           /\ AllFaithful(xs, byName, tables) /\ Distinct(xs)
           /\ \A i \in 1..Len(rows) :
                /\ rows[i] \in tables[m] /\ TrueTo(xs[i], rows[i], byName, tables)
                /\ xs[i].id = rows[i][byName[m].key.name]
                /\ xs[i].kind = m
<1>. DEFINE s == byName[m]
<1>1. rows \in Seq(tables[m]) /\ Len(rows) \in Nat /\ \A i \in 1..Len(rows) : rows[i] \in tables[m]
  BY DEF Lists
<1>2. rows \in Seq(ToSet(rows))
  BY <1>1, ItsOwnElements
<1>3. s.name = m
  BY DEF Closed
<1>. HIDE DEF s
<1>4. /\ Records(xs, m) /\ Len(xs) = Len(rows)
      /\ \A i \in 1..Len(rows) : xs[i] = FromRow(s, Restrict(rows[i], ColumnsFor(s, fields)))
  BY <1>2, <1>3, ReadsAre DEF s
<1>5. ASSUME NEW i \in 1..Len(rows)
      PROVE  TrueTo(xs[i], rows[i], byName, tables) /\ xs[i].id = rows[i][s.key.name] /\ xs[i].kind = m
  <2>1. ~ FieldsPanic(s, fields)
    <3>1. rows # <<>>
      BY <1>1
    <3>. QED BY <3>1 DEF s
  <2>. QED BY <1>1, <1>4, <2>1, RecordReads DEF s
<1>6. AllFaithful(xs, byName, tables)
  BY <1>1, <1>4, <1>5 DEF AllFaithful, Faithful
<1>7. Distinct(xs)
  <2>1. \A x, y \in tables[m] : x[s.key.name] = y[s.key.name] => x = y
    BY RowsAre DEF s
  <2>2. \A i, j \in 1..Len(rows) : rows[i] = rows[j] => i = j
    BY DEF Lists
  <2>. QED BY <1>1, <1>4, <1>5, <2>1, <2>2 DEF Distinct
<1>. QED BY <1>1, <1>4, <1>5, <1>6, <1>7 DEF s

-----------------------------------------------------------------------------
(* The items of a key. *)

OfKey(keys, items, key, n) == {items[i] : i \in {j \in 1..n : keys[j] = key}}

LEMMA GroupedIs ==
    ASSUME NEW n \in Nat, NEW keys, DOMAIN keys = 1..n, NEW items,
           \A i, j \in 1..n : items[i] = items[j] => i = j,
           NEW key \in ToSet(keys)
    PROVE  Exactly(Grouped(keys, items)[key], OfKey(keys, items, key, n))
<1>. DEFINE mine == {i \in DOMAIN keys : keys[i] = key}
            k == Cardinality(mine)
            R == {p \in mine \X mine : p[1] < p[2]}
            at(l) == CHOOSE i \in mine : Cardinality({j \in mine : j < i}) = l - 1
            t == [l \in 1..k |-> at(l)]
            g == [l \in 1..k |-> items[at(l)]]
<1>1. Grouped(keys, items)[key] = g
  BY Zenon DEF Grouped
<1>2. mine \subseteq 1..n /\ IsFiniteSet(mine)
  <2>1. mine \in SUBSET (1..n)
    OBVIOUS
  <2>2. IsFiniteSet(1..n)
    BY FS_Interval
  <2>. QED BY <2>1, <2>2, FS_Subset
<1>3. mine = {j \in 1..n : keys[j] = key}
  OBVIOUS
<1>4. k \in Nat
  BY <1>2, FS_CardinalityType
<1>. HIDE DEF mine, k
<1>5. TotalOrder(R, mine)
  <2>1. \A x, y \in mine : <<x, y>> \in R <=> x < y
    OBVIOUS
  <2>2. \A x \in mine : x \in Int
    BY <1>2
  <2>. HIDE DEF R
  <2>. QED BY <2>1, <2>2 DEF TotalOrder
<1>6. Ranked(t, R, mine)
  <2>1. \A i \in mine : Below(R, mine, i) = {j \in mine : j < i}
    BY DEF Below
  <2>2. ASSUME NEW l \in 1..k, \E i \in mine : Cardinality(Below(R, mine, i)) = l - 1
        PROVE  at(l) \in mine /\ Cardinality(Below(R, mine, at(l))) = l - 1
    <3>1. \E i \in mine : Cardinality({j \in mine : j < i}) = l - 1
      BY <2>1, <2>2
    <3>2. at(l) \in mine /\ Cardinality({j \in mine : j < at(l)}) = l - 1
      BY <3>1
    <3>. QED BY <2>1, <3>2
  <2>. HIDE DEF at, R
  <2>. QED BY <2>2 DEF Ranked, k
<1>. HIDE DEF R, at
<1>7. Lists(t, mine) /\ ToSet(t) = mine
  <2>. HIDE DEF t
  <2>. QED BY <1>2, <1>5, <1>6, Enumerated
<1>8. Len(t) = k /\ DOMAIN t = 1..k
  BY <1>4
<1>9. /\ \A l \in 1..k : t[l] \in mine /\ t[l] \in 1..n
      /\ \A i, j \in 1..k : t[i] = t[j] => i = j
      /\ \A i \in mine : \E l \in 1..k : t[l] = i
      /\ \A l \in 1..k : g[l] = items[t[l]]
  <2>1. \A l \in 1..k : g[l] = items[t[l]]
    OBVIOUS
  <2>. HIDE DEF t, g
  <2>. QED BY <1>2, <1>7, <1>8, <2>1 DEF Lists, ToSet
<1>10. g \in Seq(ToSet(g)) /\ Len(g) = k
  <2>1. DOMAIN g = 1..k /\ g = [l \in 1..k |-> g[l]]
    OBVIOUS
  <2>. HIDE DEF g
  <2>. QED BY <1>4, <2>1, FunctionIsSequence
<1>11. DOMAIN g = 1..k
  OBVIOUS
<1>. HIDE DEF g, t
<1>12. Lists(g, ToSet(g))
  <2>1. \A i, j \in 1..k : g[i] = g[j] => i = j
    <3>1. ASSUME NEW i \in 1..k, NEW j \in 1..k, g[i] = g[j] PROVE i = j
      <4>1. t[i] \in 1..n /\ t[j] \in 1..n /\ items[t[i]] = items[t[j]]
        BY <1>9, <3>1
      <4>2. t[i] = t[j]
        BY <4>1
      <4>. QED BY <1>9, <4>2
    <3>. QED BY <3>1
  <2>. QED BY <1>10, <2>1 DEF Lists
<1>13. ToSet(g) = {items[i] : i \in mine}
  BY <1>9, <1>11 DEF ToSet
<1>14. Cardinality(ToSet(g)) = Len(g)
  BY <1>12, ListedCardinality
<1>. QED BY <1>1, <1>3, <1>13, <1>14 DEF Exactly, OfKey

LEMMA OneIsExact ==
  /\ Exactly(<<>>, {})
  /\ \A id : Exactly(<<id>>, {id})
<1>1. ToSet(<<>>) = {} /\ Len(<<>>) = 0 /\ Cardinality({}) = 0
  BY FS_EmptySet DEF ToSet
<1>2. ASSUME NEW id PROVE Exactly(<<id>>, {id})
  <2>1. ToSet(<<id>>) = {id} /\ Len(<<id>>) = 1 /\ Cardinality({id}) = 1
    BY FS_Singleton DEF ToSet
  <2>. QED BY <2>1 DEF Exactly
<1>. QED BY <1>1, <1>2 DEF Exactly

-----------------------------------------------------------------------------
(* One relationship of a collection: whose the related rows are. *)

\* The row of each record.
RowsBehind(at, records, m, byName, tables) ==
  \A i \in 1..Len(records) :
    /\ at[i] \in tables[m] /\ records[i].kind = m
    /\ TrueTo(records[i], at[i], byName, tables)

LEMMA EveryRecordHasRow ==
    ASSUME NEW byName, NEW tables, NEW m, NEW records, Records(records, m), AllFaithful(records, byName, tables)
    PROVE  \E at : RowsBehind(at, records, m, byName, tables)
<1>. DEFINE row(i) == CHOOSE x \in tables[m] : TrueTo(records[i], x, byName, tables)
            at == [i \in 1..Len(records) |-> row(i)]
<1>1. ASSUME NEW i \in 1..Len(records)
      PROVE  at[i] \in tables[m] /\ records[i].kind = m /\ TrueTo(records[i], at[i], byName, tables)
  <2>1. records[i].kind = m
    BY DEF Records, IsRecord
  <2>2. \E x \in tables[m] : TrueTo(records[i], x, byName, tables)
    BY <2>1 DEF AllFaithful, Faithful
  <2>3. row(i) \in tables[m] /\ TrueTo(records[i], row(i), byName, tables)
    BY <2>2
  <2>. QED BY <2>1, <2>3
<1>. HIDE DEF at
<1>. QED BY <1>1 DEF RowsBehind

LEMMA OwnedIs ==
    ASSUME NEW byName, NEW tables, NEW m, NEW x, x.kind = m, NEW row, TrueTo(x, row, byName, tables),
           NEW column, Has(byName[m], x, column)
    PROVE  Owned(byName[m], x, column) = row[column]
BY DEF Owned, Has, TrueTo

\* The own keys that were read, and their values.
KeysRead(s, records, at, r) ==
  /\ \A i \in Holders(s, records, r) :
       i \in 1..Len(records) /\ Owned(s, records[i], r.own) = at[i][r.own]
  /\ OwnKeys(s, records, r.own) = {at[i][r.own] : i \in Holders(s, records, r)} \ {Null}

LEMMA OwnKeysAre ==
    ASSUME NEW byName, NEW tables, NEW m, NEW records, Records(records, m),
           NEW at, RowsBehind(at, records, m, byName, tables), NEW r
    PROVE  KeysRead(byName[m], records, at, r)
<1>. DEFINE s == byName[m]
            holders == Holders(s, records, r)
            own(i) == Owned(s, records[i], r.own)
            keys == {Owned(s, x, r.own) : x \in {y \in ToSet(records) : Has(s, y, r.own)}}
<1>1. DOMAIN records = 1..Len(records)
  BY DEF Records
<1>2. holders = {i \in 1..Len(records) : Has(s, records[i], r.own)}
  BY <1>1 DEF Holders
<1>3. ASSUME NEW i \in holders PROVE own(i) = at[i][r.own]
  <2>. DEFINE x == records[i]
              row == at[i]
              column == r.own
  <2>1. x.kind = m /\ TrueTo(x, row, byName, tables) /\ Has(byName[m], x, column)
    BY <1>2 DEF RowsBehind
  <2>. HIDE DEF x, column, row, s, keys, own, holders
  <2>2. Owned(byName[m], x, column) = row[column]
    BY <2>1, OwnedIs
  <2>. QED BY <2>2 DEF x, column, row, own, s
<1>4. keys = {own(i) : i \in holders}
  <2>1. ToSet(records) = {records[i] : i \in 1..Len(records)}
    BY <1>1 DEF ToSet
  <2>. HIDE DEF s, holders
  <2>. QED BY <1>2, <2>1
<1>5. OwnKeys(s, records, r.own) = keys \ {Null}
  BY DEF OwnKeys
<1>. HIDE DEF s, holders, keys, own
<1>. QED BY <1>2, <1>3, <1>4, <1>5 DEF own, s, holders, KeysRead

\* Whose linkage is set, it is the database's.
LinksTrue(ids, at, r, byName, tables) ==
  \A i \in DOMAIN ids : Exactly(ids[i], Leads(at[i], r, byName, tables))

StillTrue(ys, records, byName, tables) ==
  /\ AllFaithful(ys, byName, tables) /\ Len(ys) = Len(records)
  /\ \A i \in 1..Len(records) : ys[i].id = records[i].id

LEMMA LinkedIsTrue ==
    ASSUME NEW byName, Closed(byName), NEW tables, NEW m \in DOMAIN byName, NEW records, Records(records, m),
           NEW at, RowsBehind(at, records, m, byName, tables), NEW r \in Relationships(byName[m]),
           NEW ids, DOMAIN ids \subseteq 1..Len(records),
           LinksTrue(ids, at, r, byName, tables),
           NEW ys, ys = Linked(records, r, ids)
    PROVE  StillTrue(ys, records, byName, tables)
<1>. DEFINE s == byName[m]
<1>1. /\ Records(ys, m) /\ Len(ys) = Len(records)
      /\ \A i \in 1..Len(records) :
           /\ ys[i].id = records[i].id /\ ys[i].columns = records[i].columns
           /\ ys[i].relationships = IF i \in DOMAIN ids THEN Put(records[i].relationships, r.name, ids[i])
                                    ELSE records[i].relationships
  BY LinkedIs
<1>2. Relationship(s, r.name) = r
  BY RelationshipIs DEF Closed
<1>. HIDE DEF s
<1>3. ASSUME NEW i \in 1..Len(records) PROVE Faithful(ys[i], byName, tables)
  <2>. DEFINE x == records[i]
              y == ys[i]
              row == at[i]
  <2>1. /\ y.kind = m /\ x.kind = m
        /\ y.id = x.id /\ y.columns = x.columns
        /\ TrueTo(x, row, byName, tables) /\ row \in tables[m]
    BY <1>1 DEF Records, IsRecord, RowsBehind
  <2>2. y.relationships = IF i \in DOMAIN ids THEN Put(x.relationships, r.name, ids[i]) ELSE x.relationships
    BY <1>1
  <2>3. i \in DOMAIN ids => Exactly(ids[i], Leads(row, r, byName, tables))
    BY DEF LinksTrue
  <2>. HIDE DEF x, y, row
  <2>4. \A name \in DOMAIN x.relationships :
          Exactly(x.relationships[name], Leads(row, Relationship(s, name), byName, tables))
    BY <2>1 DEF TrueTo, s
  <2>5. \A name \in DOMAIN y.relationships :
          Exactly(y.relationships[name], Leads(row, Relationship(s, name), byName, tables))
    <3>1. CASE i \notin DOMAIN ids
      BY <2>2, <2>4, <3>1
    <3>2. CASE i \in DOMAIN ids
      <4>1. DOMAIN y.relationships = DOMAIN x.relationships \cup {r.name}
        BY <2>2, <3>2 DEF Put
      <4>2. \A name \in DOMAIN y.relationships :
              y.relationships[name] = IF name = r.name THEN ids[i] ELSE x.relationships[name]
        BY <2>2, <3>2 DEF Put
      <4>. QED BY <1>2, <2>3, <2>4, <3>2, <4>1, <4>2
    <3>. QED BY <3>1, <3>2
  <2>6. TrueTo(y, row, byName, tables)
    BY <2>1, <2>5 DEF TrueTo, s
  <2>. QED BY <2>1, <2>6 DEF Faithful, y
<1>. QED BY <1>1, <1>3 DEF AllFaithful, StillTrue

\* What was read of the other side of a relationship: rows that hold one of the keys.
Found(found, rows, column, keys, t, byName, tables) ==
  /\ Lists(rows, tables[t])
  /\ ToSet(rows) = {row \in tables[t] : row[column] \in keys}
  /\ Records(found, t) /\ Len(found) = Len(rows)
  /\ AllFaithful(found, byName, tables) /\ Distinct(found)
  /\ \A i \in 1..Len(rows) :
       /\ rows[i] \in tables[t] /\ TrueTo(found[i], rows[i], byName, tables)
       /\ found[i].id = rows[i][byName[t].key.name]
       /\ found[i].kind = t

LEMMA CollectionFound ==
    ASSUME NEW byName, Closed(byName), NEW tables, KeptAll(byName, tables), NEW t \in DOMAIN byName,
           NEW column, NEW keys, Null \notin keys, NEW fields,
           NEW answer, answer = LoadCollectionBy(byName[t], column, keys, fields, tables[t]),
           answer.error = "none"
    PROVE  \E rows : Found(answer.rows, rows, column, keys, t, byName, tables)
<1>1. PICK rows : /\ Lists(rows, tables[t])
                  /\ ToSet(rows) = {row \in tables[t] : row[column] \in keys}
                  /\ answer.rows = Reads(byName[t], rows, fields)
                  /\ rows # <<>> => ~ FieldsPanic(byName[t], fields)
  <2>1. Collected(answer.rows, column, keys, byName[t], fields, tables[t])
    BY CollectionReads
  <2>. QED BY <2>1 DEF Collected
<1>. DEFINE xs == answer.rows
<1>2. xs = Reads(byName[t], rows, fields)
  BY <1>1
<1>. HIDE DEF xs
<1>3. /\ Records(xs, t) /\ Len(xs) = Len(rows)
      /\ AllFaithful(xs, byName, tables) /\ Distinct(xs)
      /\ \A i \in 1..Len(rows) :
           /\ rows[i] \in tables[t] /\ TrueTo(xs[i], rows[i], byName, tables)
           /\ xs[i].id = rows[i][byName[t].key.name]
           /\ xs[i].kind = t
  BY <1>1, <1>2, RowsRead
<1>4. Found(xs, rows, column, keys, t, byName, tables)
  BY <1>1, <1>3 DEF Found
<1>. QED BY <1>4 DEF xs

LEMMA NothingFound ==
    ASSUME NEW byName, NEW tables, NEW t, NEW column
    PROVE  Found(<<>>, <<>>, column, {}, t, byName, tables)
<1>1. Lists(<<>>, tables[t]) /\ ToSet(<<>>) = {} /\ Records(<<>>, t) /\ Len(<<>>) = 0
  BY DEF Lists, ToSet, Records
<1>. QED BY <1>1 DEF Found, AllFaithful, Distinct

\* A belongs_to on the key needs no row.
LEMMA KeyLeadsToItself ==
    ASSUME NEW byName, Closed(byName), NEW tables, KeptAll(byName, tables), NEW m \in DOMAIN byName,
           NEW r \in Relationships(byName[m]), r.kind = "belongs_to", r.related = byName[r.resource].key.name,
           NEW row \in tables[m]
    PROVE  Exactly(IF row[r.own] = Null THEN <<>> ELSE <<row[r.own]>>, Leads(row, r, byName, tables))
<1>1. row[r.own] # Null => \E u \in tables[r.resource] : u[r.related] = row[r.own]
  BY RowsAre DEF Resolves
<1>2. CASE row[r.own] = Null
  BY <1>2, OneIsExact DEF Leads
<1>3. CASE row[r.own] # Null
  <2>1. Leads(row, r, byName, tables) = {row[r.own]}
    BY <1>1, <1>3 DEF Leads
  <2>. QED BY <1>3, <2>1, OneIsExact
<1>. QED BY <1>2, <1>3

\* The keys and the ids of the rows, row by row.
Aligned(ks, is, rows, column, name, keys) ==
  /\ DOMAIN ks = 1..Len(rows) /\ Len(rows) \in Nat /\ DOMAIN rows = 1..Len(rows)
  /\ \A i \in 1..Len(rows) : ks[i] = rows[i][column] /\ is[i] = rows[i][name]
  /\ ToSet(ks) \subseteq keys

LEMMA KeysAreColumns ==
    ASSUME NEW byName, NEW tables, NEW r, NEW t, NEW column, column = r.related, NEW found, NEW rows, NEW keys,
           Found(found, rows, column, keys, t, byName, tables), ~ KeyMissing(r, byName[t], found)
    PROVE  Aligned(KeysOf(r, found), IdsOf(found), rows, column, byName[t].key.name, keys)
<1>1. DOMAIN found = 1..Len(rows) /\ Len(rows) \in Nat /\ DOMAIN rows = 1..Len(rows)
  BY DEF Found, Records, Lists
<1>2. ASSUME NEW i \in 1..Len(rows) PROVE found[i].columns[column] = rows[i][column]
  <2>1. column \in DOMAIN found[i].columns
    BY <1>1 DEF KeyMissing
  <2>. QED BY <2>1 DEF Found, TrueTo
<1>3. /\ DOMAIN KeysOf(r, found) = 1..Len(rows) /\ DOMAIN IdsOf(found) = 1..Len(rows)
      /\ \A i \in 1..Len(rows) : /\ KeysOf(r, found)[i] = rows[i][column]
                                 /\ IdsOf(found)[i] = rows[i][byName[t].key.name]
  BY <1>1, <1>2 DEF KeysOf, IdsOf, Found
<1>4. \A i \in 1..Len(rows) : rows[i] \in ToSet(rows)
  BY <1>1 DEF ToSet
<1>5. ToSet(KeysOf(r, found)) \subseteq keys
  <2>1. \A i \in 1..Len(rows) : rows[i][column] \in keys
    BY <1>4 DEF Found
  <2>. QED BY <1>3, <2>1 DEF ToSet
<1>. QED BY <1>1, <1>3, <1>5 DEF Aligned

\* Off the key, the one row that holds it.
LEMMA IndexLeads ==
    ASSUME NEW byName, Closed(byName), NEW tables, KeptAll(byName, tables), NEW m \in DOMAIN byName,
           NEW r \in Relationships(byName[m]), r.kind = "belongs_to", NEW row \in tables[m], row[r.own] # Null,
           NEW found, NEW rows, NEW keys, Found(found, rows, r.related, keys, r.resource, byName, tables),
           ~ KeyMissing(r, byName[r.resource], found),
           NEW index, index = Indexed(KeysOf(r, found), IdsOf(found)), row[r.own] \in DOMAIN index
    PROVE  Exactly(<<index[row[r.own]]>>, Leads(row, r, byName, tables))
<1>. DEFINE t == r.resource
            n == Len(rows)
            ks == KeysOf(r, found)
            is == IdsOf(found)
            key == row[r.own]
            i == CHOOSE j \in DOMAIN ks : ks[j] = key
            name == byName[t].key.name
<1>1. t \in DOMAIN byName /\ r.related \in Unique(byName[t], byName)
  BY OwnIsColumn
<1>2. /\ DOMAIN ks = 1..n
      /\ \A j \in 1..n : ks[j] = rows[j][r.related] /\ is[j] = rows[j][name] /\ rows[j] \in tables[t]
  <2>. DEFINE column == r.related
              other == t
  <2>1. Found(found, rows, column, keys, other, byName, tables) /\ ~ KeyMissing(r, byName[other], found)
        /\ column = r.related
    OBVIOUS
  <2>. HIDE DEF column, other, key, i
  <2>2. Aligned(ks, is, rows, column, byName[other].key.name, keys)
    BY <2>1, KeysAreColumns
  <2>3. \A j \in 1..n : rows[j] \in tables[other]
    BY <2>1 DEF Found
  <2>. QED BY <2>2, <2>3 DEF column, other, Aligned
<1>. HIDE DEF ks, is
<1>3. DOMAIN index = ToSet(ks) /\ index = [k \in ToSet(ks) |-> is[CHOOSE j \in DOMAIN ks : ks[j] = k]]
  BY DEF Indexed, ks, is
<1>4. i \in 1..n /\ ks[i] = key /\ index[key] = is[i]
  <2>1. \E j \in DOMAIN ks : ks[j] = key
    BY <1>3 DEF ToSet
  <2>. QED BY <1>2, <1>3, <2>1
<1>. HIDE DEF i
<1>5. rows[i] \in tables[t] /\ rows[i][r.related] = key /\ index[key] = rows[i][name]
  BY <1>2, <1>4
<1>6. \A u \in tables[t] : u[r.related] = key => u = rows[i]
  <2>1. \A c \in Unique(byName[t], byName) : \A x, y \in tables[t] : x[c] = y[c] /\ x[c] # Null => x = y
    BY <1>1, RowsAre
  <2>. QED BY <1>1, <1>5, <2>1
<1>7. Leads(row, r, byName, tables) = {index[key]}
  BY <1>5, <1>6 DEF Leads
<1>. QED BY <1>7, OneIsExact

\* A group has the ids of all the rows that hold its key.
LEMMA GroupLeads ==
    ASSUME NEW byName, Closed(byName), NEW tables, KeptAll(byName, tables), NEW m \in DOMAIN byName,
           NEW r \in Relationships(byName[m]), NEW row \in tables[m],
           NEW found, NEW rows, NEW keys, Found(found, rows, r.related, keys, r.resource, byName, tables),
           ~ KeyMissing(r, byName[r.resource], found), Null \notin keys, row[r.own] = Null \/ row[r.own] \in keys,
           NEW index, index = Grouped(KeysOf(r, found), IdsOf(found))
    PROVE  Exactly(IF row[r.own] \in DOMAIN index THEN index[row[r.own]] ELSE <<>>, Leads(row, r, byName, tables))
<1>. DEFINE t == r.resource
            n == Len(rows)
            ks == KeysOf(r, found)
            is == IdsOf(found)
            key == row[r.own]
            name == byName[t].key.name
            mine == OfKey(ks, is, key, n)
<1>1. t \in DOMAIN byName
  BY OwnIsColumn
<1>2. /\ DOMAIN ks = 1..n /\ n \in Nat /\ DOMAIN rows = 1..n
      /\ \A j \in 1..n : ks[j] = rows[j][r.related] /\ is[j] = rows[j][name] /\ rows[j] \in tables[t]
      /\ ToSet(ks) \subseteq keys
  <2>. DEFINE column == r.related
              other == t
  <2>1. Found(found, rows, column, keys, other, byName, tables) /\ ~ KeyMissing(r, byName[other], found)
        /\ column = r.related
    OBVIOUS
  <2>. HIDE DEF column, other, key, mine
  <2>2. Aligned(ks, is, rows, column, byName[other].key.name, keys)
    BY <2>1, KeysAreColumns
  <2>3. \A j \in 1..n : rows[j] \in tables[other]
    BY <2>1 DEF Found
  <2>. QED BY <2>2, <2>3 DEF column, other, Aligned
<1>3. ToSet(rows) = {u \in tables[t] : u[r.related] \in keys} /\ \A i, j \in 1..n : rows[i] = rows[j] => i = j
  BY DEF Found, Lists
<1>. HIDE DEF ks, is
<1>4. DOMAIN index = ToSet(ks)
  BY DEF Grouped, ks
<1>5. \A i, j \in 1..n : is[i] = is[j] => i = j
  <2>1. \A x, y \in tables[t] : x[name] = y[name] => x = y
    BY <1>1, RowsAre
  <2>. QED BY <1>2, <1>3, <2>1
<1>6. CASE key = Null
  <2>1. key \notin DOMAIN index
    BY <1>2, <1>4, <1>6
  <2>2. Leads(row, r, byName, tables) = {}
    BY <1>6 DEF Leads
  <2>. QED BY <2>1, <2>2, OneIsExact
<1>7. CASE key # Null
  <2>1. Leads(row, r, byName, tables) = {u[name] : u \in {v \in tables[t] : v[r.related] = key}}
    BY <1>7 DEF Leads
  <2>2. {v \in tables[t] : v[r.related] = key} = {rows[i] : i \in {j \in 1..n : ks[j] = key}}
    <3>1. ASSUME NEW v \in tables[t], v[r.related] = key PROVE \E i \in 1..n : ks[i] = key /\ rows[i] = v
      <4>1. v \in ToSet(rows)
        BY <1>3, <1>7, <3>1
      <4>. QED BY <1>2, <3>1, <4>1 DEF ToSet
    <3>. QED BY <1>2, <3>1
  <2>3. Leads(row, r, byName, tables) = mine
    BY <1>2, <2>1, <2>2 DEF OfKey
  <2>4. CASE key \in ToSet(ks)
    <3>1. Exactly(Grouped(ks, is)[key], mine)
      <4>. HIDE DEF n, key
      <4>. QED BY <1>2, <1>5, <2>4, GroupedIs
    <3>. QED BY <1>4, <2>3, <2>4, <3>1 DEF ks, is
  <2>5. CASE key \notin ToSet(ks)
    <3>1. mine = {}
      BY <1>2, <2>5 DEF ToSet, OfKey
    <3>. QED BY <1>4, <2>3, <2>5, <3>1, OneIsExact
  <2>. QED BY <2>4, <2>5
<1>. QED BY <1>6, <1>7

-----------------------------------------------------------------------------
(* load_belongs_to, load_has_one and load_has_many. *)

LoadedTrue(loaded, records, byName, tables) ==
  /\ StillTrue(loaded.records, records, byName, tables)
  /\ AllFaithful(loaded.related, byName, tables) /\ Distinct(loaded.related)

LEMMA BelongsToTrue ==
    ASSUME NEW byName, Closed(byName), NEW tables, KeptAll(byName, tables), NEW m \in DOMAIN byName,
           NEW records, Records(records, m), AllFaithful(records, byName, tables),
           NEW r \in Relationships(byName[m]), r.kind = "belongs_to", NEW fields, NEW include,
           NEW loaded, loaded = LoadBelongsTo(byName[m], byName[r.resource], r, records, fields, include,
                                              tables[r.resource]),
           loaded.error = "none"
    PROVE  LoadedTrue(loaded, records, byName, tables)
<1>. DEFINE s == byName[m]
            t == r.resource
            target == byName[t]
            onKey == r.related = target.key.name
            requested == IsRequested(fields, s.name, r.name)
            needed == include \/ (requested /\ ~ onKey)
            keys == OwnKeys(s, records, r.own)
            asked == LoadCollectionBy(target, r.related, keys, fields, tables[t])
            found == IF needed THEN asked ELSE Answer(<<>>)
            related == found.rows
            index == Indexed(KeysOf(r, related), IdsOf(related))
            own(i) == Owned(s, records[i], r.own)
            id(i) == IF own(i) = Null THEN <<>>
                     ELSE IF onKey THEN <<own(i)>> ELSE <<index[own(i)]>>
            ids == [i \in Holders(s, records, r) |-> id(i)]
            fault == IndexFault(r, target, related)
            missing == ~ onKey /\ ~ keys \subseteq DOMAIN index
<1>1. loaded = IF found.error # "none" THEN NotLoaded(found.error)
               ELSE IF ~ requested THEN Loaded(records, related)
               ELSE IF ~ onKey /\ fault # "none" THEN NotLoaded(fault)
               ELSE IF missing THEN NotLoaded("DataLoadingError")
               ELSE Loaded(Linked(records, r, ids), related)
  BY DEF LoadBelongsTo
<1>2. /\ found.error = "none" /\ loaded.related = related
      /\ loaded.records = IF requested THEN Linked(records, r, ids) ELSE records
      /\ requested /\ ~ onKey => fault = "none" /\ keys \subseteq DOMAIN index
  <2>. HIDE DEF ids, found, fault, index, keys, requested, onKey
  <2>. QED BY <1>1 DEF NotLoaded, Loaded
<1>3. PICK at : RowsBehind(at, records, m, byName, tables)
  BY EveryRecordHasRow
<1>4. /\ \A i \in Holders(s, records, r) : i \in 1..Len(records) /\ own(i) = at[i][r.own]
      /\ keys = {at[i][r.own] : i \in Holders(s, records, r)} \ {Null}
  <2>1. KeysRead(byName[m], records, at, r)
    BY <1>3, OwnKeysAre
  <2>. QED BY <2>1 DEF KeysRead
<1>5. t \in DOMAIN byName
  BY OwnIsColumn
<1>. HIDE DEF s, keys, asked
<1>6. Null \notin keys
  BY <1>4
<1>7. \E rows, some : Found(related, rows, r.related, some, t, byName, tables)
  <2>1. CASE needed
    <3>. DEFINE other == t
                column == r.related
    <3>1. other \in DOMAIN byName /\ asked = LoadCollectionBy(byName[other], column, keys, fields, tables[other])
      BY <1>5 DEF asked
    <3>2. asked.error = "none" /\ related = asked.rows
      BY <1>2, <2>1
    <3>. HIDE DEF other, column, related
    <3>3. \E rows : Found(asked.rows, rows, column, keys, other, byName, tables)
      BY <1>6, <3>1, <3>2, CollectionFound
    <3>. QED BY <3>2, <3>3 DEF other, column
  <2>2. CASE ~ needed
    <3>1. related = <<>>
      BY <2>2 DEF Answer
    <3>2. Found(<<>>, <<>>, r.related, {}, t, byName, tables)
      BY NothingFound
    <3>. QED BY <3>1, <3>2
  <2>. QED BY <2>1, <2>2
<1>. HIDE DEF found
<1>8. PICK rows, some : Found(related, rows, r.related, some, t, byName, tables)
  BY <1>7
<1>9. AllFaithful(related, byName, tables) /\ Distinct(related)
  BY <1>8 DEF Found
<1>10. ASSUME requested, NEW i \in Holders(s, records, r) PROVE Exactly(id(i), Leads(at[i], r, byName, tables))
  <2>. DEFINE row == at[i]
  <2>1. row \in tables[m] /\ own(i) = row[r.own]
    BY <1>3, <1>4 DEF RowsBehind
  <2>2. CASE onKey
    <3>1. id(i) = IF row[r.own] = Null THEN <<>> ELSE <<row[r.own]>>
      BY <2>1, <2>2
    <3>. HIDE DEF row, id, own, t, target
    <3>2. Exactly(IF row[r.own] = Null THEN <<>> ELSE <<row[r.own]>>, Leads(row, r, byName, tables))
      BY <2>1, <2>2, KeyLeadsToItself DEF t, target
    <3>. QED BY <3>1, <3>2 DEF row
  <2>3. CASE own(i) = Null
    <3>1. id(i) = <<>> /\ Leads(row, r, byName, tables) = {}
      BY <2>1, <2>3 DEF Leads
    <3>. QED BY <3>1, OneIsExact
  <2>4. CASE ~ onKey /\ own(i) # Null
    <3>1. id(i) = <<index[row[r.own]]>>
      BY <2>1, <2>4
    <3>2. row[r.own] \in DOMAIN index
      <4>. HIDE DEF index
      <4>. QED BY <1>2, <1>4, <1>10, <2>1, <2>4
    <3>3. ~ KeyMissing(r, target, related)
      BY <1>2, <1>10, <2>4 DEF IndexFault
    <3>4. row[r.own] # Null
      BY <2>1, <2>4
    <3>. HIDE DEF row, id, own, index
    <3>5. Exactly(<<index[row[r.own]]>>, Leads(row, r, byName, tables))
      <4>1. Found(related, rows, r.related, some, r.resource, byName, tables) /\ ~ KeyMissing(r, byName[r.resource], related)
        BY <1>8, <3>3
      <4>2. index = Indexed(KeysOf(r, related), IdsOf(related))
        BY DEF index
      <4>. HIDE DEF t, target, related
      <4>. QED BY <2>1, <3>2, <3>4, <4>1, <4>2, IndexLeads
    <3>. QED BY <3>1, <3>5 DEF row
  <2>. QED BY <2>2, <2>3, <2>4
<1>11. DOMAIN ids \subseteq 1..Len(records) /\ (requested => LinksTrue(ids, at, r, byName, tables))
  <2>. HIDE DEF id
  <2>. QED BY <1>4, <1>10 DEF LinksTrue
<1>. HIDE DEF ids, requested
<1>12. StillTrue(loaded.records, records, byName, tables)
  <2>. DEFINE ys == loaded.records
  <2>1. CASE ~ requested
    <3>1. ys = records
      BY <1>2, <2>1
    <3>. HIDE DEF ys
    <3>2. StillTrue(ys, records, byName, tables)
      BY <3>1 DEF StillTrue
    <3>. QED BY <3>2 DEF ys
  <2>2. CASE requested
    <3>1. ys = Linked(records, r, ids)
      BY <1>2, <2>2
    <3>2. DOMAIN ids \subseteq 1..Len(records) /\ LinksTrue(ids, at, r, byName, tables)
      BY <1>11, <2>2
    <3>. HIDE DEF ys
    <3>3. StillTrue(ys, records, byName, tables)
      BY <1>3, <3>1, <3>2, LinkedIsTrue
    <3>. QED BY <3>3 DEF ys
  <2>. QED BY <2>1, <2>2
<1>. QED BY <1>2, <1>9, <1>12 DEF LoadedTrue

LEMMA HasTrue ==
    ASSUME NEW byName, Closed(byName), NEW tables, KeptAll(byName, tables), NEW m \in DOMAIN byName,
           NEW records, Records(records, m), AllFaithful(records, byName, tables), Distinct(records),
           NEW r \in Relationships(byName[m]), r.kind # "belongs_to", NEW fields,
           NEW loaded, loaded = LoadHas(byName[m], byName[r.resource], r, records, fields, tables[r.resource]),
           loaded.error = "none"
    PROVE  LoadedTrue(loaded, records, byName, tables)
<1>. DEFINE s == byName[m]
            t == r.resource
            target == byName[t]
            requested == IsRequested(fields, s.name, r.name)
            keys == OwnKeys(s, records, r.own)
            found == LoadCollectionBy(target, r.related, keys, fields, tables[t])
            related == found.rows
            index == Grouped(KeysOf(r, related), IdsOf(related))
            own(i) == Owned(s, records[i], r.own)
            taken(i) == r.kind = "has_many"
                          /\ \E j \in Holders(s, records, r) : j < i /\ own(j) = own(i)
            id(i) == IF own(i) \in DOMAIN index /\ ~ taken(i) THEN index[own(i)] ELSE <<>>
            ids == [i \in Holders(s, records, r) |-> id(i)]
            fault == IndexFault(r, target, related)
<1>1. loaded = IF found.error # "none" THEN NotLoaded(found.error)
               ELSE IF fault # "none" THEN NotLoaded(fault)
               ELSE IF ~ requested THEN Loaded(records, related)
               ELSE Loaded(Linked(records, r, ids), related)
  BY DEF LoadHas
<1>2. /\ found.error = "none" /\ loaded.related = related /\ fault = "none"
      /\ loaded.records = IF requested THEN Linked(records, r, ids) ELSE records
  <2>. HIDE DEF ids, found, fault, requested
  <2>. QED BY <1>1 DEF NotLoaded, Loaded
<1>3. PICK at : RowsBehind(at, records, m, byName, tables)
  BY EveryRecordHasRow
<1>4. /\ \A i \in Holders(s, records, r) : i \in 1..Len(records) /\ own(i) = at[i][r.own]
      /\ keys = {at[i][r.own] : i \in Holders(s, records, r)} \ {Null}
  <2>1. KeysRead(byName[m], records, at, r)
    BY <1>3, OwnKeysAre
  <2>. QED BY <2>1 DEF KeysRead
<1>5. t \in DOMAIN byName
  BY OwnIsColumn
<1>. HIDE DEF keys, found
<1>6. Null \notin keys
  BY <1>4
<1>7. PICK rows : Found(related, rows, r.related, keys, t, byName, tables)
  <2>. DEFINE other == t
              column == r.related
  <2>1. other \in DOMAIN byName /\ found = LoadCollectionBy(byName[other], column, keys, fields, tables[other])
    BY <1>5 DEF found
  <2>. HIDE DEF other, column
  <2>2. \E rows : Found(found.rows, rows, column, keys, other, byName, tables)
    BY <1>2, <1>6, <2>1, CollectionFound
  <2>. QED BY <2>2 DEF other, column
<1>8. AllFaithful(related, byName, tables) /\ Distinct(related)
  BY <1>7 DEF Found
<1>9. ~ KeyMissing(r, target, related)
  BY <1>2 DEF IndexFault
\* Two records with one key are one.
<1>10. ASSUME NEW i \in Holders(s, records, r), NEW j \in Holders(s, records, r), at[i][r.own] # Null,
              at[i][r.own] = at[j][r.own]
       PROVE  i = j
  <2>1. /\ i \in 1..Len(records) /\ j \in 1..Len(records)
        /\ at[i] \in tables[m] /\ at[j] \in tables[m]
        /\ at[i][s.key.name] = records[i].id /\ at[j][s.key.name] = records[j].id
    BY <1>3, <1>4 DEF RowsBehind, TrueTo
  <2>2. r.own \in Unique(s, byName)
    BY OwnIsColumn
  <2>3. at[i] = at[j]
    <3>1. \A c \in Unique(s, byName) : \A x, y \in tables[m] : x[c] = y[c] /\ x[c] # Null => x = y
      BY RowsAre
    <3>. QED BY <1>10, <2>1, <2>2, <3>1
  <2>. QED BY <2>1, <2>3 DEF Distinct
<1>11. ASSUME NEW i \in Holders(s, records, r) PROVE Exactly(id(i), Leads(at[i], r, byName, tables))
  <2>. DEFINE row == at[i]
              group == IF row[r.own] \in DOMAIN index THEN index[row[r.own]] ELSE <<>>
  <2>1. row \in tables[m] /\ own(i) = row[r.own] /\ (row[r.own] = Null \/ row[r.own] \in keys) /\ i \in 1..Len(records)
    BY <1>3, <1>4 DEF RowsBehind
  <2>2. Exactly(group, Leads(row, r, byName, tables))
    <3>1. Found(related, rows, r.related, keys, r.resource, byName, tables) /\ ~ KeyMissing(r, byName[r.resource], related)
      BY <1>7, <1>9
    <3>2. index = Grouped(KeysOf(r, related), IdsOf(related))
      OBVIOUS
    <3>. HIDE DEF t, target, related, index, row
    <3>. QED BY <1>6, <2>1, <3>1, <3>2, GroupLeads
  <2>3. CASE row[r.own] = Null
    <3>1. Leads(row, r, byName, tables) = {}
      BY <2>3 DEF Leads
    <3>2. row[r.own] \notin DOMAIN index
      <4>1. DOMAIN index = ToSet(KeysOf(r, related))
        BY DEF Grouped
      <4>2. ToSet(KeysOf(r, related)) \subseteq keys
        <5>. DEFINE column == r.related
        <5>1. column = r.related /\ Found(related, rows, column, keys, t, byName, tables) /\ ~ KeyMissing(r, byName[t], related)
          BY <1>7, <1>9
        <5>. HIDE DEF column, related, t
        <5>2. Aligned(KeysOf(r, related), IdsOf(related), rows, column, byName[t].key.name, keys)
          BY <5>1, KeysAreColumns
        <5>. QED BY <5>2 DEF Aligned
      <4>. QED BY <1>6, <2>3, <4>1, <4>2
    <3>3. id(i) = <<>>
      <4>. HIDE DEF index
      <4>. QED BY <2>1, <3>2
    <3>. QED BY <3>1, <3>3, OneIsExact
  <2>4. CASE row[r.own] # Null
    <3>1. ~ taken(i)
      <4>1. ASSUME NEW j \in Holders(s, records, r), j < i, own(j) = own(i) PROVE FALSE
        <5>1. at[j][r.own] = at[i][r.own] /\ at[j][r.own] # Null
          BY <1>4, <2>1, <2>4, <4>1
        <5>2. j = i
          BY <1>10, <5>1
        <5>. QED BY <2>1, <4>1, <5>2
      <4>. QED BY <4>1
    <3>2. id(i) = group
      <4>. HIDE DEF taken, index
      <4>. QED BY <2>1, <3>1
    <3>. QED BY <2>2, <3>2
  <2>. QED BY <2>3, <2>4
<1>12. DOMAIN ids \subseteq 1..Len(records) /\ LinksTrue(ids, at, r, byName, tables)
  <2>. HIDE DEF id
  <2>. QED BY <1>4, <1>11 DEF LinksTrue
<1>. HIDE DEF ids, requested
<1>13. StillTrue(loaded.records, records, byName, tables)
  <2>. DEFINE ys == loaded.records
  <2>1. CASE ~ requested
    <3>1. ys = records
      BY <1>2, <2>1
    <3>. HIDE DEF ys
    <3>2. StillTrue(ys, records, byName, tables)
      BY <3>1 DEF StillTrue
    <3>. QED BY <3>2 DEF ys
  <2>2. CASE requested
    <3>1. ys = Linked(records, r, ids)
      BY <1>2, <2>2
    <3>2. DOMAIN ids \subseteq 1..Len(records) /\ LinksTrue(ids, at, r, byName, tables)
      BY <1>12, <2>2
    <3>. HIDE DEF ys
    <3>3. StillTrue(ys, records, byName, tables)
      BY <1>3, <3>1, <3>2, LinkedIsTrue
    <3>. QED BY <3>3 DEF ys
  <2>. QED BY <2>1, <2>2
<1>. QED BY <1>2, <1>8, <1>13 DEF LoadedTrue

LEMMA RelatedTrue ==
    ASSUME NEW byName, Closed(byName), NEW tables, KeptAll(byName, tables), NEW m \in DOMAIN byName,
           NEW records, Records(records, m), AllFaithful(records, byName, tables), Distinct(records),
           NEW r \in Relationships(byName[m]), NEW fields, NEW include,
           NEW loaded, loaded = LoadRelated(byName[m], byName[r.resource], r, records, fields, include,
                                            tables[r.resource]),
           loaded.error = "none"
    PROVE  LoadedTrue(loaded, records, byName, tables)
<1>1. CASE r.kind = "belongs_to"
  <2>1. loaded = LoadBelongsTo(byName[m], byName[r.resource], r, records, fields, include, tables[r.resource])
    BY <1>1 DEF LoadRelated
  <2>. QED BY <1>1, <2>1, BelongsToTrue
<1>2. CASE r.kind # "belongs_to"
  <2>1. loaded = LoadHas(byName[m], byName[r.resource], r, records, fields, tables[r.resource])
    BY <1>2 DEF LoadRelated
  <2>. QED BY <1>2, <2>1, HasTrue
<1>. QED BY <1>1, <1>2

-----------------------------------------------------------------------------
(* The cache: two copies of a record are of one row. *)

CacheTrue(c, byName, tables) == \A key \in DOMAIN c : Faithful(c[key], byName, tables)

LEMMA BothTrue ==
    ASSUME NEW byName, Closed(byName), NEW tables, KeptAll(byName, tables),
           NEW x, Faithful(x, byName, tables), NEW z, Faithful(z, byName, tables),
           NEW y, y.kind = x.kind, z.kind = x.kind, y.id = x.id, z.id = x.id, y.columns = z.columns,
           y.relationships = Over(z.relationships, x.relationships)
    PROVE  Faithful(y, byName, tables)
<1>. DEFINE m == x.kind
            key == byName[m].key.name
<1>1. PICK row \in tables[m] : TrueTo(x, row, byName, tables)
  BY DEF Faithful
<1>2. PICK other \in tables[m] : TrueTo(z, other, byName, tables)
  BY DEF Faithful
<1>3. m \in DOMAIN byName /\ row[key] = x.id /\ other[key] = x.id
  BY <1>1, <1>2 DEF Faithful, TrueTo
<1>4. row = other
  <2>1. \A v, w \in tables[m] : v[key] = w[key] => v = w
    BY <1>3, RowsAre
  <2>. QED BY <1>3, <2>1
<1>5. \A name \in DOMAIN y.relationships :
        /\ name \in DOMAIN x.relationships \cup DOMAIN z.relationships
        /\ y.relationships[name] = IF name \in DOMAIN z.relationships THEN z.relationships[name]
                                   ELSE x.relationships[name]
  BY DEF Over
<1>6. TrueTo(y, row, byName, tables)
  BY <1>1, <1>2, <1>4, <1>5 DEF TrueTo
<1>. QED BY <1>3, <1>6 DEF Faithful

LEMMA MergeIsTrue ==
    ASSUME NEW byName, Closed(byName), NEW tables, KeptAll(byName, tables),
           NEW c, Keyed(c), CacheTrue(c, byName, tables),
           NEW x, IsRecord(x, x.kind), Faithful(x, byName, tables)
    PROVE  CacheTrue(Merge(c, x), byName, tables)
<1>. DEFINE key == Identifier(x)
            d == Merge(c, x)
<1>1. /\ Keyed(d) /\ DOMAIN d = DOMAIN c \cup {key}
      /\ \A k \in DOMAIN c : k # key => d[k] = c[k]
      /\ key \notin DOMAIN c => d[key] = x
      /\ key \in DOMAIN c =>
           /\ d[key].columns = c[key].columns
           /\ d[key].relationships = Over(c[key].relationships, x.relationships)
  BY MergeIs
<1>. HIDE DEF d
<1>2. Faithful(d[key], byName, tables)
  <2>1. CASE key \notin DOMAIN c
    BY <1>1, <2>1
  <2>2. CASE key \in DOMAIN c
    <3>. DEFINE z == c[key]
                y == d[key]
    <3>1. Identifier(z) = key /\ Identifier(y) = key
      BY <1>1, <2>2 DEF Keyed
    <3>2. y.columns = z.columns /\ y.relationships = Over(z.relationships, x.relationships)
      BY <1>1, <2>2
    <3>3. Faithful(z, byName, tables)
      BY <2>2 DEF CacheTrue
    <3>. HIDE DEF y, z
    <3>4. y.kind = x.kind /\ z.kind = x.kind /\ y.id = x.id /\ z.id = x.id
      BY <3>1 DEF Identifier
    <3>5. Faithful(y, byName, tables)
      BY <3>2, <3>3, <3>4, BothTrue
    <3>. QED BY <3>5 DEF y
  <2>. QED BY <2>1, <2>2
<1>3. \A k \in DOMAIN c : k # key => Faithful(d[k], byName, tables)
  BY <1>1 DEF CacheTrue
<1>. QED BY <1>1, <1>2, <1>3 DEF CacheTrue, d

LEMMA MergeAllIsTrue ==
    ASSUME NEW byName, Closed(byName), NEW tables, KeptAll(byName, tables),
           NEW c, Keyed(c), CacheTrue(c, byName, tables),
           NEW kind, NEW records, Records(records, kind), AllFaithful(records, byName, tables)
    PROVE  CacheTrue(MergeAll(c, records), byName, tables)
<1>. DEFINE n == Len(records)
            after == Merging(c, records)
            Well(i) == Keyed(after[i]) /\ CacheTrue(after[i], byName, tables)
            S == {i \in 0..n : Well(i)}
<1>1. n \in Nat /\ \A i \in 1..n : IsRecord(records[i], records[i].kind)
  BY DEF Records, IsRecord
<1>2. after[0] = c /\ \A i \in 1..n : after[i] = Merge(after[i - 1], records[i])
  BY <1>1, MergingIs
<1>3. \A i \in 1..n : Faithful(records[i], byName, tables)
  BY DEF AllFaithful
<1>. HIDE DEF after, n
<1>4. 0 \in S
  BY <1>1, <1>2
<1>5. ASSUME NEW i \in 1..n, i - 1 \in S PROVE i \in S
  <2>. DEFINE before == after[i - 1]
              d == after[i]
              x == records[i]
  <2>1. Well(i - 1) /\ i \in 0..n /\ d = Merge(before, x) /\ IsRecord(x, x.kind) /\ Faithful(x, byName, tables)
    BY <1>1, <1>2, <1>3, <1>5
  <2>. HIDE DEF x, before, d
  <2>2. Keyed(before) /\ CacheTrue(before, byName, tables)
    BY <2>1 DEF before
  <2>3. Keyed(d) /\ CacheTrue(d, byName, tables)
    BY <2>1, <2>2, MergeIs, MergeIsTrue
  <2>. QED BY <2>1, <2>3 DEF d
<1>. HIDE DEF Well, S
<1>6. 0..n \subseteq S
  BY <1>1, <1>4, <1>5, BoundedInduction
<1>7. Well(n)
  <2>1. n \in 0..n
    BY <1>1
  <2>. QED BY <1>6, <2>1 DEF S
<1>. QED BY <1>7 DEF MergeAll, Well, after, n

-----------------------------------------------------------------------------
(* Records that are true but for what their client sent. *)

\* A record that is true but for some linkage, which its client sent.
TrueBut(x, spared, row, byName, tables) ==
  LET s == byName[x.kind] IN
  /\ row \in tables[x.kind] /\ row[s.key.name] = x.id
  /\ \A c \in DOMAIN x.columns : x.columns[c] = row[c]
  /\ \A name \in DOMAIN x.relationships \ spared :
       Exactly(x.relationships[name], Leads(row, Relationship(s, name), byName, tables))

FaithfulBut(x, spared, byName, tables) ==
  x.kind \in DOMAIN byName /\ \E row \in tables[x.kind] : TrueBut(x, spared, row, byName, tables)
AllFaithfulBut(xs, spared, byName, tables) ==
  \A i \in 1..Len(xs) : FaithfulBut(xs[i], spared, byName, tables)

LEMMA NothingSpared ==
    ASSUME NEW byName, NEW tables
    PROVE  /\ \A x, spared : Faithful(x, byName, tables) => FaithfulBut(x, spared, byName, tables)
           /\ \A x : FaithfulBut(x, {}, byName, tables) => Faithful(x, byName, tables)
           /\ \A xs, spared : AllFaithful(xs, byName, tables) => AllFaithfulBut(xs, spared, byName, tables)
           /\ \A xs : AllFaithfulBut(xs, {}, byName, tables) => AllFaithful(xs, byName, tables)
<1>1. ASSUME NEW x, NEW spared, Faithful(x, byName, tables) PROVE FaithfulBut(x, spared, byName, tables)
  BY <1>1 DEF Faithful, FaithfulBut, TrueTo, TrueBut
<1>2. ASSUME NEW x, FaithfulBut(x, {}, byName, tables) PROVE Faithful(x, byName, tables)
  BY <1>2 DEF Faithful, FaithfulBut, TrueTo, TrueBut
<1>. QED BY <1>1, <1>2 DEF AllFaithful, AllFaithfulBut

LoadedTrueBut(loaded, records, spared, byName, tables) ==
  /\ AllFaithfulBut(loaded.records, spared, byName, tables) /\ Len(loaded.records) = Len(records)
  /\ \A i \in 1..Len(records) : loaded.records[i].id = records[i].id
  /\ AllFaithful(loaded.related, byName, tables) /\ Distinct(loaded.related)

\* A load of such records: their linkage plays no part in what it adds.
LEMMA BaredLoads ==
    ASSUME NEW byName, Closed(byName), NEW tables, KeptAll(byName, tables), NEW m \in DOMAIN byName,
           NEW spared, NEW records, Records(records, m), AllFaithfulBut(records, spared, byName, tables),
           Distinct(records), NEW r \in Relationships(byName[m]), NEW fields, NEW include,
           NEW loaded, loaded = LoadRelated(byName[m], byName[r.resource], r, records, fields, include,
                                            tables[r.resource]),
           NEW bared, bared = Bared(records),
           NEW other, other = LoadRelated(byName[m], byName[r.resource], r, bared, fields, include,
                                          tables[r.resource])
    PROVE  /\ Records(bared, m) /\ AllFaithful(bared, byName, tables)
           /\ Adds(loaded, other, records, r)
           /\ other.error = "none" => LoadedTrue(other, bared, byName, tables)
<1>1. /\ Records(bared, m) /\ Len(bared) = Len(records)
      /\ \A i \in 1..Len(records) :
           /\ bared[i].kind = records[i].kind /\ bared[i].id = records[i].id
           /\ bared[i].columns = records[i].columns /\ bared[i].relationships = <<>>
  <2>1. BareOf(bared, records, m)
    BY BaredIs
  <2>. QED BY <2>1 DEF BareOf
<1>2. Adds(loaded, other, records, r)
  <2>. DEFINE s == byName[m]
              target == byName[r.resource]
              table == tables[r.resource]
  <2>. HIDE DEF s, target, table
  <2>1. /\ loaded = LoadRelated(s, target, r, records, fields, include, table)
        /\ other = LoadRelated(s, target, r, Bared(records), fields, include, table)
    BY DEF s, target, table
  <2>. QED BY <2>1, LoadAdds
<1>3. AllFaithful(bared, byName, tables) /\ Distinct(bared)
  <2>1. ASSUME NEW i \in 1..Len(records) PROVE Faithful(bared[i], byName, tables)
    <3>1. FaithfulBut(records[i], spared, byName, tables)
      BY DEF AllFaithfulBut
    <3>2. DOMAIN bared[i].relationships = {}
      BY <1>1
    <3>. QED BY <1>1, <3>1, <3>2 DEF FaithfulBut, TrueBut, Faithful, TrueTo
  <2>. QED BY <1>1, <2>1 DEF AllFaithful, Distinct
<1>4. ASSUME other.error = "none" PROVE LoadedTrue(other, bared, byName, tables)
  BY <1>1, <1>3, <1>4, RelatedTrue
<1>. QED BY <1>1, <1>2, <1>3, <1>4

LEMMA SparedTrue ==
    ASSUME NEW byName, Closed(byName), NEW tables, KeptAll(byName, tables), NEW m \in DOMAIN byName,
           NEW spared, NEW records, Records(records, m), AllFaithfulBut(records, spared, byName, tables),
           Distinct(records), NEW r \in Relationships(byName[m]), NEW fields, NEW include,
           NEW loaded, loaded = LoadRelated(byName[m], byName[r.resource], r, records, fields, include,
                                            tables[r.resource]),
           loaded.error = "none"
    PROVE  LoadedTrueBut(loaded, records, spared, byName, tables)
<1>. DEFINE bared == Bared(records)
            other == LoadRelated(byName[m], byName[r.resource], r, bared, fields, include, tables[r.resource])
<1>1. bared = Bared(records)
  OBVIOUS
<1>. HIDE DEF bared
<1>2. other = LoadRelated(byName[m], byName[r.resource], r, bared, fields, include, tables[r.resource])
  OBVIOUS
<1>. HIDE DEF other
<1>3. /\ Records(bared, m) /\ Adds(loaded, other, records, r)
      /\ other.error = "none" => LoadedTrue(other, bared, byName, tables)
  BY <1>1, <1>2, BaredLoads
<1>4. other.error = "none"
  BY <1>3 DEF Adds
<1>5. LoadedTrue(other, bared, byName, tables) /\ Len(bared) = Len(records)
  <2>1. Len(bared) = Len(records)
    <3>1. BareOf(bared, records, m)
      BY <1>1, BaredIs
    <3>. QED BY <3>1 DEF BareOf
  <2>. QED BY <1>3, <1>4, <2>1
<1>6. /\ loaded.related = other.related /\ Len(loaded.records) = Len(records) /\ Len(other.records) = Len(records)
      /\ \A i \in 1..Len(records) :
           LET was == records[i]
               now == loaded.records[i]
               added == other.records[i]
           IN /\ now.kind = was.kind /\ now.id = was.id /\ now.columns = was.columns
              /\ added.kind = was.kind /\ added.id = was.id /\ added.columns = was.columns
              /\ DOMAIN now.relationships = DOMAIN was.relationships \cup DOMAIN added.relationships
              /\ \A name \in DOMAIN now.relationships :
                   now.relationships[name] = IF name \in DOMAIN added.relationships
                                             THEN added.relationships[name] ELSE was.relationships[name]
  BY <1>3 DEF Adds
<1>7. ASSUME NEW i \in 1..Len(records) PROVE FaithfulBut(loaded.records[i], spared, byName, tables)
  <2>. DEFINE was == records[i]
              now == loaded.records[i]
              added == other.records[i]
  <2>1. /\ now.kind = was.kind /\ now.id = was.id /\ now.columns = was.columns
        /\ added.kind = was.kind /\ added.id = was.id
        /\ DOMAIN now.relationships = DOMAIN was.relationships \cup DOMAIN added.relationships
        /\ \A name \in DOMAIN now.relationships :
             now.relationships[name] = IF name \in DOMAIN added.relationships
                                       THEN added.relationships[name] ELSE was.relationships[name]
    BY <1>6
  <2>2. FaithfulBut(was, spared, byName, tables)
    BY DEF AllFaithfulBut
  <2>3. Faithful(added, byName, tables)
    BY <1>5, <1>6 DEF LoadedTrue, StillTrue, AllFaithful
  <2>. HIDE DEF was, now, added
  <2>4. PICK row \in tables[was.kind] : TrueBut(was, spared, row, byName, tables)
    BY <2>2 DEF FaithfulBut
  <2>5. PICK other_row \in tables[was.kind] : TrueTo(added, other_row, byName, tables)
    BY <2>1, <2>3 DEF Faithful
  <2>6. other_row = row
    <3>. DEFINE k == was.kind
    <3>1. k \in DOMAIN byName
      BY <2>2 DEF FaithfulBut
    <3>2. \A x, y \in tables[k] : x[byName[k].key.name] = y[byName[k].key.name] => x = y
      BY <3>1, RowsAre
    <3>3. row[byName[k].key.name] = was.id /\ other_row[byName[k].key.name] = was.id
      BY <2>1, <2>4, <2>5 DEF TrueBut, TrueTo
    <3>. QED BY <2>4, <2>5, <3>2, <3>3
  <2>7. TrueBut(now, spared, row, byName, tables)
    <3>1. \A name \in DOMAIN now.relationships \ spared :
            Exactly(now.relationships[name], Leads(row, Relationship(byName[now.kind], name), byName, tables))
      <4>. TAKE name \in DOMAIN now.relationships \ spared
      <4>1. CASE name \in DOMAIN added.relationships
        BY <2>1, <2>5, <2>6, <4>1 DEF TrueTo
      <4>2. CASE name \notin DOMAIN added.relationships
        BY <2>1, <2>4, <4>2 DEF TrueBut
      <4>. QED BY <4>1, <4>2
    <3>. QED BY <2>1, <2>4, <3>1 DEF TrueBut
  <2>8. now.kind = was.kind /\ was.kind \in DOMAIN byName
    BY <2>1, <2>2 DEF FaithfulBut
  <2>. QED BY <2>4, <2>7, <2>8 DEF FaithfulBut, now
<1>. QED BY <1>5, <1>6, <1>7 DEF AllFaithfulBut, LoadedTrue, LoadedTrueBut

\* Only the primary data of a create has linkage to spare.
FrameTrue(f, spared, byName, tables) ==
  AllFaithfulBut(f.records, spared, byName, tables) /\ Distinct(f.records)
TrueLoading(fs, c, spared, byName, tables) ==
  /\ \A i \in 1..Len(fs) : FrameTrue(fs[i], IF i = 1 THEN spared ELSE {}, byName, tables)
  /\ CacheTrue(c, byName, tables)

-----------------------------------------------------------------------------
(* Every included record is linked from the primary data. *)

\* One round of LinkedFrom: the identifiers that the resources reached so far
\* link to.
Onward(K, resources, links) ==
  K \cup UNION {links[x] : x \in {y \in resources : Identifier(y) \in K}}

ReachIs(reach, start, resources, links) ==
  /\ reach[0] = start
  /\ \A n \in 1..Cardinality(resources) : reach[n] = Onward(reach[n - 1], resources, links)

LEMMA LinkedFromIs ==
    ASSUME NEW resources, IsFiniteSet(resources), NEW start,
           NEW links, links = [x \in resources |-> LinksOf(x)]
    PROVE  \E reach : /\ ReachIs(reach, start, resources, links)
                      /\ LinkedFrom(start, resources) = reach[Cardinality(resources)]
<1>. DEFINE N == Cardinality(resources)
            Round(K) == K \cup UNION {LinksOf(x) : x \in {y \in resources : Identifier(y) \in K}}
            G(f) == [n \in 0..N |-> IF n = 0 THEN start ELSE Round(f[n - 1])]
            reach == CHOOSE f : f = G(f)
            U == start \cup UNION {LinksOf(x) : x \in resources}
            V == SUBSET U
            onward == [K \in V |-> Round(K)]
            step == [i \in 1..N |-> onward]
<1>1. N \in Nat
  BY FS_CardinalityType
<1>2. start \in V /\ onward \in [V -> V]
  OBVIOUS
<1>3. step \in [1..N -> [V -> V]]
  BY <1>2
<1>4. LinkedFrom(start, resources) = reach[N]
  BY DEF LinkedFrom
<1>5. \A K : Round(K) = Onward(K, resources, links)
  <2>. TAKE K
  <2>1. \A x \in resources : links[x] = LinksOf(x)
    OBVIOUS
  <2>. QED BY <2>1 DEF Onward
<1>. HIDE DEF N, V
<1>6. PICK f \in [0..N -> V] : Unfolds(f, N, start, step)
  <2>. HIDE DEF step
  <2>. QED BY <1>1, <1>2, <1>3, Recursion
<1>7. f[0] = start /\ \A i \in 1..N : f[i] = Round(f[i - 1])
  <2>1. ASSUME NEW i \in 1..N PROVE f[i] = Round(f[i - 1])
    <3>1. i - 1 \in 0..N
      BY <1>1
    <3>2. f[i - 1] \in V
      BY <1>6, <3>1
    <3>3. f[i] = step[i][f[i - 1]] /\ step[i] = onward
      BY <1>6 DEF Unfolds
    <3>. HIDE DEF Round
    <3>. QED BY <3>2, <3>3
  <2>. QED BY <1>6, <2>1 DEF Unfolds
<1>. HIDE DEF Round, step
<1>8. f = G(f)
  <2>1. ASSUME NEW n \in 0..N PROVE f[n] = IF n = 0 THEN start ELSE Round(f[n - 1])
    <3>1. n = 0 \/ (n # 0 /\ n \in 1..N)
      BY <1>1
    <3>. QED BY <1>7, <3>1
  <2>. QED BY <1>6, <2>1
<1>9. reach = G(reach)
  <2>. HIDE DEF G
  <2>. QED BY <1>8
<1>. HIDE DEF reach
<1>10. reach[0] = start /\ \A i \in 1..N : reach[i] = Round(reach[i - 1])
  <2>1. 0 \in 0..N /\ \A i \in 1..N : i \in 0..N /\ i # 0
    BY <1>1
  <2>. QED BY <1>9, <2>1
<1>11. ReachIs(reach, start, resources, links)
  BY <1>5, <1>10 DEF ReachIs, N
<1>. QED BY <1>4, <1>11 DEF N

\* After as many rounds as there are resources nothing new is reached: each
\* round but the last reaches one of them at least.
Exhausted(K, resources, links) == \A x \in resources : Identifier(x) \in K => links[x] \subseteq K

LEMMA ReachSettles ==
    ASSUME NEW resources, IsFiniteSet(resources), NEW start, NEW links, NEW reach,
           ReachIs(reach, start, resources, links)
    PROVE  start \subseteq reach[Cardinality(resources)] /\ Exhausted(reach[Cardinality(resources)], resources, links)
<1>. DEFINE N == Cardinality(resources)
            B(n) == {y \in resources : Identifier(y) \in reach[n]}
            Good(n) == start \subseteq reach[n] /\ (Exhausted(reach[n], resources, links) \/ Cardinality(B(n)) >= n + 1)
            S == {n \in 0..N : Good(n)}
<1>1. N \in Nat
  BY FS_CardinalityType
<1>2. \A n : IsFiniteSet(B(n)) /\ Cardinality(B(n)) \in Nat /\ Cardinality(B(n)) <= N
  <2>. TAKE n
  <2>1. B(n) \subseteq resources
    OBVIOUS
  <2>. HIDE DEF B
  <2>. QED BY <2>1, FS_Subset, FS_CardinalityType
<1>3. 0 \in S
  <2>1. CASE Exhausted(reach[0], resources, links)
    BY <1>1, <2>1 DEF ReachIs
  <2>2. CASE ~ Exhausted(reach[0], resources, links)
    <3>1. B(0) # {}
      BY <2>2 DEF Exhausted
    <3>2. Cardinality(B(0)) # 0
      <4>1. IsFiniteSet(B(0)) /\ Cardinality(B(0)) \in Nat
        BY <1>2
      <4>. HIDE DEF B
      <4>. QED BY <3>1, <4>1, FS_EmptySet
    <3>3. Cardinality(B(0)) >= 0 + 1
      <4>1. Cardinality(B(0)) \in Nat
        BY <1>2
      <4>. HIDE DEF B
      <4>. QED BY <3>2, <4>1
    <3>4. start \subseteq reach[0] /\ 0 \in 0..N
      BY <1>1 DEF ReachIs
    <3>. HIDE DEF B
    <3>. QED BY <3>3, <3>4
  <2>. QED BY <2>1, <2>2
<1>4. ASSUME NEW n \in 1..N, n - 1 \in S PROVE n \in S
  <2>1. reach[n] = Onward(reach[n - 1], resources, links) /\ Good(n - 1)
    BY <1>4 DEF ReachIs
  <2>2. /\ reach[n - 1] \subseteq reach[n]
        /\ \A x \in resources : Identifier(x) \in reach[n - 1] => links[x] \subseteq reach[n]
    <3>. HIDE DEF Good
    <3>. QED BY <2>1 DEF Onward
  <2>3. n \in 0..N /\ (n - 1) + 1 = n /\ n \in Nat
    BY <1>1
  <2>4. CASE Exhausted(reach[n - 1], resources, links)
    <3>1. reach[n] \subseteq reach[n - 1]
      <4>. HIDE DEF Good
      <4>. QED BY <2>1, <2>4 DEF Onward, Exhausted
    <3>2. reach[n] = reach[n - 1]
      BY <2>2, <3>1
    <3>. QED BY <2>1, <2>3, <2>4, <3>2
  <2>5. CASE ~ Exhausted(reach[n - 1], resources, links)
    <3>1. Cardinality(B(n - 1)) >= n /\ start \subseteq reach[n]
      BY <2>1, <2>2, <2>3, <2>5
    <3>2. B(n - 1) \subseteq B(n)
      BY <2>2
    <3>3. CASE B(n) = B(n - 1)
      <4>1. \A x \in resources : Identifier(x) \in reach[n] => Identifier(x) \in reach[n - 1]
        BY <3>3
      <4>2. Exhausted(reach[n], resources, links)
        BY <2>2, <4>1 DEF Exhausted
      <4>. HIDE DEF B
      <4>. QED BY <2>3, <3>1, <4>2
    <3>4. CASE B(n) # B(n - 1)
      <4>1. /\ IsFiniteSet(B(n)) /\ IsFiniteSet(B(n - 1))
            /\ Cardinality(B(n)) \in Nat /\ Cardinality(B(n - 1)) \in Nat
        BY <1>2
      <4>. HIDE DEF B
      <4>2. Cardinality(B(n - 1)) < Cardinality(B(n))
        <5>. DEFINE T == B(n)
                    R == B(n - 1)
        <5>1. IsFiniteSet(T) /\ IsFiniteSet(R) /\ R \subseteq T /\ R # T
          BY <3>2, <3>4, <4>1
        <5>. HIDE DEF T, R
        <5>2. Cardinality(R) < Cardinality(T)
          <6>1. Cardinality(R) <= Cardinality(T) /\ (Cardinality(R) = Cardinality(T) => R = T)
            BY <5>1, FS_Subset
          <6>2. Cardinality(R) \in Nat /\ Cardinality(T) \in Nat
            BY <5>1, FS_CardinalityType
          <6>. QED BY <5>1, <6>1, <6>2
        <5>. QED BY <5>2 DEF T, R
      <4>3. Cardinality(B(n)) >= n + 1
        <5>. DEFINE b == Cardinality(B(n))
                    a == Cardinality(B(n - 1))
        <5>1. a \in Nat /\ b \in Nat /\ a >= n /\ a < b
          BY <3>1, <4>1, <4>2
        <5>. HIDE DEF a, b
        <5>2. b >= n + 1
          BY <2>3, <5>1
        <5>. QED BY <5>2 DEF b
      <4>. QED BY <2>3, <3>1, <4>3
    <3>. QED BY <3>3, <3>4
  <2>. QED BY <2>4, <2>5
<1>5. N \in S
  <2>. HIDE DEF S
  <2>1. 0..N \subseteq S
    <3>. HIDE DEF N
    <3>. QED BY <1>1, <1>3, <1>4, BoundedInduction
  <2>. QED BY <1>1, <2>1
<1>6. Good(N)
  BY <1>5
<1>7. ~ (Cardinality(B(N)) >= N + 1)
  <2>1. Cardinality(B(N)) \in Nat /\ Cardinality(B(N)) <= N
    BY <1>2
  <2>. HIDE DEF B, N
  <2>. QED BY <1>1, <2>1
<1>. HIDE DEF B
<1>. QED BY <1>6, <1>7

LEMMA LinkedFromSettles ==
    ASSUME NEW resources, IsFiniteSet(resources), NEW start
    PROVE  /\ start \subseteq LinkedFrom(start, resources)
           /\ \A x \in resources : Identifier(x) \in LinkedFrom(start, resources)
                                     => LinksOf(x) \subseteq LinkedFrom(start, resources)
<1>. DEFINE links == [x \in resources |-> LinksOf(x)]
            K == LinkedFrom(start, resources)
<1>1. \A x \in resources : links[x] = LinksOf(x)
  OBVIOUS
<1>2. PICK reach : ReachIs(reach, start, resources, links) /\ K = reach[Cardinality(resources)]
  BY LinkedFromIs
<1>. HIDE DEF links, K
<1>3. start \subseteq K /\ Exhausted(K, resources, links)
  BY <1>2, ReachSettles
<1>. QED BY <1>1, <1>3 DEF Exhausted, K

\* Where the database's rows of a record lead to by one relationship.
Kin(kind, id, name, byName, tables) ==
  LET r == Relationship(byName[kind], name)
      rows == {u \in tables[kind] : u[byName[kind].key.name] = id}
  IN {<<r.resource, to>> : to \in UNION {Leads(row, r, byName, tables) : row \in rows}}

\* A record shows all of it.
Tells(x, name, byName, tables) ==
  \A k \in Kin(x.kind, x.id, name, byName, tables) :
    \E id \in ToSet(x.relationships[name]) : k = <<Relationship(byName[x.kind], name).resource, id>>

\* What the records of K show of it is in K.
Follows(K, X, byName, tables) ==
  \A x \in X : \A name \in DOMAIN x.relationships :
    Identifier(x) \in K /\ Tells(x, name, byName, tables) => Kin(x.kind, x.id, name, byName, tables) \subseteq K

\* Whatever follows the linkage these records tell and has those identifiers
\* has every record of X.
Tied(P, X, byName, tables) ==
  \A K : P \subseteq K /\ Follows(K, X, byName, tables) => \A x \in X : Identifier(x) \in K

ToldBy(Y, x, name, byName, tables) ==
  \E y \in Y : /\ Identifier(y) = Identifier(x) /\ name \in DOMAIN y.relationships
               /\ Tells(y, name, byName, tables)

Covers(Y, X, byName, tables) ==
  \A x \in X : \A name \in DOMAIN x.relationships :
    Tells(x, name, byName, tables) => ToldBy(Y, x, name, byName, tables)

\* A record that one of X is told to lead to.
LinkedTo(y, X, Y, byName, tables) ==
  \E z \in Y : \E name \in DOMAIN z.relationships :
    /\ \E x \in X : Identifier(x) = Identifier(z)
    /\ Tells(z, name, byName, tables) /\ Identifier(y) \in Kin(z.kind, z.id, name, byName, tables)

Grows(Y, X, byName, tables) ==
  /\ Covers(Y, X, byName, tables)
  /\ \A y \in Y : (\E x \in X : Identifier(x) = Identifier(y)) \/ LinkedTo(y, X, Y, byName, tables)

LEMMA CoversFollows ==
    ASSUME NEW byName, NEW tables, NEW X, NEW Y, Covers(Y, X, byName, tables), NEW K, Follows(K, Y, byName, tables)
    PROVE  Follows(K, X, byName, tables)
<1>1. SUFFICES ASSUME NEW x \in X, NEW name \in DOMAIN x.relationships, Identifier(x) \in K,
                      Tells(x, name, byName, tables)
               PROVE  Kin(x.kind, x.id, name, byName, tables) \subseteq K
  BY DEF Follows
<1>2. ToldBy(Y, x, name, byName, tables)
  BY <1>1 DEF Covers
<1>3. PICK y \in Y : /\ Identifier(y) = Identifier(x) /\ name \in DOMAIN y.relationships
                     /\ Tells(y, name, byName, tables)
  BY <1>2 DEF ToldBy
<1>4. Kin(y.kind, y.id, name, byName, tables) \subseteq K
  BY <1>1, <1>3 DEF Follows
<1>5. y.kind = x.kind /\ y.id = x.id
  BY <1>3 DEF Identifier
<1>. QED BY <1>4, <1>5

LEMMA TiedGrows ==
    ASSUME NEW byName, NEW tables, NEW P, NEW X, Tied(P, X, byName, tables), NEW Y, Grows(Y, X, byName, tables)
    PROVE  Tied(P, Y, byName, tables)
<1>1. SUFFICES ASSUME NEW K, P \subseteq K, Follows(K, Y, byName, tables), NEW y \in Y
               PROVE  Identifier(y) \in K
  BY DEF Tied
<1>2. Follows(K, X, byName, tables)
  BY <1>1, CoversFollows DEF Grows
<1>3. \A x \in X : Identifier(x) \in K
  BY <1>1, <1>2 DEF Tied
<1>4. CASE \E x \in X : Identifier(x) = Identifier(y)
  BY <1>3, <1>4
<1>5. CASE LinkedTo(y, X, Y, byName, tables)
  <2>1. PICK z \in Y : \E name \in DOMAIN z.relationships :
               /\ \E x \in X : Identifier(x) = Identifier(z)
               /\ Tells(z, name, byName, tables) /\ Identifier(y) \in Kin(z.kind, z.id, name, byName, tables)
    BY <1>5 DEF LinkedTo
  <2>2. PICK name \in DOMAIN z.relationships :
               /\ \E x \in X : Identifier(x) = Identifier(z)
               /\ Tells(z, name, byName, tables) /\ Identifier(y) \in Kin(z.kind, z.id, name, byName, tables)
    BY <2>1
  <2>3. Identifier(z) \in K
    BY <1>3, <2>2
  <2>. QED BY <1>1, <2>2, <2>3 DEF Follows
<1>. QED BY <1>4, <1>5 DEF Grows

\* The rows with an id are one.
LEMMA KinIs ==
    ASSUME NEW byName, Closed(byName), NEW tables, KeptAll(byName, tables), NEW kind \in DOMAIN byName,
           NEW row \in tables[kind], NEW id, row[byName[kind].key.name] = id, NEW name
    PROVE  Kin(kind, id, name, byName, tables)
             = {<<Relationship(byName[kind], name).resource, to>> :
                  to \in Leads(row, Relationship(byName[kind], name), byName, tables)}
<1>. DEFINE rows == {u \in tables[kind] : u[byName[kind].key.name] = id}
            r == Relationship(byName[kind], name)
<1>1. \A x, y \in tables[kind] : x[byName[kind].key.name] = y[byName[kind].key.name] => x = y
  BY RowsAre
<1>2. rows = {row}
  BY <1>1
<1>. HIDE DEF rows, r
<1>3. UNION {Leads(u, r, byName, tables) : u \in rows} = Leads(row, r, byName, tables)
  BY <1>2
<1>4. Kin(kind, id, name, byName, tables)
        = {<<r.resource, to>> : to \in UNION {Leads(u, r, byName, tables) : u \in rows}}
  BY DEF Kin, rows, r
<1>. QED BY <1>3, <1>4 DEF r

LEMMA TrueTells ==
    ASSUME NEW byName, Closed(byName), NEW tables, KeptAll(byName, tables), NEW x, x.kind \in DOMAIN byName,
           NEW row \in tables[x.kind], row[byName[x.kind].key.name] = x.id, NEW name,
           Exactly(x.relationships[name], Leads(row, Relationship(byName[x.kind], name), byName, tables))
    PROVE  Tells(x, name, byName, tables)
<1>1. Kin(x.kind, x.id, name, byName, tables)
        = {<<Relationship(byName[x.kind], name).resource, to>> :
             to \in Leads(row, Relationship(byName[x.kind], name), byName, tables)}
  BY KinIs
<1>. QED BY <1>1 DEF Tells, Exactly

LEMMA FaithfulTells ==
    ASSUME NEW byName, Closed(byName), NEW tables, KeptAll(byName, tables), NEW x, Faithful(x, byName, tables),
           NEW name \in DOMAIN x.relationships
    PROVE  Tells(x, name, byName, tables)
<1>1. PICK row \in tables[x.kind] : TrueTo(x, row, byName, tables)
  BY DEF Faithful
<1>2. /\ x.kind \in DOMAIN byName /\ row[byName[x.kind].key.name] = x.id
      /\ Exactly(x.relationships[name], Leads(row, Relationship(byName[x.kind], name), byName, tables))
  BY <1>1 DEF Faithful, TrueTo
<1>. QED BY <1>2, TrueTells

-----------------------------------------------------------------------------
(* What a load adds to what is held. *)

\* The records after a load still tell what they told.
LEMMA LoadCovers ==
    ASSUME NEW byName, Closed(byName), NEW tables, KeptAll(byName, tables), NEW m \in DOMAIN byName,
           NEW records, Records(records, m), NEW other, AllFaithful(other.records, byName, tables),
           NEW r, NEW loaded, Adds(loaded, other, records, r), loaded.error = "none"
    PROVE  Covers({loaded.records[i] : i \in 1..Len(records)}, ToSet(records), byName, tables)
<1>. DEFINE ys == {loaded.records[i] : i \in 1..Len(records)}
<1>1. SUFFICES ASSUME NEW x \in ToSet(records), NEW name \in DOMAIN x.relationships, Tells(x, name, byName, tables)
               PROVE  ToldBy(ys, x, name, byName, tables)
  BY DEF Covers
<1>2. PICK i \in 1..Len(records) : x = records[i]
  BY SequenceIs DEF Records, ToSet
<1>. DEFINE now == loaded.records[i]
            added == other.records[i]
<1>3. /\ now.kind = x.kind /\ now.id = x.id /\ added.kind = x.kind /\ added.id = x.id
      /\ DOMAIN now.relationships = DOMAIN x.relationships \cup DOMAIN added.relationships
      /\ \A n \in DOMAIN now.relationships :
           now.relationships[n] = IF n \in DOMAIN added.relationships
                                  THEN added.relationships[n] ELSE x.relationships[n]
      /\ Len(other.records) = Len(records)
  BY <1>2 DEF Adds
<1>4. now \in ys
  OBVIOUS
<1>5. Faithful(added, byName, tables)
  BY <1>3 DEF AllFaithful
<1>. HIDE DEF now, added, ys
<1>6. name \in DOMAIN now.relationships /\ Identifier(now) = Identifier(x)
  BY <1>3 DEF Identifier
<1>7. Tells(now, name, byName, tables)
  <2>1. CASE name \in DOMAIN added.relationships
    <3>1. Tells(added, name, byName, tables)
      BY <1>5, <2>1, FaithfulTells
    <3>2. now.relationships[name] = added.relationships[name]
      BY <1>3, <1>6, <2>1
    <3>. QED BY <1>3, <3>1, <3>2 DEF Tells
  <2>2. CASE name \notin DOMAIN added.relationships
    <3>1. now.relationships[name] = x.relationships[name]
      BY <1>3, <1>6, <2>2
    <3>. QED BY <1>1, <1>3, <3>1 DEF Tells
  <2>. QED BY <2>1, <2>2
<1>. QED BY <1>4, <1>6, <1>7 DEF ToldBy

Recurses(include) == include = TRUE

\* What is loaded for a relationship that is included is the collection by key.
LEMMA IncludedAreCollected ==
    ASSUME NEW s, NEW target, NEW r, NEW records, NEW fields, NEW table, NEW include, Recurses(include),
           NEW loaded, loaded = LoadRelated(s, target, r, records, fields, include, table), loaded.error = "none",
           NEW keys, keys = OwnKeys(s, records, r.own),
           NEW answer, answer = LoadCollectionBy(target, r.related, keys, fields, table)
    PROVE  answer.error = "none" /\ loaded.related = answer.rows
<1>1. \A error : error # "none" => NotLoaded(error).error # "none"
  BY DEF NotLoaded
<1>2. \A xs, ys : Loaded(xs, ys).related = ys
  BY DEF Loaded
<1>3. CASE r.kind = "belongs_to"
  <2>. DEFINE onKey == r.related = target.key.name
              requested == IsRequested(fields, s.name, r.name)
              index == Indexed(KeysOf(r, answer.rows), IdsOf(answer.rows))
              own(i) == Owned(s, records[i], r.own)
              ids == [i \in Holders(s, records, r) |->
                        IF own(i) = Null THEN <<>>
                        ELSE IF onKey THEN <<own(i)>> ELSE <<index[own(i)]>>]
  <2>1. loaded = IF answer.error # "none" THEN NotLoaded(answer.error)
                 ELSE IF ~ requested THEN Loaded(records, answer.rows)
                 ELSE IF ~ onKey /\ IndexFault(r, target, answer.rows) # "none"
                 THEN NotLoaded(IndexFault(r, target, answer.rows))
                 ELSE IF ~ onKey /\ ~ OwnKeys(s, records, r.own) \subseteq DOMAIN index
                 THEN NotLoaded("DataLoadingError")
                 ELSE Loaded(Linked(records, r, ids), answer.rows)
    BY <1>3 DEF LoadRelated, LoadBelongsTo, Recurses
  <2>. HIDE DEF onKey, requested, index, ids
  <2>. HIDE DEF own
  <2>2. answer.error = "none"
    BY <1>1, <2>1
  <2>3. \E xs : loaded = Loaded(xs, answer.rows)
    <3>. DEFINE fault == IndexFault(r, target, answer.rows)
    <3>1. "DataLoadingError" # "none"
      OBVIOUS
    <3>2. CASE ~ requested
      BY <2>1, <2>2, <3>2
    <3>3. CASE requested
      <4>1. fault = "none" \/ onKey
        BY <1>1, <2>1, <2>2, <3>3
      <4>2. onKey \/ OwnKeys(s, records, r.own) \subseteq DOMAIN index
        BY <1>1, <2>1, <2>2, <3>1, <3>3, <4>1
      <4>. QED BY <2>1, <2>2, <3>3, <4>1, <4>2
    <3>. QED BY <3>2, <3>3
  <2>4. PICK xs : loaded = Loaded(xs, answer.rows)
    BY <2>3
  <2>5. loaded.related = answer.rows
    BY <1>2, <2>4
  <2>. QED BY <2>2, <2>5
<1>4. CASE r.kind # "belongs_to"
  <2>. DEFINE index == Grouped(KeysOf(r, answer.rows), IdsOf(answer.rows))
              own(i) == Owned(s, records[i], r.own)
              taken(i) == r.kind = "has_many"
                            /\ \E j \in Holders(s, records, r) : j < i /\ own(j) = own(i)
              ids == [i \in Holders(s, records, r) |->
                        IF own(i) \in DOMAIN index /\ ~ taken(i) THEN index[own(i)] ELSE <<>>]
  <2>1. loaded = IF answer.error # "none" THEN NotLoaded(answer.error)
                 ELSE IF IndexFault(r, target, answer.rows) # "none"
                 THEN NotLoaded(IndexFault(r, target, answer.rows))
                 ELSE IF ~ IsRequested(fields, s.name, r.name) THEN Loaded(records, answer.rows)
                 ELSE Loaded(Linked(records, r, ids), answer.rows)
    BY <1>4 DEF LoadRelated, LoadHas
  <2>. HIDE DEF index, ids
  <2>. HIDE DEF own, taken
  <2>2. answer.error = "none"
    BY <1>1, <2>1
  <2>3. \E xs : loaded = Loaded(xs, answer.rows)
    <3>1. IndexFault(r, target, answer.rows) = "none"
      BY <1>1, <2>1, <2>2
    <3>. QED BY <2>1, <2>2, <3>1
  <2>4. PICK xs : loaded = Loaded(xs, answer.rows)
    BY <2>3
  <2>5. loaded.related = answer.rows
    BY <1>2, <2>4
  <2>. QED BY <2>2, <2>5
<1>. QED BY <1>3, <1>4

\* A record that was loaded is what the linkage of one of the records leads to.
LedTo(y, ys, m, r, byName, tables) ==
  \E i \in 1..Len(ys) : /\ r.name \in DOMAIN ys[i].relationships
                        /\ Identifier(y) \in Kin(m, ys[i].id, r.name, byName, tables)

LEMMA RelatedAreLedTo ==
    ASSUME NEW byName, Closed(byName), NEW tables, KeptAll(byName, tables), NEW m \in DOMAIN byName,
           NEW records, Records(records, m), AllFaithful(records, byName, tables),
           NEW r \in Relationships(byName[m]), NEW fields, IsRequested(fields, m, r.name),
           NEW include, Recurses(include),
           NEW loaded, loaded = LoadRelated(byName[m], byName[r.resource], r, records, fields, include,
                                            tables[r.resource]),
           loaded.error = "none"
    PROVE  \A j \in 1..Len(loaded.related) : LedTo(loaded.related[j], loaded.records, m, r, byName, tables)
<1>. DEFINE s == byName[m]
            t == r.resource
            target == byName[t]
            keys == OwnKeys(s, records, r.own)
            answer == LoadCollectionBy(target, r.related, keys, fields, tables[t])
            column == r.related
<1>1. s.name = m /\ t \in DOMAIN byName /\ Relationship(s, r.name) = r
  BY RelationshipIs DEF Closed
<1>2. answer.error = "none" /\ loaded.related = answer.rows
  <2>. DEFINE table == tables[t]
  <2>1. /\ loaded = LoadRelated(s, target, r, records, fields, include, table)
        /\ answer = LoadCollectionBy(target, r.related, keys, fields, table)
        /\ keys = OwnKeys(s, records, r.own)
    OBVIOUS
  <2>. HIDE DEF s, target, table, answer, keys
  <2>. QED BY <2>1, IncludedAreCollected
<1>3. Null \notin keys
  BY DEF OwnKeys
<1>4. PICK at : RowsBehind(at, records, m, byName, tables)
  BY EveryRecordHasRow
<1>5. KeysRead(s, records, at, r)
  BY <1>4, OwnKeysAre
<1>6. \E ids : DOMAIN ids = Holders(s, records, r) /\ loaded.records = Linked(records, r, ids)
  <2>1. IsFiniteSet(tables[t])
    BY <1>1, RowsAre
  <2>2. LoadedFrom(loaded, s, target, r, records, fields)
    <3>. DEFINE table == tables[t]
    <3>1. loaded = LoadRelated(s, target, r, records, fields, include, table)
      OBVIOUS
    <3>. HIDE DEF s, target, table
    <3>2. IsFiniteSet(table)
      BY <2>1 DEF table
    <3>. QED BY <3>1, <3>2, LoadRelatedIs
  <2>. HIDE DEF target
  <2>3. IsRequested(fields, s.name, r.name)
    BY <1>1
  <2>. HIDE DEF s
  <2>. QED BY <2>2, <2>3 DEF LoadedFrom
<1>7. PICK ids : DOMAIN ids = Holders(s, records, r) /\ loaded.records = Linked(records, r, ids)
  BY <1>6
<1>. HIDE DEF keys
<1>8. PICK rows : Found(answer.rows, rows, column, keys, t, byName, tables)
  <2>1. answer = LoadCollectionBy(byName[t], column, keys, fields, tables[t])
    OBVIOUS
  <2>. HIDE DEF answer, column, t
  <2>. QED BY <1>1, <1>2, <1>3, <2>1, CollectionFound
<1>. HIDE DEF answer, column, target
<1>9. SUFFICES ASSUME NEW j \in 1..Len(loaded.related)
               PROVE  LedTo(loaded.related[j], loaded.records, m, r, byName, tables)
  OBVIOUS
<1>. DEFINE y == loaded.related[j]
<1>10. /\ j \in 1..Len(rows) /\ rows[j] \in ToSet(rows) /\ rows[j] \in tables[t] /\ rows[j][column] \in keys
       /\ y.id = rows[j][byName[t].key.name] /\ y.kind = t
  <2>1. /\ Lists(rows, tables[t]) /\ ToSet(rows) = {row \in tables[t] : row[column] \in keys}
        /\ Len(answer.rows) = Len(rows)
        /\ \A i \in 1..Len(rows) :
             /\ rows[i] \in tables[t] /\ answer.rows[i].id = rows[i][byName[t].key.name] /\ answer.rows[i].kind = t
    BY <1>8 DEF Found
  <2>2. j \in 1..Len(rows)
    BY <1>2, <2>1
  <2>3. rows[j] \in ToSet(rows)
    BY <2>1, <2>2 DEF Lists, ToSet
  <2>. QED BY <1>2, <2>1, <2>2, <2>3
<1>. HIDE DEF y
<1>11. PICK i \in Holders(s, records, r) : at[i][r.own] = rows[j][column] /\ rows[j][column] # Null
  BY <1>5, <1>10 DEF KeysRead, keys
<1>12. i \in 1..Len(records) /\ at[i] \in tables[m] /\ at[i][s.key.name] = records[i].id
  <2>1. i \in 1..Len(records)
    BY <1>5, <1>11 DEF KeysRead
  <2>. QED BY <1>4, <2>1 DEF RowsBehind, TrueTo
<1>13. rows[j][byName[t].key.name] \in Leads(at[i], r, byName, tables)
  <2>1. rows[j] \in {u \in tables[r.resource] : u[r.related] = at[i][r.own]}
    BY <1>10, <1>11 DEF column
  <2>. QED BY <1>11, <2>1 DEF Leads
<1>14. Identifier(y) \in Kin(m, records[i].id, r.name, byName, tables)
  <2>1. Kin(m, records[i].id, r.name, byName, tables)
          = {<<Relationship(byName[m], r.name).resource, to>> :
               to \in Leads(at[i], Relationship(byName[m], r.name), byName, tables)}
    BY <1>12, KinIs
  <2>. QED BY <1>1, <1>10, <1>13, <2>1 DEF Identifier
<1>15. /\ Len(loaded.records) = Len(records) /\ loaded.records[i].id = records[i].id
       /\ r.name \in DOMAIN loaded.records[i].relationships
  <2>1. /\ Len(Linked(records, r, ids)) = Len(records)
        /\ \A n \in 1..Len(records) :
             /\ Linked(records, r, ids)[n].id = records[n].id
             /\ Linked(records, r, ids)[n].relationships =
                  IF n \in DOMAIN ids THEN Put(records[n].relationships, r.name, ids[n])
                  ELSE records[n].relationships
    BY LinkedIs
  <2>2. i \in DOMAIN ids
    BY <1>7, <1>11
  <2>. QED BY <1>7, <1>12, <2>1, <2>2 DEF Put
<1>. QED BY <1>12, <1>14, <1>15 DEF LedTo, y

LEMMA TrueCovers ==
    ASSUME NEW byName, Closed(byName), NEW tables, KeptAll(byName, tables), NEW X, NEW Y,
           \A x \in X : \E y \in Y : /\ Faithful(y, byName, tables) /\ Identifier(y) = Identifier(x)
                                     /\ DOMAIN x.relationships \subseteq DOMAIN y.relationships
    PROVE  Covers(Y, X, byName, tables)
<1>1. SUFFICES ASSUME NEW x \in X, NEW name \in DOMAIN x.relationships
               PROVE  ToldBy(Y, x, name, byName, tables)
  BY DEF Covers
<1>2. PICK y \in Y : /\ Faithful(y, byName, tables) /\ Identifier(y) = Identifier(x)
                     /\ DOMAIN x.relationships \subseteq DOMAIN y.relationships
  OBVIOUS
<1>3. Tells(y, name, byName, tables)
  BY <1>2, FaithfulTells
<1>. QED BY <1>2, <1>3 DEF ToldBy

LEMMA LoadLeads ==
    ASSUME NEW byName, Closed(byName), NEW tables, KeptAll(byName, tables), NEW m \in DOMAIN byName,
           NEW records, Records(records, m), NEW other, AllFaithful(other.records, byName, tables),
           NEW r, NEW loaded, Adds(loaded, other, records, r), loaded.error = "none",
           NEW y, LedTo(y, other.records, m, r, byName, tables)
    PROVE  LinkedTo(y, ToSet(records), {loaded.records[i] : i \in 1..Len(records)}, byName, tables)
<1>. DEFINE ys == {loaded.records[i] : i \in 1..Len(records)}
<1>1. Len(other.records) = Len(records)
  BY DEF Adds
<1>2. PICK i \in 1..Len(records) : /\ r.name \in DOMAIN other.records[i].relationships
                                   /\ Identifier(y) \in Kin(m, other.records[i].id, r.name, byName, tables)
  BY <1>1 DEF LedTo
<1>. DEFINE x == records[i]
            now == loaded.records[i]
            added == other.records[i]
<1>3. /\ now.kind = x.kind /\ now.id = x.id /\ added.kind = x.kind /\ added.id = x.id
      /\ DOMAIN now.relationships = DOMAIN x.relationships \cup DOMAIN added.relationships
      /\ \A n \in DOMAIN now.relationships :
           now.relationships[n] = IF n \in DOMAIN added.relationships
                                  THEN added.relationships[n] ELSE x.relationships[n]
  BY DEF Adds
<1>4. now \in ys /\ x \in ToSet(records) /\ x.kind = m
  BY SequenceIs DEF Records, ToSet, IsRecord
<1>5. Faithful(added, byName, tables)
  BY <1>1 DEF AllFaithful
<1>6. r.name \in DOMAIN added.relationships /\ Identifier(y) \in Kin(m, added.id, r.name, byName, tables)
  BY <1>2
<1>. HIDE DEF x, now, added, ys
<1>7. Tells(added, r.name, byName, tables)
  BY <1>5, <1>6, FaithfulTells
<1>8. now.relationships[r.name] = added.relationships[r.name] /\ r.name \in DOMAIN now.relationships
  BY <1>3, <1>6
<1>9. Tells(now, r.name, byName, tables)
  BY <1>3, <1>7, <1>8 DEF Tells
<1>10. Identifier(x) = Identifier(now) /\ Identifier(y) \in Kin(now.kind, now.id, r.name, byName, tables)
  BY <1>3, <1>4, <1>6 DEF Identifier
<1>. QED BY <1>4, <1>8, <1>9, <1>10 DEF LinkedTo, ys

\* The same, for sets of records put together.
Alike(Y, X) == \A y \in Y : \E x \in X : Identifier(x) = Identifier(y)

LEMMA ToldByMore ==
    ASSUME NEW byName, NEW tables, NEW Y, NEW Z, Y \subseteq Z, NEW x, NEW name, ToldBy(Y, x, name, byName, tables)
    PROVE  ToldBy(Z, x, name, byName, tables)
BY DEF ToldBy

LEMMA LoadGrows ==
    ASSUME NEW byName, NEW tables, NEW low, NEW T, NEW T2, NEW C, NEW C2, NEW R,
           Covers(T2, T, byName, tables), Alike(T2, T), Covers(C2, C, byName, tables), Alike(C2, C),
           \A y \in R : LinkedTo(y, T, T2, byName, tables),
           NEW X, X = low \cup T \cup C, NEW Y, Y = low \cup T2 \cup R \cup C2
    PROVE  Grows(Y, X, byName, tables)
<1>1. ASSUME NEW x \in X, NEW name \in DOMAIN x.relationships, Tells(x, name, byName, tables)
      PROVE  ToldBy(Y, x, name, byName, tables)
  <2>1. CASE x \in low
    BY <1>1, <2>1 DEF ToldBy
  <2>2. CASE x \in T
    <3>1. ToldBy(T2, x, name, byName, tables)
      BY <1>1, <2>2 DEF Covers
    <3>. QED BY <3>1, ToldByMore
  <2>3. CASE x \in C
    <3>1. ToldBy(C2, x, name, byName, tables)
      BY <1>1, <2>3 DEF Covers
    <3>. QED BY <3>1, ToldByMore
  <2>. QED BY <2>1, <2>2, <2>3
<1>2. ASSUME NEW y \in Y, \A x \in X : Identifier(x) # Identifier(y)
      PROVE  LinkedTo(y, X, Y, byName, tables)
  <2>1. y \notin low
    BY <1>2
  <2>2. y \notin T2 /\ y \notin C2
    BY <1>2 DEF Alike
  <2>3. LinkedTo(y, T, T2, byName, tables)
    BY <2>1, <2>2
  <2>. QED BY <2>3 DEF LinkedTo
<1>. QED BY <1>1, <1>2 DEF Grows, Covers

LEMMA ReturnGrows ==
    ASSUME NEW byName, NEW tables, NEW low, NEW T, NEW C, NEW C2,
           Covers(C2, T, byName, tables), Covers(C2, C, byName, tables), Alike(C2, T \cup C),
           NEW X, X = low \cup T \cup C, NEW Y, Y = low \cup C2
    PROVE  Grows(Y, X, byName, tables)
<1>1. ASSUME NEW x \in X, NEW name \in DOMAIN x.relationships, Tells(x, name, byName, tables)
      PROVE  ToldBy(Y, x, name, byName, tables)
  <2>1. CASE x \in low
    BY <1>1, <2>1 DEF ToldBy
  <2>2. CASE x \in T \cup C
    <3>1. ToldBy(C2, x, name, byName, tables)
      BY <1>1, <2>2 DEF Covers
    <3>. QED BY <3>1, ToldByMore
  <2>. QED BY <2>1, <2>2
<1>2. \A y \in Y : \E x \in X : Identifier(x) = Identifier(y)
  BY DEF Alike
<1>. QED BY <1>1, <1>2 DEF Grows, Covers

-----------------------------------------------------------------------------
(* What the client's fieldsets leave of the include tree. *)

Requesting(include, m, fields, byName) ==
  \A path \in include : path[Len(path)] \in FieldsOf(fields, Walk(path, byName[m], byName)[Len(path) - 1])

LEMMA IncludedIsRequested ==
    ASSUME NEW byName, Closed(byName), NEW m \in DOMAIN byName, NEW include, NEW fields,
           Requesting(include, m, fields, byName), NEW name, IsIncluded(include, name)
    PROVE  IsRequested(fields, m, name)
<1>. DEFINE path == <<name>>
            s == byName[m]
<1>1. path \in include /\ Len(path) = 1 /\ path[1] = name
  BY DEF IsIncluded
<1>2. s.name = m
  BY DEF Closed
<1>. HIDE DEF path, s
<1>3. Walk(path, s, byName)[0] = m
  <2>1. Len(path) \in Nat
    BY <1>1
  <2>. QED BY <1>2, <2>1, WalkIs
<1>4. path[Len(path)] \in FieldsOf(fields, Walk(path, s, byName)[Len(path) - 1])
  BY <1>1 DEF Requesting, s
<1>. QED BY <1>1, <1>3, <1>4 DEF IsRequested

LEMMA DeriveRequests ==
    ASSUME NEW byName, Closed(byName), NEW m \in DOMAIN byName, NEW include, NEW models,
           PathsIn(include, byName[m], byName, models), NEW fields, Requesting(include, m, fields, byName),
           NEW r \in Relationships(byName[m])
    PROVE  Requesting(Derive(include, r.name), r.resource, fields, byName)
<1>. DEFINE s == byName[m]
            t == byName[r.resource]
<1>1. s.name = m
  BY DEF Closed
<1>2. ASSUME NEW path \in include, Len(path) > 1, Head(path) = r.name
      PROVE  Tail(path)[Len(Tail(path))] \in FieldsOf(fields, Walk(Tail(path), t, byName)[Len(Tail(path)) - 1])
  <2>. DEFINE other == Tail(path)
              n == Len(other)
  <2>1. path \in Seq(STRING)
    BY DEF PathsIn
  <2>2. Len(path) \in Nat /\ n = Len(path) - 1 /\ n \in Nat /\ n > 0 /\ path[Len(path)] = other[n]
    BY <1>2, <2>1
  <2>3. \A i \in 0..n : Walk(path, s, byName)[1 + i] = Walk(other, t, byName)[i]
    <3>. HIDE DEF s, t
    <3>1. s.name \in DOMAIN byName /\ s = byName[s.name] /\ r \in Relationships(s)
      BY <1>1 DEF s
    <3>2. \A i \in 0..n : Walk(path, s, byName)[1 + i] = Walk(other, byName[r.resource], byName)[i]
      BY <1>2, <2>1, <3>1, TailWalks
    <3>. QED BY <3>2 DEF t
  <2>4. path[Len(path)] \in FieldsOf(fields, Walk(path, s, byName)[Len(path) - 1])
    BY DEF Requesting
  <2>. HIDE DEF s, t, other, n
  <2>5. Walk(path, s, byName)[Len(path) - 1] = Walk(other, t, byName)[n - 1]
    <3>1. n - 1 \in 0..n /\ 1 + (n - 1) = Len(path) - 1
      BY <2>2
    <3>. QED BY <2>3, <3>1
  <2>. QED BY <2>2, <2>4, <2>5 DEF other, n
<1>. HIDE DEF s, t
<1>3. \A path \in Derive(include, r.name) :
        path[Len(path)] \in FieldsOf(fields, Walk(path, t, byName)[Len(path) - 1])
  BY <1>2 DEF Derive
<1>. QED BY <1>3 DEF Requesting, t

-----------------------------------------------------------------------------
(* What the loader holds: the records of its frames, and what was included. *)

Stacked(fs, n) == UNION {ToSet(fs[i].records) : i \in 1..n}
Shelved(c, keys) == {c[key] : key \in keys}
Held(fs, c, keys) == Stacked(fs, Len(fs)) \cup Shelved(c, keys)

LEMMA StackedIs ==
    ASSUME NEW fs, NEW n \in Nat, n > 0
    PROVE  Stacked(fs, n) = Stacked(fs, n - 1) \cup ToSet(fs[n].records)
<1>1. 1..n = 1..(n - 1) \cup {n}
  OBVIOUS
<1>. QED BY <1>1 DEF Stacked

LEMMA StackedAlike ==
    ASSUME NEW fs, NEW gs, NEW n \in Nat, \A i \in 1..n : gs[i] = fs[i]
    PROVE  Stacked(gs, n) = Stacked(fs, n)
BY DEF Stacked

\* What a load leaves of its records, and what it adds.
LoadHolds(loaded, records, include, byName, tables) ==
  /\ Covers(ToSet(loaded.records), ToSet(records), byName, tables)
  /\ Alike(ToSet(loaded.records), ToSet(records)) /\ Alike(ToSet(records), ToSet(loaded.records))
  /\ AllFaithful(loaded.related, byName, tables)
  /\ include = TRUE => \A y \in ToSet(loaded.related) :
                         LinkedTo(y, ToSet(records), ToSet(loaded.records), byName, tables)

LEMMA LoadHoldsOn ==
    ASSUME NEW byName, Closed(byName), NEW tables, KeptAll(byName, tables), NEW m \in DOMAIN byName,
           NEW spared, NEW records, Records(records, m), AllFaithfulBut(records, spared, byName, tables),
           Distinct(records), NEW r \in Relationships(byName[m]), NEW fields, NEW include,
           include = TRUE => IsRequested(fields, m, r.name),
           NEW loaded, loaded = LoadRelated(byName[m], byName[r.resource], r, records, fields, include,
                                            tables[r.resource]),
           loaded.error = "none", Records(loaded.records, m), Records(loaded.related, r.resource)
    PROVE  LoadHolds(loaded, records, include, byName, tables)
<1>. DEFINE bared == Bared(records)
            other == LoadRelated(byName[m], byName[r.resource], r, bared, fields, include, tables[r.resource])
            ys == {loaded.records[i] : i \in 1..Len(records)}
<1>1. bared = Bared(records)
  OBVIOUS
<1>. HIDE DEF bared
<1>2. other = LoadRelated(byName[m], byName[r.resource], r, bared, fields, include, tables[r.resource])
  OBVIOUS
<1>. HIDE DEF other
<1>3. /\ Records(bared, m) /\ AllFaithful(bared, byName, tables) /\ Adds(loaded, other, records, r)
      /\ other.error = "none" => LoadedTrue(other, bared, byName, tables)
  BY <1>1, <1>2, BaredLoads
<1>4. other.error = "none" /\ other.related = loaded.related
  BY <1>3 DEF Adds
<1>5. AllFaithful(other.records, byName, tables) /\ AllFaithful(other.related, byName, tables)
  BY <1>3, <1>4 DEF LoadedTrue, StillTrue
<1>6. /\ Len(loaded.records) = Len(records)
      /\ \A i \in 1..Len(records) : loaded.records[i].kind = records[i].kind /\ loaded.records[i].id = records[i].id
  BY <1>3 DEF Adds
<1>7. ToSet(loaded.records) = ys /\ ToSet(records) = {records[i] : i \in 1..Len(records)}
  BY <1>6, SequenceIs DEF Records, ToSet
<1>8. Covers(ys, ToSet(records), byName, tables)
  BY <1>3, <1>5, LoadCovers
<1>9. Alike(ys, ToSet(records)) /\ Alike(ToSet(records), ys)
  BY <1>6, <1>7 DEF Alike, Identifier
<1>10. ASSUME include = TRUE, NEW y \in ToSet(loaded.related)
       PROVE  LinkedTo(y, ToSet(records), ys, byName, tables)
  <2>1. PICK j \in 1..Len(loaded.related) : y = loaded.related[j]
    BY <1>10, SequenceIs DEF Records, ToSet
  <2>2. IsRequested(fields, m, r.name) /\ Recurses(include)
    BY <1>10 DEF Recurses
  <2>3. \A i \in 1..Len(other.related) : LedTo(other.related[i], other.records, m, r, byName, tables)
    BY <1>2, <1>3, <1>4, <2>2, RelatedAreLedTo
  <2>4. LedTo(y, other.records, m, r, byName, tables)
    BY <1>4, <2>1, <2>3
  <2>. HIDE DEF ys
  <2>5. ys = {loaded.records[i] : i \in 1..Len(records)}
    BY DEF ys
  <2>. QED BY <1>3, <1>5, <2>4, <2>5, LoadLeads
<1>. HIDE DEF ys
<1>. QED BY <1>4, <1>5, <1>7, <1>8, <1>9, <1>10 DEF LoadHolds

-----------------------------------------------------------------------------
(* The invariant. *)

AllRequesting(fs, fields, byName) ==
  \A i \in 1..Len(fs) : Requesting(fs[i].include, fs[i].schema, fields, byName)

LinksLoading(fs, c, keys, fields, byName, tables) ==
  /\ IsFiniteSet(keys)
  /\ AllRequesting(fs, fields, byName)
  /\ Tied(Identifiers(fs[1].records), Held(fs, c, keys), byName, tables)

\* Merging leaves what is included at its place, with no linkage lost.
LEMMA MergeCovers ==
    ASSUME NEW byName, Closed(byName), NEW tables, KeptAll(byName, tables),
           NEW c, Keyed(c), NEW d, Keyed(d), CacheTrue(d, byName, tables), NEW kind, NEW records,
           NEW fields, NEW sent, CacheHonest(c, fields, byName, sent), Records(records, kind),
           AllHonest(records, fields, byName, sent), d = MergeAll(c, records),
           NEW keys \in SUBSET DOMAIN c
    PROVE  /\ Covers(Shelved(d, keys), Shelved(c, keys), byName, tables)
           /\ Alike(Shelved(d, keys), Shelved(c, keys))
           /\ Covers(Shelved(d, Identifiers(records)), ToSet(records), byName, tables)
           /\ Alike(Shelved(d, Identifiers(records)), ToSet(records))
<1>1. /\ \A key \in DOMAIN c : Extends(d[key], c[key])
      /\ \A x \in ToSet(records) : Extends(d[Identifier(x)], x)
  BY MergeAllIsHonest
<1>2. DOMAIN d = DOMAIN c \cup Identifiers(records)
  BY MergeAllIs
<1>3. \A key \in DOMAIN d : Identifier(d[key]) = key /\ Faithful(d[key], byName, tables)
  BY DEF Keyed, CacheTrue
<1>4. \A key \in DOMAIN c : Identifier(c[key]) = key
  BY DEF Keyed
<1>5. Covers(Shelved(d, keys), Shelved(c, keys), byName, tables)
  <2>1. ASSUME NEW x \in Shelved(c, keys)
        PROVE  \E y \in Shelved(d, keys) : /\ Faithful(y, byName, tables) /\ Identifier(y) = Identifier(x)
                                           /\ DOMAIN x.relationships \subseteq DOMAIN y.relationships
    <3>1. PICK key \in keys : x = c[key]
      BY DEF Shelved
    <3>2. d[key] \in Shelved(d, keys)
      BY DEF Shelved
    <3>. QED BY <1>1, <1>2, <1>3, <1>4, <3>1, <3>2 DEF Extends
  <2>. QED BY <2>1, TrueCovers
<1>6. Covers(Shelved(d, Identifiers(records)), ToSet(records), byName, tables)
  <2>1. ASSUME NEW x \in ToSet(records)
        PROVE  \E y \in Shelved(d, Identifiers(records)) :
                 /\ Faithful(y, byName, tables) /\ Identifier(y) = Identifier(x)
                 /\ DOMAIN x.relationships \subseteq DOMAIN y.relationships
    <3>1. Identifier(x) \in Identifiers(records)
      BY DEF Identifiers
    <3>2. d[Identifier(x)] \in Shelved(d, Identifiers(records))
      BY <3>1 DEF Shelved
    <3>. QED BY <1>1, <1>2, <1>3, <3>1, <3>2 DEF Extends
  <2>. QED BY <2>1, TrueCovers
<1>7. Alike(Shelved(d, keys), Shelved(c, keys))
  BY <1>2, <1>3, <1>4 DEF Alike, Shelved
<1>8. Alike(Shelved(d, Identifiers(records)), ToSet(records))
  BY <1>2, <1>3 DEF Alike, Shelved, Identifiers
<1>. QED BY <1>5, <1>6, <1>7, <1>8
=============================================================================
