--------------------------- MODULE DocumentProofs ---------------------------
(***************************************************************************)
(* What a request for records is promised, for any schemas, databases,     *)
(* queries and batches an application can have: what its document says is  *)
(* the database's (ReadsAreTrue), a request that was accepted is answered  *)
(* (ReadsAreServed), a batch leaves paired with the rows it became         *)
(* (BatchesArePaired), and what is included is linked from the primary     *)
(* data (IncludedIsLinked).                                                *)
(***************************************************************************)
EXTENDS QueryProofs

\* A linkage endpoint has the record it was asked about, then the ids of what
\* the database relates to it.
OnlyOf(xs, m, id) == Len(xs) = 1 /\ xs[1].kind = m /\ xs[1].id = id
Linking ==
  /\ phase = "loading parent" => OnlyOf(stack[1].records, Schema.name, request.id)
  /\ phase = "querying" =>
       Faithful(parent, reg, db) /\ parent.kind = Schema.name /\ parent.id = request.id
  /\ phase = "loading" =>
       \E row \in db[Schema.name] :
         /\ row[Schema.key.name] = request.id
         /\ Exactly(IdsOf(stack[1].records), Leads(row, Descriptor, reg, db))

\* A linkage endpoint that finds its parent by the primary key.
Peeking == request.kind = "linkage" /\ ~ ForeignId

TruthInv ==
  /\ Consistent(schemas) => KeptAll(reg, db)
  /\ Loading => TrueLoading(stack, cache, Unattached, reg, db)
  /\ request.kind = "linkage" => phase # "parsing"
  /\ Peeking => Linking
  /\ LinkageIsTrue

ResourceTrue(y, spared) ==
  /\ RowsWithId(y.kind, y.id) # {}
  /\ \A a \in DOMAIN y.attributes : y.attributes[a] = RowOf(y)[a]
  /\ \A name \in DOMAIN y.relationships \ spared :
       Exactly(y.relationships[name], RelatedIds(RowOf(y), Relationship(reg[y.kind], name)))
DocumentTrue(primary, others, spared) ==
  /\ \A y \in primary : ResourceTrue(y, spared)
  /\ \A y \in others \ primary : ResourceTrue(y, {})

LinkageTrue(primary) ==
  LET row == CHOOSE row \in RowsWithId(Schema.name, request.id) : TRUE
  IN Exactly([i \in DOMAIN primary |-> primary[i].id], RelatedIds(row, Descriptor))

LEMMA PeekingStays == ASSUME UNCHANGED input PROVE Peeking' <=> Peeking
<1>1. UNCHANGED <<request, Schema>>
  BY InputStays
<1>. QED BY <1>1 DEF Peeking, ForeignId

LEMMA UnattachedStays == ASSUME UNCHANGED input, UNCHANGED db PROVE Unattached' = Unattached
<1>1. UNCHANGED <<request, reg, Schema, db>>
  BY InputStays
<1>2. ASSUME NEW r, NEW ids PROVE TargetRows(r, ids)' = TargetRows(r, ids)
  BY <1>1 DEF TargetRows
<1>3. ASSUME NEW s, NEW x PROVE Attachable(s, x)' <=> Attachable(s, x)
  BY <1>1, <1>2 DEF Attachable
<1>4. {j \in DOMAIN request.batch : ~ Attachable(Schema, request.batch[j])}'
        = {j \in DOMAIN request.batch : ~ Attachable(Schema, request.batch[j])}
  BY <1>1, <1>3
<1>. QED BY <1>1, <1>4 DEF Unattached

LEMMA TrueAnswer ==
    ASSUME UNCHANGED input, UNCHANGED db,
           WithRecords' => DocumentTrue(ToSet(reply'.primary), reply'.included, Unattached),
           Answered' /\ Peeking => LinkageTrue(reply'.primary)
    PROVE  LinkageIsTrue'
<1>1. UNCHANGED <<request, reg, Schema, Descriptor, db, Unattached>>
  BY InputStays, UnattachedStays
<1>2. ASSUME NEW kind, NEW id PROVE RowsWithId(kind, id)' = RowsWithId(kind, id)
  BY <1>1 DEF RowsWithId
<1>3. ASSUME NEW row, NEW r PROVE RelatedIds(row, r)' = RelatedIds(row, r)
  BY <1>1 DEF RelatedIds
<1>4. ASSUME NEW y PROVE RowOf(y)' = RowOf(y)
  BY <1>2 DEF RowOf
<1>5. ASSUME NEW y, NEW spared, ResourceTrue(y, spared)
      PROVE  (/\ RowsWithId(y.kind, y.id) # {}
              /\ \A a \in DOMAIN y.attributes : y.attributes[a] = RowOf(y)[a]
              /\ \A name \in DOMAIN y.relationships \ spared :
                   Exactly(y.relationships[name], RelatedIds(RowOf(y), Relationship(reg[y.kind], name))))'
  <2>1. RowOf(y)' = RowOf(y) /\ RowsWithId(y.kind, y.id)' = RowsWithId(y.kind, y.id)
    BY <1>2, <1>4
  <2>2. \A name : RelatedIds(RowOf(y), Relationship(reg[y.kind], name))' = RelatedIds(RowOf(y), Relationship(reg[y.kind], name))
    BY <1>1, <1>3, <2>1
  <2>. QED BY <1>5, <2>1, <2>2 DEF ResourceTrue
<1>6. ASSUME WithRecords', NEW y \in ShownResources'
      PROVE  (/\ RowsWithId(y.kind, y.id) # {}
              /\ \A a \in DOMAIN y.attributes : y.attributes[a] = RowOf(y)[a]
              /\ \A name \in DOMAIN y.relationships :
                   \/ y \in ToSet(reply.primary) /\ name \in Unattached
                   \/ Exactly(y.relationships[name], RelatedIds(RowOf(y), Relationship(reg[y.kind], name))))'
  <2>1. CASE y \in ToSet(reply'.primary)
    <3>1. ResourceTrue(y, Unattached)
      BY <1>6, <2>1 DEF DocumentTrue
    <3>. DEFINE spared == Unattached
    <3>2. ResourceTrue(y, spared)
      BY <3>1
    <3>. HIDE DEF spared
    <3>3. (/\ RowsWithId(y.kind, y.id) # {}
           /\ \A a \in DOMAIN y.attributes : y.attributes[a] = RowOf(y)[a])'
      BY <1>1, <1>2, <1>4, <3>2 DEF ResourceTrue
    <3>4. ASSUME NEW name \in DOMAIN y.relationships, name \notin spared
          PROVE  Exactly(y.relationships[name], RelatedIds(RowOf(y), Relationship(reg[y.kind], name))')
      <4>1. RowOf(y)' = RowOf(y)
        BY <1>4
      <4>2. RelatedIds(RowOf(y), Relationship(reg[y.kind], name))' = RelatedIds(RowOf(y), Relationship(reg[y.kind], name))
        BY <1>1, <1>3, <4>1
      <4>. QED BY <3>2, <3>4, <4>2 DEF ResourceTrue
    <3>5. Unattached' = spared
      BY <1>1 DEF spared
    <3>. QED BY <2>1, <3>3, <3>4, <3>5
  <2>2. CASE y \in reply'.included \ ToSet(reply'.primary)
    <3>1. ResourceTrue(y, {})
      BY <1>6, <2>2 DEF DocumentTrue
    <3>. QED BY <1>5, <3>1
  <2>. QED BY <1>6, <2>1, <2>2 DEF ShownResources
<1>7. (Answered /\ request.kind = "linkage" /\ ~ ForeignId =>
        LET row == CHOOSE row \in RowsWithId(Schema.name, request.id) : TRUE
        IN Exactly([i \in DOMAIN reply.primary |-> reply.primary[i].id], RelatedIds(row, Descriptor)))'
  <2>1. RowsWithId(Schema.name, request.id)' = RowsWithId(Schema.name, request.id)
    BY <1>1, <1>2
  <2>2. ForeignId' <=> ForeignId
    BY <1>1 DEF ForeignId
  <2>. QED BY <1>1, <1>3, <2>1, <2>2 DEF LinkageTrue, Peeking
<1>. QED BY <1>6, <1>7, Zenon DEF LinkageIsTrue

LEMMA RefuseIsTrue ==
    ASSUME TruthInv, UNCHANGED input, NEW error, error # "none", Refuse(error)
    PROVE  TruthInv'
<1>1. phase' = "done" /\ reply'.error = error /\ UNCHANGED db
  BY DEF Refuse, Unanswered
<1>2. UNCHANGED <<schemas, reg>>
  BY InputStays
<1>3. ~ Answered' /\ ~ WithRecords' /\ ~ Loading' /\ Linking'
  BY <1>1 DEF Answered, WithRecords, Loading, Linking
<1>4. LinkageIsTrue'
  BY <1>1, <1>3, TrueAnswer
<1>5. (Consistent(schemas) => KeptAll(reg, db))'
  BY <1>1, <1>2 DEF TruthInv
<1>. QED BY <1>1, <1>3, <1>4, <1>5 DEF TruthInv

\* A step that answers nothing yet.
LEMMA StepIsTrue ==
    ASSUME TruthInv, UNCHANGED input, UNCHANGED db, phase' # "done",
           request.kind = "linkage" => phase' # "parsing",
           Loading' => TrueLoading(stack', cache', Unattached, reg, db),
           Peeking => Linking'
    PROVE  TruthInv'
<1>1. UNCHANGED <<schemas, request, reg, db, Unattached>>
  BY InputStays, UnattachedStays
<1>2. ~ Answered' /\ ~ WithRecords'
  BY DEF Answered, WithRecords
<1>3. LinkageIsTrue'
  BY <1>2, TrueAnswer
<1>4. (Consistent(schemas) => KeptAll(reg, db))'
  BY <1>1 DEF TruthInv
<1>. QED BY <1>1, <1>3, <1>4, PeekingStays DEF TruthInv

-----------------------------------------------------------------------------
(* A fetch. *)

\* The loader is on one collection, the records of these rows.
Begun(fs, rows, m, byName) ==
  LET xs == fs[1].records IN
  /\ Len(fs) = 1 /\ Len(xs) = Len(rows) /\ DOMAIN xs = 1..Len(rows)
  /\ \A i \in 1..Len(rows) : xs[i].kind = m /\ xs[i].id = rows[i][byName[m].key.name]

LEMMA AnswerBegins ==
    ASSUME UNCHANGED input, Closed(reg), KeptAll(reg, db), NEW s, s.name \in DOMAIN reg, reg[s.name] = s,
           NEW p, NEW rows, NEW answer, answer.error = "none",
           ReadOf(answer, s, p.fields, rows, db[s.name]),
           NEW next, LoadAnswer(s, answer, p, next), NEW spared
    PROVE  /\ phase' = next /\ parameters' = p /\ UNCHANGED <<db, parent, reply>>
           /\ TrueLoading(stack', cache', spared, reg, db)
           /\ Begun(stack', rows, s.name, reg)
<1>. DEFINE m == s.name
            xs == Reads(s, rows, p.fields)
            first == Frame(s, xs, p.fields, p.include)
            f == IF xs = <<>> THEN [first EXCEPT !.pending = <<>>] ELSE first
<1>1. /\ phase' = next /\ parameters' = p /\ UNCHANGED <<db, parent, reply>>
      /\ StartLoading(s, xs, p)
  BY DEF LoadAnswer, ReadOf, Reads
<1>2. Lists(rows, db[m]) /\ ~ FieldsPanic(reg[m], p.fields) /\ xs = Reads(reg[m], rows, p.fields)
  BY DEF ReadOf
<1>3. stack' = <<f>> /\ cache' = <<>>
  BY <1>1 DEF StartLoading
<1>4. f.records = xs
  <2>1. DOMAIN first = {"schema", "include", "records", "pending"} /\ first.records = xs
    BY DEF Frame
  <2>. HIDE DEF first, xs
  <2>. QED BY <2>1
<1>. HIDE DEF f, xs, m
<1>5. /\ Records(xs, m) /\ Len(xs) = Len(rows)
      /\ AllFaithful(xs, reg, db) /\ Distinct(xs)
      /\ \A i \in 1..Len(rows) : xs[i].id = rows[i][reg[m].key.name] /\ xs[i].kind = m
  <2>1. m \in DOMAIN reg
    BY DEF m
  <2>. QED BY <1>2, <2>1, RowsRead
<1>6. Len(stack') = 1 /\ stack'[1] = f
  BY <1>3
<1>7. TrueLoading(stack', cache', spared, reg, db)
  <2>1. \A given : AllFaithfulBut(xs, given, reg, db)
    BY <1>5, NothingSpared
  <2>2. \A given : FrameTrue(f, given, reg, db)
    BY <1>4, <1>5, <2>1 DEF FrameTrue
  <2>. QED BY <1>3, <1>6, <2>2 DEF TrueLoading, CacheTrue
<1>8. Begun(stack', rows, m, reg)
  BY <1>4, <1>5, <1>6 DEF Begun, Records
<1>. QED BY <1>1, <1>7, <1>8 DEF m

LEMMA FetchParentTrue == ASSUME TypeInv, TruthInv, FetchParent PROVE TruthInv'
<1>. DEFINE p == IF request.kind = "linkage" THEN New(Schema, reg)
                 ELSE Asking(Schema, reg, Put(<<>>, Schema.name, {Descriptor.own}))
            answer == Find(Schema, request.id, p.fields, db[Schema.name])
<1>1. UNCHANGED input /\ LoadAnswer(Schema, answer, p, "loading parent") /\ phase = "parent"
  BY DEF FetchParent
<1>2. Consistent(schemas) /\ Given
  BY <1>1 DEF TypeInv
<1>. HIDE DEF p
<1>3. CASE answer.error # "none"
  BY <1>1, <1>3, RefuseIsTrue DEF LoadAnswer
<1>4. CASE answer.error = "none"
  <2>1. phase' = "loading parent" /\ UNCHANGED db
    BY <1>1, <1>4 DEF LoadAnswer
  <2>2. TrueLoading(stack', cache', Unattached, reg, db) /\ (Peeking => Linking')
    <3>1. Closed(reg) /\ Schema.name \in DOMAIN reg /\ reg[Schema.name] = Schema
      BY <1>2, RegistryIsClosed, TargetsAre
    <3>2. KeptAll(reg, db)
      BY <1>2 DEF TruthInv
    <3>a. "id" \in Columns(Schema)
      BY <1>4 DEF Find, Refusal
    <3>3. PICK row \in db[Schema.name] :
            row["id"] = request.id /\ ReadOf(answer, Schema, p.fields, <<row>>, db[Schema.name])
      <4>. DEFINE fields == p.fields
                  table == db[Schema.name]
      <4>1. answer = Find(Schema, request.id, fields, table)
        OBVIOUS
      <4>. HIDE DEF fields, table, answer
      <4>2. \E row \in table : row["id"] = request.id /\ ReadOf(answer, Schema, fields, <<row>>, table)
        BY <1>4, <4>1, FindReads
      <4>. QED BY <4>2 DEF fields, table
    <3>. HIDE DEF answer
    <3>4. TrueLoading(stack', cache', Unattached, reg, db) /\ Begun(stack', <<row>>, Schema.name, reg)
      <4>. DEFINE spared == Unattached
                  m == Schema.name
      <4>1. m \in DOMAIN reg /\ reg[m] = Schema /\ m = Schema.name
        BY <3>1
      <4>2. ReadOf(answer, Schema, p.fields, <<row>>, db[m])
        BY <3>3
      <4>. HIDE DEF spared, m
      <4>3. TrueLoading(stack', cache', spared, reg, db) /\ Begun(stack', <<row>>, m, reg)
        BY <1>1, <1>4, <3>1, <3>2, <4>1, <4>2, AnswerBegins
      <4>. QED BY <4>3 DEF spared, m
    <3>5. ASSUME Peeking PROVE Linking'
      <4>1. Schema.key.name = "id"
        <5>1. "id" \notin Fields(Schema) /\ "id" \notin ForeignKeys(Schema)
          BY <3>1, <3>5 DEF Closed, ValidSchema, Peeking, ForeignId
        <5>. QED BY <3>a, <5>1 DEF Columns, Fields
      <4>2. OnlyOf(stack'[1].records, Schema.name, request.id)
        BY <3>1, <3>3, <3>4, <4>1 DEF Begun, OnlyOf
      <4>3. UNCHANGED <<Schema, request>>
        BY <1>1, InputStays
      <4>. QED BY <2>1, <4>2, <4>3 DEF Linking
    <3>. QED BY <3>4, <3>5
  <2>. QED BY <1>1, <2>1, <2>2, StepIsTrue
<1>. QED BY <1>3, <1>4

\* The records that a query answers.
LEMMA QueryTrue ==
    ASSUME TypeInv, TruthInv, UNCHANGED input, Consistent(schemas),
           NEW s, s.name \in DOMAIN reg, reg[s.name] = s,
           NEW p, Complete(p), SortedBy(p.sort, s), NEW way,
           NEW answer, answer = Query(s, p, db[s.name], way), answer.error = "none",
           NEW next, LoadAnswer(s, answer, p, next), NEW spared
    PROVE  \E rows :
             /\ p.page = <<>> => ToSet(rows) = Where(s, p, db[s.name])
             /\ Lists(rows, db[s.name])
             /\ phase' = next /\ UNCHANGED <<db, parent>>
             /\ TrueLoading(stack', cache', spared, reg, db)
             /\ Begun(stack', rows, s.name, reg)
<1>1. Closed(reg) /\ KeptAll(reg, db)
  BY RegistryIsClosed DEF TypeInv, TruthInv
<1>. DEFINE m == s.name
<1>2. PICK rows : /\ ReadOf(answer, reg[m], p.fields, rows, db[m])
                  /\ p.page = <<>> => ToSet(rows) = Where(reg[m], p, db[m])
  <2>1. m \in DOMAIN reg /\ answer = Query(reg[m], p, db[m], way) /\ PageIs(p.page) /\ SortedBy(p.sort, reg[m])
    BY DEF Complete
  <2>. HIDE DEF m
  <2>2. \E rows : /\ ReadOf(answer, reg[m], p.fields, rows, db[m])
                  /\ p.page = <<>> => ToSet(rows) = Where(reg[m], p, db[m])
    BY <1>1, <2>1, QueryReads
  <2>. QED BY <2>2
<1>3. ReadOf(answer, s, p.fields, rows, db[s.name]) /\ (p.page = <<>> => ToSet(rows) = Where(s, p, db[s.name]))
  BY <1>2
<1>4. Lists(rows, db[s.name])
  BY <1>3 DEF ReadOf
<1>5. /\ phase' = next /\ UNCHANGED <<db, parent>>
      /\ TrueLoading(stack', cache', spared, reg, db)
      /\ Begun(stack', rows, s.name, reg)
  BY <1>1, <1>3, AnswerBegins
<1>. QED BY <1>3, <1>4, <1>5

\* The ids of all rows with a value in a column are what that value leads to.
LEMMA ListedIds ==
    ASSUME NEW byName, Closed(byName), NEW tables, KeptAll(byName, tables), NEW t \in DOMAIN byName,
           NEW rows, Lists(rows, tables[t]), NEW fs, Begun(fs, rows, t, byName),
           NEW r, r.resource = t, NEW row, row[r.own] # Null,
           ToSet(rows) = {u \in tables[t] : u[r.related] = row[r.own]}
    PROVE  Exactly(IdsOf(fs[1].records), Leads(row, r, byName, tables))
<1>. DEFINE n == Len(rows)
            xs == fs[1].records
            ids == IdsOf(xs)
            key == byName[t].key.name
<1>1. /\ n \in Nat /\ DOMAIN rows = 1..n /\ \A i \in 1..n : rows[i] \in tables[t]
      /\ \A i, j \in 1..n : rows[i] = rows[j] => i = j
  BY DEF Lists
<1>2. DOMAIN ids = 1..n /\ ids = [i \in 1..n |-> ids[i]] /\ \A i \in 1..n : ids[i] = rows[i][key]
  <2>. DEFINE zs == xs
  <2>1. DOMAIN zs = 1..n /\ \A i \in 1..n : zs[i].id = rows[i][key]
    BY DEF Begun
  <2>2. ids = [i \in DOMAIN zs |-> zs[i].id]
    BY DEF IdsOf
  <2>. HIDE DEF zs, ids
  <2>. QED BY <2>1, <2>2
<1>3. \A x, y \in tables[t] : x[key] = y[key] => x = y
  BY RowsAre
<1>. HIDE DEF ids, n, key
<1>4. ids \in Seq(ToSet(ids)) /\ Len(ids) = n
  BY <1>1, <1>2, FunctionIsSequence
<1>5. Lists(ids, ToSet(ids))
  BY <1>1, <1>2, <1>3, <1>4 DEF Lists
<1>6. Cardinality(ToSet(ids)) = Len(ids)
  BY <1>5, ListedCardinality
<1>7. ToSet(ids) = {u[key] : u \in ToSet(rows)}
  BY <1>1, <1>2 DEF ToSet
<1>8. Leads(row, r, byName, tables) = {u[key] : u \in ToSet(rows)}
  BY DEF Leads, key
<1>9. Exactly(ids, Leads(row, r, byName, tables))
  BY <1>6, <1>7, <1>8 DEF Exactly
<1>. QED BY <1>9 DEF ids

\* The condition on the join key selects the rows that the parent leads to.
LEMMA ScopedSelects ==
    ASSUME NEW s, NEW p, Complete(p), p.filter = <<>>, p.search = <<>>, NEW column, NEW value, value # Null,
           NEW table
    PROVE  Where(s, Scoped(p, column, value), table) = {u \in table : u[column] = value}
<1>. DEFINE mine == [op |-> "eq", operand |-> {value}]
            q == Scoped(p, column, value)
<1>1. q.search = <<>> /\ DOMAIN q.filter = {column} /\ q.filter[column] = {mine}
  <2>. HIDE DEF mine
  <2>1. DOMAIN p.filter = {}
    OBVIOUS
  <2>2. q = [p EXCEPT !.filter = Put(@, column, {} \cup {mine})]
    BY <2>1 DEF Scoped, mine
  <2>. HIDE DEF q
  <2>3. q.search = p.search /\ q.filter = Put(p.filter, column, {} \cup {mine})
    BY <2>2 DEF Complete
  <2>. QED BY <2>1, <2>3 DEF Put
<1>2. \A u \in table : Satisfies(u[column], mine) <=> u[column] = value
  BY DEF Satisfies
<1>. HIDE DEF mine, q
<1>3. Where(s, q, table) = {u \in table : u[column] = value}
  BY <1>1, <1>2 DEF Where
<1>. QED BY <1>3 DEF q

LEMMA ScopedStays ==
    ASSUME NEW p, Complete(p), NEW column, NEW value, NEW q, q = Scoped(p, column, value)
    PROVE  Complete(q) /\ q.sort = p.sort /\ q.page = p.page /\ q.fields = p.fields
<1>1. PICK filter : q = [p EXCEPT !.filter = filter]
  BY DEF Scoped
<1>. QED BY <1>1 DEF Complete

LEMMA FetchRelatedTrue ==
    ASSUME TypeInv, TruthInv, UNCHANGED input, Consistent(schemas), phase = "querying",
           request.kind \in {"related", "linkage"}, NEW p, Complete(p), SortedBy(p.sort, Target),
           request.kind = "linkage" => p.filter = <<>> /\ p.search = <<>> /\ p.page = <<>>,
           NEW way, FetchedBy(p, way)
    PROVE  TruthInv'
<1>. DEFINE value == Owned(Schema, parent, Descriptor.own)
            scoped == Scoped(p, Descriptor.related, value)
            answer == Query(Target, scoped, db[Target.name], way)
<1>0. /\ Given /\ Closed(reg) /\ Target.name \in DOMAIN reg /\ reg[Target.name] = Target
      /\ Schema.name \in DOMAIN reg /\ reg[Schema.name] = Schema
      /\ Target = reg[Descriptor.resource] /\ Descriptor.resource \in DOMAIN reg
  <2>1. Given
    BY DEF TypeInv
  <2>2. Descriptor \in Relationships(Schema) /\ Schema.name \in DOMAIN reg /\ reg[Schema.name] = Schema
    BY <2>1, TargetsAre
  <2>3. Closed(reg)
    BY <2>1, RegistryIsClosed
  <2>4. Descriptor.resource \in DOMAIN reg
    BY <2>2, <2>3 DEF Closed
  <2>. QED BY <2>1, <2>2, <2>3, <2>4, TargetsAre DEF Target
<1>a. Target.name = Descriptor.resource
  BY <1>0 DEF Closed
<1>b. UNCHANGED <<request, reg, Schema, Descriptor, Target>>
  BY InputStays
<1>1. CASE ~ Has(Schema, parent, Descriptor.own)
  BY <1>1, RefuseIsTrue DEF FetchedBy
<1>2. CASE Has(Schema, parent, Descriptor.own)
  <2>0. ASSUME Peeking
        PROVE  \E row \in db[Schema.name] : row[Schema.key.name] = request.id /\ row[Descriptor.own] = value
    <3>1. Faithful(parent, reg, db) /\ parent.kind = Schema.name /\ parent.id = request.id
      BY <2>0 DEF TruthInv, Linking
    <3>2. PICK row \in db[Schema.name] : TrueTo(parent, row, reg, db)
      BY <3>1 DEF Faithful
    <3>3. row[Schema.key.name] = request.id
      BY <1>0, <3>1, <3>2 DEF TrueTo
    <3>4. value = row[Descriptor.own]
      <4>. DEFINE column == Descriptor.own
                  m == Schema.name
      <4>1. Has(reg[m], parent, column) /\ parent.kind = m
        BY <1>0, <1>2, <3>1
      <4>. HIDE DEF column, m
      <4>2. Owned(reg[m], parent, column) = row[column]
        BY <3>2, <4>1 DEF Owned, Has, TrueTo
      <4>. QED BY <1>0, <4>2 DEF column, m
    <3>. QED BY <3>3, <3>4
  <2>1. CASE value = Null
    <3>1. phase' = "done" /\ reply' = Document(<<>>, {}) /\ UNCHANGED db
      BY <1>2, <2>1 DEF FetchedBy, Respond
    <3>2. ShownResources' = {} /\ reply'.primary = <<>>
      BY <3>1 DEF ShownResources, Document, ToSet
    <3>a. ToSet(reply'.primary) = {} /\ reply'.included = {}
      BY <3>1 DEF Document, ToSet
    <3>3. Peeking => LinkageTrue(<<>>)
      <4>. SUFFICES ASSUME Peeking PROVE LinkageTrue(<<>>)
        OBVIOUS
      <4>. DEFINE m == Schema.name
      <4>1. PICK row \in db[m] : row[Schema.key.name] = request.id /\ row[Descriptor.own] = Null
        BY <2>0, <2>1
      <4>2. KeptAll(reg, db)
        BY DEF TruthInv
      <4>3. \A x, y \in db[m] : x[Schema.key.name] = y[Schema.key.name] => x = y
        BY <1>0, <4>2, RowsAre
      <4>4. RowsWithId(m, request.id) = {row}
        BY <1>0, <4>1, <4>3 DEF RowsWithId
      <4>5. (CHOOSE x \in RowsWithId(m, request.id) : TRUE) = row
        BY <4>4
      <4>6. RelatedIds(row, Descriptor) = {}
        BY <4>1 DEF RelatedIds
      <4>7. [i \in DOMAIN <<>> |-> <<>>[i].id] = <<>>
        OBVIOUS
      <4>8. Exactly([i \in DOMAIN <<>> |-> <<>>[i].id], {})
        BY <4>7, OneIsExact
      <4>. QED BY <4>5, <4>6, <4>8 DEF LinkageTrue
    <3>4. LinkageIsTrue'
      <4>1. DocumentTrue(ToSet(reply'.primary), reply'.included, Unattached)
        BY <3>a DEF DocumentTrue
      <4>. QED BY <3>1, <3>2, <3>3, <4>1, TrueAnswer
    <3>5. (Consistent(schemas) => KeptAll(reg, db))'
      BY <1>b, <3>1 DEF TruthInv, input
    <3>6. ~ Loading' /\ Linking' /\ phase' # "parsing"
      BY <3>1 DEF Loading, Linking
    <3>. QED BY <3>4, <3>5, <3>6 DEF TruthInv
  <2>2. CASE value # Null
    <3>1. LoadAnswer(Target, answer, scoped, "loading")
      BY <1>2, <2>2 DEF FetchedBy
    <3>2. CASE answer.error # "none"
      BY <3>1, <3>2, RefuseIsTrue DEF LoadAnswer
    <3>3. CASE answer.error = "none"
      <4>1. phase' = "loading" /\ UNCHANGED db
        BY <3>1, <3>3 DEF LoadAnswer
      <4>2. Complete(scoped) /\ SortedBy(scoped.sort, Target) /\ scoped.page = p.page
        BY ScopedStays
      <4>3. request.kind = "linkage" =>
              Where(Target, scoped, db[Target.name]) = {u \in db[Target.name] : u[Descriptor.related] = value}
        <5>. DEFINE table == db[Target.name]
                    column == Descriptor.related
                    v == value
                    s == Target
        <5>1. v # Null
          BY <2>2
        <5>. HIDE DEF table, column, v, s
        <5>2. request.kind = "linkage" => Where(s, Scoped(p, column, v), table) = {u \in table : u[column] = v}
          BY <5>1, ScopedSelects
        <5>. QED BY <5>2 DEF table, column, v, s
      <4>. DEFINE s == Target
                  m == s.name
                  q == scoped
      <4>4. s.name \in DOMAIN reg /\ reg[s.name] = s /\ SortedBy(q.sort, s)
            /\ answer = Query(s, q, db[s.name], way) /\ LoadAnswer(s, answer, q, "loading")
        BY <1>0, <3>1, <4>2
      <4>. HIDE DEF scoped, answer
      <4>5. TrueLoading(stack', cache', Unattached, reg, db) /\ (Peeking => Linking')
        <5>. DEFINE next == "loading"
                    build == way
                    spared == Unattached
        <5>1. PICK rows :
                /\ q.page = <<>> => ToSet(rows) = Where(s, q, db[s.name])
                /\ Lists(rows, db[s.name])
                /\ TrueLoading(stack', cache', spared, reg, db)
                /\ Begun(stack', rows, s.name, reg)
          <6>. DEFINE t == s
          <6>1. t.name \in DOMAIN reg /\ reg[t.name] = t /\ SortedBy(q.sort, t)
                /\ answer = Query(t, q, db[t.name], build) /\ LoadAnswer(t, answer, q, next) /\ Complete(q)
            BY <4>2, <4>4
          <6>. HIDE DEF t, q, s, next, build, spared
          <6>2. \E rows :
                  /\ q.page = <<>> => ToSet(rows) = Where(t, q, db[t.name])
                  /\ Lists(rows, db[t.name])
                  /\ phase' = next /\ UNCHANGED <<db, parent>>
                  /\ TrueLoading(stack', cache', spared, reg, db)
                  /\ Begun(stack', rows, t.name, reg)
            BY <3>3, <6>1, QueryTrue
          <6>. QED BY <6>2 DEF t
        <5>2. ASSUME Peeking PROVE Linking'
          <6>1. PICK row \in db[Schema.name] : row[Schema.key.name] = request.id /\ row[Descriptor.own] = value
            BY <2>0, <5>2
          <6>. DEFINE r == Descriptor
                      k == r.resource
          <6>2. ToSet(rows) = {u \in db[k] : u[r.related] = row[r.own]} /\ row[r.own] # Null
            <7>1. q.page = <<>> /\ request.kind = "linkage"
              BY <4>2, <5>2 DEF Peeking
            <7>. HIDE DEF q
            <7>2. ToSet(rows) = Where(Target, scoped, db[Target.name])
              BY <5>1, <7>1 DEF q
            <7>. QED BY <1>a, <2>2, <4>3, <6>1, <7>1, <7>2
          <6>3. Lists(rows, db[k]) /\ Begun(stack', rows, k, reg) /\ k \in DOMAIN reg
            BY <1>0, <1>a, <5>1
          <6>4. KeptAll(reg, db)
            BY DEF TruthInv
          <6>. HIDE DEF k
          <6>5. r.resource = k
            BY DEF k
          <6>. HIDE DEF r
          <6>6. Exactly(IdsOf(stack'[1].records), Leads(row, r, reg, db))
            BY <1>0, <6>2, <6>3, <6>4, <6>5, ListedIds
          <6>7. \E x \in db[Schema.name] :
                  x[Schema.key.name] = request.id /\ Exactly(IdsOf(stack'[1].records), Leads(x, Descriptor, reg, db))
            BY <6>1, <6>6 DEF r
          <6>. QED BY <1>b, <4>1, <6>7 DEF Linking
        <5>. QED BY <5>1, <5>2
      <4>. QED BY <4>1, <4>5, StepIsTrue
    <3>. QED BY <3>2, <3>3
  <2>. QED BY <2>1, <2>2
<1>. QED BY <1>1, <1>2

-----------------------------------------------------------------------------
(* The loader. *)

\* Another read of the same records.
Same(ys, xs) ==
  /\ Len(ys) = Len(xs) /\ IdsOf(ys) = IdsOf(xs)
  /\ \A i \in 1..Len(xs) : ys[i].kind = xs[i].kind /\ ys[i].id = xs[i].id

LEMMA SameIs ==
    ASSUME NEW m, NEW xs, Records(xs, m), NEW ys, Records(ys, m),
           Len(ys) = Len(xs), \A i \in 1..Len(xs) : ys[i].id = xs[i].id
    PROVE  Same(ys, xs)
<1>1. /\ DOMAIN xs = 1..Len(xs) /\ DOMAIN ys = 1..Len(ys) /\ Len(ys) = Len(xs)
      /\ \A i \in 1..Len(xs) : ys[i].kind = xs[i].kind /\ ys[i].id = xs[i].id
  BY DEF Records, IsRecord
<1>. QED BY <1>1 DEF Same, IdsOf

LEMMA StillDistinct ==
    ASSUME NEW xs, NEW ys, Same(ys, xs), Distinct(xs)
    PROVE  Distinct(ys)
BY DEF Same, Distinct

LEMMA OnlyStays ==
    ASSUME NEW xs, NEW ys, Same(ys, xs) \/ ys = xs, NEW m, NEW id, OnlyOf(xs, m, id)
    PROVE  OnlyOf(ys, m, id)
<1>1. Len(xs) = 1 /\ 1 \in 1..1
  BY DEF OnlyOf
<1>. QED BY <1>1 DEF Same, OnlyOf

LEMMA LinkingStays ==
    ASSUME UNCHANGED input, UNCHANGED <<db, phase>>, phase \in {"loading parent", "loading"},
           NEW xs, xs = stack[1].records, NEW ys, ys = stack'[1].records,
           Same(ys, xs) \/ ys = xs, Linking
    PROVE  Linking'
<1>1. UNCHANGED <<Schema, Descriptor, reg, request>>
  BY InputStays
<1>2. phase = "loading parent" => OnlyOf(ys, Schema.name, request.id)
  <2>1. phase = "loading parent" => OnlyOf(xs, Schema.name, request.id)
    BY DEF Linking
  <2>2. OnlyOf(xs, Schema.name, request.id) => OnlyOf(ys, Schema.name, request.id)
    BY OnlyStays
  <2>. QED BY <2>1, <2>2
<1>3. IdsOf(ys) = IdsOf(xs)
  BY DEF Same
<1>4. phase = "loading" =>
        \E row \in db[Schema.name] :
          row[Schema.key.name] = request.id /\ Exactly(IdsOf(ys), Leads(row, Descriptor, reg, db))
  BY <1>3 DEF Linking
<1>. QED BY <1>1, <1>2, <1>4 DEF Linking

LEMMA LoadRelationshipTrue == ASSUME TypeInv, TruthInv, LoadRelationship PROVE TruthInv'
<1>. DEFINE m == Top.schema
            s == reg[m]
            r == Head(Top.pending)
            target == reg[r.resource]
            records == Top.records
            fields == parameters.fields
            recurse == IsIncluded(Top.include, r.name)
            loaded == LoadRelated(s, target, r, records, fields, recurse, db[target.name])
            here == [Top EXCEPT !.records = loaded.records, !.pending = Tail(@)]
            below == Frame(target, loaded.related, fields, Derive(Top.include, r.name))
            conflict == MergeConflicts(cache, loaded.related)
            replaced == [stack EXCEPT ![Len(stack)] = here]
            spared == IF Len(stack) = 1 THEN Unattached ELSE {}
<1>1. /\ Loading /\ Top.pending # <<>> /\ UNCHANGED input
      /\ IF loaded.error # "none" THEN Refuse(loaded.error)
         ELSE IF recurse
         THEN /\ stack' = Append(replaced, below)
              /\ UNCHANGED <<db, phase, parameters, cache, included, parent, reply>>
         ELSE IF conflict THEN Refuse("DataLoadingError")
         ELSE /\ cache' = MergeAll(cache, loaded.related)
              /\ stack' = replaced
              /\ UNCHANGED <<db, phase, parameters, included, parent, reply>>
  BY DEF LoadRelationship, Keep
<1>2. /\ IsFrame(Top) /\ Len(stack) \in Nat /\ Len(stack) > 0
      /\ Consistent(schemas) /\ Closed(reg) /\ Registered(reg, schemas)
  BY <1>1, TopIs
<1>3. /\ r \in Relationships(s) /\ r.resource \in DOMAIN reg /\ target.name = r.resource /\ reg[target.name] = target
      /\ m \in DOMAIN reg /\ Records(records, m) /\ s.name = m
  <2>1. Top.pending \in Seq(Relationships(s))
    BY <1>2 DEF IsFrame
  <2>2. r \in Relationships(s)
    BY <1>1, <2>1, HeadTailProperties
  <2>. QED BY <1>2, <2>2 DEF IsFrame, Closed
<1>4. LoadedFrom(loaded, s, target, r, records, fields)
  <2>1. IsFiniteSet(db[target.name])
    BY <1>2, <1>3 DEF TypeInv, Stored, Registered
  <2>. HIDE DEF recurse, s, r, target, records, fields
  <2>. QED BY <2>1, LoadRelatedIs
<1>5. CASE loaded.error # "none"
  BY <1>1, <1>5, RefuseIsTrue
<1>6. CASE loaded.error = "none"
  <2>0. IsFrame(here) /\ Records(loaded.related, target.name)
    BY <1>1, <1>3, <1>4, <1>6, LoadedTypes
  <2>1. /\ KeptAll(reg, db) /\ TrueLoading(stack, cache, Unattached, reg, db) /\ FrameTrue(Top, spared, reg, db)
        /\ Peeking => Linking
    <3>1. Len(stack) \in 1..Len(stack)
      BY <1>2
    <3>. QED BY <1>1, <1>2, <3>1 DEF TruthInv, TrueLoading, Top
  <2>. HIDE DEF spared
  <2>2. /\ AllFaithfulBut(loaded.records, spared, reg, db) /\ Len(loaded.records) = Len(records)
        /\ \A i \in 1..Len(records) : loaded.records[i].id = records[i].id
        /\ AllFaithful(loaded.related, reg, db) /\ Distinct(loaded.related)
    <3>1. AllFaithfulBut(records, spared, reg, db) /\ Distinct(records)
      BY <2>1 DEF FrameTrue
    <3>. DEFINE k == r.resource
    <3>2. loaded = LoadRelated(reg[m], reg[k], r, records, fields, recurse, db[k]) /\ r \in Relationships(reg[m])
      BY <1>3
    <3>. HIDE DEF k, r, m, records, fields, recurse, loaded
    <3>3. k = r.resource
      BY DEF k
    <3>4. Closed(reg) /\ KeptAll(reg, db) /\ m \in DOMAIN reg /\ Records(records, m) /\ loaded.error = "none"
      BY <1>2, <1>3, <1>6, <2>1
    <3>5. loaded = LoadRelated(reg[m], reg[r.resource], r, records, fields, recurse, db[r.resource])
      BY <3>2, <3>3
    <3>6. r \in Relationships(reg[m])
      BY <3>2
    <3>7. LoadedTrueBut(loaded, records, spared, reg, db)
      BY <3>1, <3>4, <3>5, <3>6, SparedTrue
    <3>. QED BY <3>7 DEF LoadedTrueBut
  <2>3. here.schema = Top.schema /\ here.records = loaded.records
    BY <1>2 DEF IsFrame
  <2>. HIDE DEF loaded, conflict
  <2>4. FrameTrue(here, spared, reg, db) /\ Same(here.records, Top.records)
    <3>1. Records(loaded.records, m) /\ Records(Top.records, m)
      BY <1>3, <2>0, <2>3 DEF IsFrame
    <3>2. Distinct(Top.records)
      BY <2>1 DEF FrameTrue
    <3>. HIDE DEF m, here
    <3>3. Same(loaded.records, Top.records)
      BY <2>2, <3>1, SameIs
    <3>4. Distinct(loaded.records)
      BY <3>2, <3>3, StillDistinct
    <3>. QED BY <2>2, <2>3, <3>3, <3>4 DEF FrameTrue
  <2>. HIDE DEF here
  <2>5. /\ Frames(replaced) /\ Len(replaced) = Len(stack) /\ replaced[Len(stack)] = here
        /\ \A i \in 1..Len(stack) : i # Len(stack) => replaced[i] = stack[i]
    <3>1. Len(stack) \in 1..Len(stack)
      BY <1>2
    <3>2. Frames(stack)
      BY DEF TypeInv
    <3>. QED BY <2>0, <3>1, <3>2, FramesReplaced
  <2>6. \A i \in 1..Len(replaced) : FrameTrue(replaced[i], IF i = 1 THEN Unattached ELSE {}, reg, db)
    <3>1. FrameTrue(here, IF Len(stack) = 1 THEN Unattached ELSE {}, reg, db)
      BY <2>4 DEF spared
    <3>2. \A i \in 1..Len(stack) : FrameTrue(stack[i], IF i = 1 THEN Unattached ELSE {}, reg, db)
      BY <2>1 DEF TrueLoading
    <3>. QED BY <2>5, <3>1, <3>2
  <2>7. Same(replaced[1].records, stack[1].records) \/ replaced[1].records = stack[1].records
    <3>1. 1 \in 1..Len(stack)
      BY <1>2
    <3>2. CASE Len(stack) = 1
      BY <2>4, <2>5, <3>2 DEF Top
    <3>3. CASE Len(stack) # 1
      BY <2>5, <3>1, <3>3
    <3>. QED BY <3>2, <3>3
  <2>. HIDE DEF replaced, recurse
  <2>8. CASE recurse
    <3>1. stack' = Append(replaced, below) /\ UNCHANGED <<db, phase, cache>>
      BY <1>1, <1>6, <2>8
    <3>2. /\ Len(stack') = Len(replaced) + 1 /\ stack'[Len(replaced) + 1] = below /\ Len(replaced) \in Nat
          /\ \A i \in 1..Len(replaced) : stack'[i] = replaced[i]
      BY <2>5, <3>1, AppendIs, SequenceIs DEF Frames
    <3>3. FrameTrue(below, {}, reg, db)
      <4>1. below.records = loaded.related
        BY DEF Frame
      <4>2. AllFaithfulBut(loaded.related, {}, reg, db)
        BY <2>2, NothingSpared
      <4>. QED BY <2>2, <4>1, <4>2 DEF FrameTrue
    <3>. HIDE DEF below
    <3>4. TrueLoading(stack', cache', Unattached, reg, db)
      <4>1. \A i \in 1..Len(stack') : (i = Len(replaced) + 1 /\ i # 1) \/ i \in 1..Len(replaced)
        BY <1>2, <2>5, <3>2
      <4>2. \A i \in 1..Len(stack') : FrameTrue(stack'[i], IF i = 1 THEN Unattached ELSE {}, reg, db)
        BY <2>6, <3>2, <3>3, <4>1
      <4>. QED BY <2>1, <3>1, <4>2 DEF TrueLoading
    <3>5. stack'[1] = replaced[1]
      <4>1. 1 \in 1..Len(replaced)
        BY <1>2, <2>5
      <4>. QED BY <3>2, <4>1
    <3>6. Peeking => Linking'
      BY <1>1, <2>1, <2>7, <3>1, <3>5, LinkingStays DEF Loading
    <3>. QED BY <1>1, <3>1, <3>4, <3>6, StepIsTrue DEF Loading
  <2>9. CASE ~ recurse
    <3>1. CASE conflict
      BY <1>1, <1>6, <2>9, <3>1, RefuseIsTrue
    <3>2. CASE ~ conflict
      <4>1. cache' = MergeAll(cache, loaded.related) /\ stack' = replaced /\ UNCHANGED <<db, phase>>
        BY <1>1, <1>6, <2>9, <3>2
      <4>2. CacheTrue(cache', reg, db)
        <5>1. Keyed(cache) /\ CacheTrue(cache, reg, db) /\ AllFaithful(loaded.related, reg, db)
          BY <2>1, <2>2 DEF TypeInv, TrueLoading
        <5>. QED BY <1>2, <2>0, <2>1, <4>1, <5>1, MergeAllIsTrue
      <4>3. TrueLoading(stack', cache', Unattached, reg, db)
        BY <2>6, <4>1, <4>2 DEF TrueLoading
      <4>4. Peeking => Linking'
        BY <1>1, <2>1, <2>7, <4>1, LinkingStays DEF Loading
      <4>. QED BY <1>1, <4>1, <4>3, <4>4, StepIsTrue DEF Loading
    <3>. QED BY <3>1, <3>2
  <2>. QED BY <2>8, <2>9
<1>. QED BY <1>5, <1>6

LEMMA ReturnTrue == ASSUME TypeInv, TruthInv, Return PROVE TruthInv'
<1>1. Loading /\ Len(stack) > 1 /\ UNCHANGED input /\ Top.pending = <<>>
  BY DEF Return
<1>2. IsFrame(Top) /\ Len(stack) \in Nat /\ Consistent(schemas) /\ Closed(reg)
  BY <1>1, TopIs
<1>3. CASE MergeConflicts(cache, Top.records)
  BY <1>1, <1>3, RefuseIsTrue DEF Return
<1>4. CASE ~ MergeConflicts(cache, Top.records)
  <2>. DEFINE f == Top
  <2>1. /\ cache' = MergeAll(cache, f.records)
        /\ stack' = SubSeq(stack, 1, Len(stack) - 1)
        /\ UNCHANGED <<db, phase>>
    BY <1>4 DEF Return, Keep
  <2>2. /\ Len(stack') = Len(stack) - 1
        /\ \A i \in 1..(Len(stack) - 1) : stack'[i] = stack[i]
    <3>1. stack \in Seq(ToSet(stack))
      BY DEF TypeInv, Frames
    <3>2. Len(stack) > 0
      BY <1>1, <1>2
    <3>. QED BY <2>1, <3>1, <3>2, FrontIs
  <2>3. /\ KeptAll(reg, db) /\ TrueLoading(stack, cache, Unattached, reg, db) /\ FrameTrue(f, {}, reg, db)
        /\ Peeking => Linking
    <3>1. Len(stack) \in 1..Len(stack) /\ Len(stack) # 1
      BY <1>1, <1>2
    <3>. QED BY <1>1, <1>2, <3>1 DEF TruthInv, TrueLoading, Top
  <2>4. Records(f.records, f.schema) /\ Keyed(cache)
    BY <1>2 DEF TypeInv, IsFrame
  <2>. HIDE DEF f
  <2>5. TrueLoading(stack', cache', Unattached, reg, db)
    <3>1. AllFaithful(f.records, reg, db) /\ CacheTrue(cache, reg, db)
      BY <2>3, NothingSpared DEF TrueLoading, FrameTrue
    <3>2. CacheTrue(cache', reg, db)
      BY <1>2, <2>1, <2>3, <2>4, <3>1, MergeAllIsTrue
    <3>3. \A i \in 1..Len(stack') : i \in 1..(Len(stack) - 1) /\ i \in 1..Len(stack)
      BY <1>2, <2>2
    <3>. QED BY <2>2, <2>3, <3>2, <3>3 DEF TrueLoading
  <2>6. stack'[1] = stack[1]
    <3>1. 1 \in 1..(Len(stack) - 1)
      BY <1>1, <1>2
    <3>. QED BY <2>2, <3>1
  <2>7. Peeking => Linking'
    BY <1>1, <2>1, <2>3, <2>6, LinkingStays DEF Loading
  <2>. QED BY <1>1, <2>1, <2>5, <2>7, StepIsTrue DEF Loading
<1>. QED BY <1>3, <1>4

LEMMA FinishParentTrue == ASSUME TypeInv, TruthInv, FinishParent PROVE TruthInv'
<1>. DEFINE xs == Top.records
<1>1. /\ UNCHANGED input /\ UNCHANGED db /\ Loading /\ Len(stack) = 1 /\ phase = "loading parent"
      /\ parent' = Head(xs) /\ phase' = IF request.kind = "linkage" THEN "querying" ELSE "parsing"
  BY DEF FinishParent, CollectionLoaded
<1>2. IsFrame(Top) /\ Consistent(schemas) /\ Top = stack[1] /\ 1 \in 1..Len(stack)
  <2>1. IsFrame(Top) /\ Consistent(schemas) /\ Len(stack) \in Nat
    BY <1>1, TopIs
  <2>2. Len(stack) = 1 /\ Len(stack) \in 1..Len(stack)
    <3>1. Len(stack) = 1
      BY DEF FinishParent, CollectionLoaded
    <3>. QED BY <2>1, <3>1
  <2>3. Top = stack[1]
    BY <2>2 DEF Top
  <2>. QED BY <2>1, <2>2, <2>3
<1>3. ~ Loading' /\ phase' # "done"
  BY <1>1 DEF Loading
<1>4. Records(xs, Top.schema)
  BY <1>2 DEF IsFrame
<1>5. ASSUME Peeking PROVE Linking'
  <2>0. request.kind = "linkage" /\ Unattached = {}
    BY <1>5 DEF Peeking, Unattached
  <2>1. OnlyOf(xs, Schema.name, request.id) /\ AllFaithful(xs, reg, db)
    <3>1. AllFaithfulBut(xs, {}, reg, db)
      BY <1>1, <1>2, <2>0 DEF TruthInv, TrueLoading, FrameTrue
    <3>. QED BY <1>1, <1>2, <1>5, <3>1, NothingSpared DEF TruthInv, Linking
  <2>. HIDE DEF xs
  <2>2. Len(xs) = 1 /\ xs[1].kind = Schema.name /\ xs[1].id = request.id
    BY <2>1 DEF OnlyOf
  <2>3. Head(xs) = xs[1]
    <3>1. xs \in Seq(ToSet(xs))
      BY <1>4 DEF Records
    <3>. QED BY <3>1
  <2>4. Faithful(xs[1], reg, db)
    BY <2>1, <2>2 DEF AllFaithful
  <2>5. UNCHANGED <<request, reg, Schema>>
    BY <1>1, InputStays
  <2>. QED BY <1>1, <2>0, <2>2, <2>3, <2>4, <2>5 DEF Linking
<1>. QED BY <1>1, <1>3, <1>5, StepIsTrue

LEMMA RowIsFound ==
    ASSUME Closed(reg), KeptAll(reg, db), NEW m \in DOMAIN reg, NEW row \in db[m], NEW id,
           row[reg[m].key.name] = id
    PROVE  RowsWithId(m, id) = {row}
<1>1. \A x, y \in db[m] : x[reg[m].key.name] = y[reg[m].key.name] => x = y
  BY RowsAre
<1>. QED BY <1>1 DEF RowsWithId

LEMMA ResourceIsTrue ==
    ASSUME Closed(reg), KeptAll(reg, db), NEW x, NEW spared, FaithfulBut(x, spared, reg, db)
    PROVE  ResourceTrue(Resource(x), spared)
<1>. DEFINE m == x.kind
            y == Resource(x)
<1>1. m \in DOMAIN reg
  BY DEF FaithfulBut
<1>2. PICK row \in db[m] : TrueBut(x, spared, row, reg, db)
  BY DEF FaithfulBut
<1>3. RowsWithId(m, x.id) = {row}
  <2>1. row[reg[m].key.name] = x.id
    BY <1>2 DEF TrueBut
  <2>. QED BY <1>1, <2>1, RowIsFound
<1>4. /\ y.kind = m /\ y.id = x.id /\ y.relationships = x.relationships
      /\ \A a \in DOMAIN y.attributes : a \in DOMAIN x.columns /\ y.attributes[a] = x.columns[a]
  BY DEF Resource, Restrict
<1>. HIDE DEF y
<1>5. RowsWithId(y.kind, y.id) = {row} /\ RowOf(y) = row
  BY <1>3, <1>4 DEF RowOf
<1>6. \A a \in DOMAIN y.attributes : y.attributes[a] = row[a]
  BY <1>2, <1>4 DEF TrueBut
<1>7. \A name \in DOMAIN y.relationships \ spared :
        Exactly(y.relationships[name], RelatedIds(row, Relationship(reg[y.kind], name)))
  <2>1. \A r : RelatedIds(row, r) = Leads(row, r, reg, db)
    BY DEF RelatedIds, Leads
  <2>. QED BY <1>2, <1>4, <2>1 DEF TrueBut
<1>8. ResourceTrue(y, spared)
  BY <1>5, <1>6, <1>7 DEF ResourceTrue
<1>. QED BY <1>8 DEF y

LEMMA FinishTrue == ASSUME TypeInv, TruthInv, Finish PROVE TruthInv'
<1>1. /\ UNCHANGED input /\ phase = "loading" /\ Loading /\ Len(stack) = 1
      /\ Consistent(schemas) /\ Given
  BY DEF Finish, CollectionLoaded, TypeInv, Loading
<1>2. CASE TooMany
  BY <1>1, <1>2, RefuseIsTrue DEF Finish
<1>3. CASE ~ TooMany
  <2>. DEFINE Shape(x) == IF request.kind = "linkage" THEN Bare(x) ELSE Resource(x)
              f == Top
              primary == [i \in DOMAIN f.records |-> Shape(f.records[i])]
  <2>1. phase' = "done" /\ reply' = Document(primary, {Resource(x) : x \in Included}) /\ UNCHANGED db
    BY <1>3 DEF Finish, Respond
  <2>2. reply'.primary = primary /\ reply'.included = {Resource(x) : x \in Included}
    BY <2>1 DEF Document
  <2>3. Closed(reg) /\ f = stack[1] /\ 1 \in 1..Len(stack) /\ IsFrame(f)
    BY <1>1, TopIs DEF Top
  <2>4. DOMAIN f.records = 1..Len(f.records)
    BY <2>3 DEF IsFrame, Records
  <2>5. /\ KeptAll(reg, db) /\ AllFaithfulBut(f.records, Unattached, reg, db) /\ CacheTrue(cache, reg, db)
        /\ Peeking => Linking
    BY <1>1, <2>3 DEF TruthInv, TrueLoading, FrameTrue
  <2>. HIDE DEF f
  <2>6. ASSUME request.kind # "linkage"
        PROVE  DocumentTrue(ToSet(reply'.primary), reply'.included, Unattached)
    <3>. DEFINE spared == Unattached
    <3>1. ASSUME NEW i \in DOMAIN f.records PROVE ResourceTrue(Resource(f.records[i]), spared)
      <4>1. FaithfulBut(f.records[i], spared, reg, db)
        BY <2>4, <2>5, <3>1 DEF AllFaithfulBut
      <4>. HIDE DEF spared
      <4>. QED BY <2>3, <2>5, <4>1, ResourceIsTrue
    <3>2. ASSUME NEW x \in Included PROVE ResourceTrue(Resource(x), {})
      <4>1. FaithfulBut(x, {}, reg, db)
        BY <2>5, NothingSpared DEF Included, CacheTrue
      <4>. QED BY <2>3, <2>5, <4>1, ResourceIsTrue
    <3>3. ToSet(primary) = {Resource(f.records[i]) : i \in DOMAIN f.records}
      BY <2>6 DEF ToSet
    <3>. QED BY <2>2, <3>1, <3>2, <3>3 DEF DocumentTrue
  <2>7. ASSUME Peeking PROVE LinkageTrue(reply'.primary)
    <3>. DEFINE xs == f.records
                m == Schema.name
                zs == primary
    <3>1. PICK row \in db[m] : row[Schema.key.name] = request.id /\ Exactly(IdsOf(xs), Leads(row, Descriptor, reg, db))
      BY <1>1, <2>3, <2>5, <2>7 DEF Linking
    <3>2. m \in DOMAIN reg /\ reg[m] = Schema
      BY <1>1, TargetsAre
    <3>3. RowsWithId(m, request.id) = {row}
      BY <2>3, <2>5, <2>7, <3>1, <3>2, RowIsFound
    <3>4. (CHOOSE x \in RowsWithId(m, request.id) : TRUE) = row
      BY <3>3
    <3>5. RelatedIds(row, Descriptor) = Leads(row, Descriptor, reg, db)
      BY DEF RelatedIds, Leads
    <3>6. DOMAIN zs = DOMAIN xs /\ \A i \in DOMAIN xs : zs[i].id = xs[i].id
      BY <2>7 DEF Bare, Peeking
    <3>. HIDE DEF zs, xs
    <3>7. [i \in DOMAIN zs |-> zs[i].id] = IdsOf(xs)
      BY <3>6 DEF IdsOf
    <3>8. LinkageTrue(zs)
      BY <3>1, <3>4, <3>5, <3>7 DEF LinkageTrue
    <3>. QED BY <2>2, <3>8 DEF zs
  <2>8. LinkageIsTrue'
    <3>1. WithRecords' => request.kind # "linkage"
      BY <1>1, InputStays DEF WithRecords
    <3>. QED BY <1>1, <2>1, <2>6, <2>7, <3>1, TrueAnswer
  <2>9. (Consistent(schemas) => KeptAll(reg, db))'
    <3>1. UNCHANGED <<schemas, reg>>
      BY <1>1, InputStays
    <3>. QED BY <2>1, <2>5, <3>1
  <2>10. ~ Loading' /\ Linking' /\ phase' # "parsing"
    BY <2>1 DEF Loading, Linking
  <2>. QED BY <1>1, <2>8, <2>9, <2>10 DEF TruthInv
<1>. QED BY <1>2, <1>3

-----------------------------------------------------------------------------

LEMMA InitTrue == Init => TruthInv
<1>. SUFFICES ASSUME Init PROVE TruthInv
  OBVIOUS
<1>1. phase = "declared"
  BY Zenon DEF Init
<1>2. ~ Loading /\ ~ Answered /\ ~ WithRecords /\ Linking /\ phase # "parsing"
  BY <1>1 DEF Loading, Answered, WithRecords, Linking
<1>3. LinkageIsTrue
  BY <1>2 DEF LinkageIsTrue
<1>. QED BY <1>2, <1>3, InitKept DEF TruthInv

\* A step on the way to the primary fetch that loads nothing.
LEMMA EarlyIsTrue ==
    ASSUME TruthInv, UNCHANGED input, UNCHANGED db, phase' \in {"parent", "parsing", "querying"},
           request.kind = "linkage" => phase' = "parent"
    PROVE  TruthInv'
<1>1. ~ Loading' /\ phase' # "done" /\ (request.kind = "linkage" => Linking')
  BY DEF Loading, Linking
<1>. QED BY <1>1, StepIsTrue DEF Peeking

LEMMA ParseQueryTrue == ASSUME TruthInv, ParseQuery PROVE TruthInv'
<1>. DEFINE p == Parse(request.query, Target, reg)
<1>1. UNCHANGED input /\ phase = "parsing" /\ request.kind # "linkage"
  BY DEF ParseQuery, TruthInv
<1>2. CASE p.error # "none"
  BY <1>1, <1>2, RefuseIsTrue DEF ParseQuery
<1>3. CASE p.error = "none"
  <2>1. phase' = "querying" /\ UNCHANGED db
    BY <1>3 DEF ParseQuery
  <2>. QED BY <1>1, <2>1, EarlyIsTrue
<1>. QED BY <1>2, <1>3

LEMMA TryBuildTrue == ASSUME TruthInv, TryBuild PROVE TruthInv'
<1>1. CASE ~ Consistent(schemas)
  BY <1>1, RefuseIsTrue DEF TryBuild
<1>2. CASE Consistent(schemas)
  <2>1. /\ UNCHANGED input /\ UNCHANGED db /\ phase' \in {"parent", "parsing"}
        /\ request.kind = "linkage" => phase' = "parent"
    BY <1>2 DEF TryBuild
  <2>. QED BY <2>1, EarlyIsTrue
<1>. QED BY <1>1, <1>2

LEMMA IdleIsTrue == ASSUME TruthInv, UNCHANGED vars PROVE TruthInv'
<1>1. UNCHANGED <<db, phase, stack, cache, parent, reply>> /\ UNCHANGED input
  BY DEF vars, input
<1>2. UNCHANGED <<schemas, request, reg, Schema, Descriptor, Unattached>>
  BY <1>1, InputStays, UnattachedStays
<1>3. Linking => Linking'
  BY <1>1, <1>2 DEF Linking
<1>4. Loading' = Loading /\ Answered' = Answered /\ WithRecords' = WithRecords
  BY <1>1, <1>2 DEF Loading, Answered, WithRecords
<1>5. LinkageIsTrue'
  <2>. DEFINE spared == Unattached
  <2>1. LinkageIsTrue
    BY DEF TruthInv
  <2>2. WithRecords => DocumentTrue(ToSet(reply.primary), reply.included, spared)
    <3>. SUFFICES ASSUME WithRecords PROVE DocumentTrue(ToSet(reply.primary), reply.included, spared)
      OBVIOUS
    <3>. HIDE DEF spared
    <3>1. \A y \in ShownResources : ResourceTrue(y, IF y \in ToSet(reply.primary) THEN spared ELSE {})
      BY <2>1 DEF LinkageIsTrue, ResourceTrue, spared
    <3>. QED BY <3>1 DEF ShownResources, DocumentTrue
  <2>3. Answered /\ Peeking => LinkageTrue(reply.primary)
    BY <2>1 DEF LinkageIsTrue, LinkageTrue, Peeking
  <2>. QED BY <1>1, <1>4, <2>2, <2>3, TrueAnswer
<1>. QED BY <1>1, <1>2, <1>3, <1>4, <1>5, PeekingStays DEF TruthInv

-----------------------------------------------------------------------------
(* What a create writes. *)

\* What SQLite has checked of the rows it stored.
Accepted(s, stored, byName, tables, after) ==
  /\ \A i \in DOMAIN stored : Resolves(s, stored[i], byName, after)
  /\ \A i \in DOMAIN stored : \A c \in Unique(s, byName) :
       stored[i][c] # Null =>
         /\ \A row \in tables[s.name] : row[c] # stored[i][c]
         /\ \A j \in DOMAIN stored : j # i => stored[j][c] # stored[i][c]

LEMMA InsertAccepts ==
    ASSUME NEW s, NEW rows, NEW fields, NEW byName, NEW tables,
           InsertFault(s, rows, fields, byName, tables) = "none",
           NEW stored, stored = Completed(s, tables[s.name], rows),
           NEW after, after = [tables EXCEPT ![s.name] = @ \cup ToSet(stored)]
    PROVE  ~ FieldsPanic(s, fields) /\ Accepted(s, stored, byName, tables, after)
<1>. DEFINE taken(i, column) ==
              \/ \E row \in tables[s.name] : row[column] = stored[i][column]
              \/ \E j \in DOMAIN stored : j # i /\ stored[j][column] = stored[i][column]
            violated == \E i \in DOMAIN stored : \E column \in Unique(s, byName) :
                          stored[i][column] # Null /\ taken(i, column)
            dangling == \E i \in DOMAIN stored : ~ Resolves(s, stored[i], byName, after)
            uneven == \E i, j \in DOMAIN rows : DOMAIN rows[i] # DOMAIN rows[j]
            unfit == \E i \in DOMAIN rows : \/ DOMAIN rows[i] = {}
                                            \/ Len(rows) * Cardinality(DOMAIN rows[i]) > Variables
<1>1. InsertFault(s, rows, fields, byName, tables) =
        IF uneven THEN "InvalidOperation"
        ELSE IF FieldsPanic(s, fields) THEN "Panic"
        ELSE IF unfit THEN "SqlFailure"
        ELSE IF violated THEN "ConstraintViolation"
        ELSE IF dangling THEN "ForeignKeyViolation"
        ELSE "none"
  BY DEF InsertFault
<1>2. ~ FieldsPanic(s, fields) /\ ~ violated /\ ~ dangling
  <2>. HIDE DEF violated, dangling, uneven, unfit
  <2>. QED BY <1>1
<1>3. ASSUME NEW i \in DOMAIN stored PROVE Resolves(s, stored[i], byName, after)
  BY ONLY <1>2, <1>3 DEF dangling
<1>4. ASSUME NEW i \in DOMAIN stored, NEW c \in Unique(s, byName), stored[i][c] # Null
      PROVE  /\ \A row \in tables[s.name] : row[c] # stored[i][c]
             /\ \A j \in DOMAIN stored : j # i => stored[j][c] # stored[i][c]
  <2>1. ~ taken(i, c)
    BY ONLY <1>2, <1>4 DEF violated
  <2>. QED BY ONLY <2>1 DEF taken
<1>. QED BY ONLY <1>2, <1>3, <1>4 DEF Accepted

\* The rows to insert have columns of the table, and no key is NULL.
Insertable(s, rows) ==
  /\ rows \in Seq(ToSet(rows))
  /\ \A i \in 1..Len(rows) :
       /\ DOMAIN rows[i] \subseteq Columns(s)
       /\ \A c \in DOMAIN rows[i] : rows[i][c] \in Values
       /\ s.key.name \in DOMAIN rows[i] => rows[i][s.key.name] \in Nat \ {0}

\* Rows as a table keeps them.
Rows(s, stored) ==
  \A i \in 1..Len(stored) :
    stored[i] \in [Columns(s) -> Values] /\ stored[i][s.key.name] \in Nat \ {0}

CompletedAs(s, rows, stored) ==
  /\ stored \in Seq(ToSet(stored)) /\ Len(stored) = Len(rows) /\ Rows(s, stored)
  /\ \A i \in 1..Len(rows) : \A c \in DOMAIN rows[i] : stored[i][c] = rows[i][c]

LEMMA CompletedRows ==
    ASSUME NEW s, NEW table, IsFiniteSet(table), \A row \in table : row[s.key.name] \in Nat \ {0},
           NEW rows, Insertable(s, rows),
           NEW stored, stored = Completed(s, table, rows)
    PROVE  CompletedAs(s, rows, stored)
<1>. DEFINE key == s.key.name
            n == Len(rows)
            given == {j \in DOMAIN rows : key \in DOMAIN rows[j]}
            taken == Taken(s, table, rows)
            top == Max({0} \cup taken)
<1>1. n \in Nat /\ DOMAIN rows = 1..n
  BY DEF Insertable
<1>2. top \in Nat
  <2>1. IsFiniteSet({row[key] : row \in table})
    <3>. DEFINE f == [row \in table |-> row[key]]
    <3>1. {row[key] : row \in table} = {f[row] : row \in table} /\ DOMAIN f = table /\ f = [row \in table |-> f[row]]
      OBVIOUS
    <3>. HIDE DEF f
    <3>2. IsFiniteSet({f[row] : row \in table})
      BY <3>1, ImageIsFinite
    <3>. QED BY <3>1, <3>2
  <2>2. IsFiniteSet(1..n)
    BY <1>1, FS_Interval
  <2>3. IsFiniteSet(given)
    <3>1. given \subseteq 1..n
      BY <1>1
    <3>. QED BY <2>2, <3>1, FS_Subset
  <2>4. IsFiniteSet({rows[i][key] : i \in given})
    <3>. DEFINE f == [i \in given |-> rows[i][key]]
    <3>1. {rows[i][key] : i \in given} = {f[i] : i \in given} /\ DOMAIN f = given /\ f = [i \in given |-> f[i]]
      OBVIOUS
    <3>. HIDE DEF f, given
    <3>2. IsFiniteSet({f[i] : i \in given})
      BY <2>3, <3>1, ImageIsFinite
    <3>. QED BY <3>1, <3>2
  <2>5. IsFiniteSet(taken)
    BY <2>1, <2>4, FS_Union DEF Taken
  <2>6. IsFiniteSet({0} \cup taken)
    <3>. HIDE DEF taken
    <3>1. IsFiniteSet({0})
      BY FS_Singleton
    <3>. QED BY <2>5, <3>1, FS_Union
  <2>7. taken \subseteq Nat
    BY <1>1 DEF Taken, Insertable
  <2>8. {0} \cup taken \subseteq Nat /\ {0} \cup taken # {}
    BY <2>7
  <2>. HIDE DEF taken
  <2>9. top \in {0} \cup taken
    BY <2>6, <2>8, GreatestOfFinite
  <2>. QED BY <2>8, <2>9
<1>. HIDE DEF taken
<1>3. stored = [i \in 1..n |-> Over(rows[i], [column \in Columns(s) |-> IF column = key THEN top + i ELSE Null])]
  BY <1>1 DEF Completed, taken
<1>. HIDE DEF top
<1>4. stored \in Seq(ToSet(stored)) /\ Len(stored) = n
  <2>1. DOMAIN stored = 1..n /\ stored = [i \in 1..n |-> stored[i]]
    BY <1>3
  <2>. QED BY <1>1, <2>1, FunctionIsSequence
<1>5. ASSUME NEW i \in 1..n
      PROVE  /\ stored[i] \in [Columns(s) -> Values] /\ stored[i][key] \in Nat \ {0}
             /\ \A c \in DOMAIN rows[i] : stored[i][c] = rows[i][c]
  <2>. DEFINE blank == [column \in Columns(s) |-> IF column = key THEN top + i ELSE Null]
              x == rows[i]
  <2>1. stored[i] = [c \in DOMAIN x \cup DOMAIN blank |-> IF c \in DOMAIN x THEN x[c] ELSE blank[c]]
    BY <1>3 DEF Over
  <2>2. /\ DOMAIN x \subseteq Columns(s) /\ \A c \in DOMAIN x : x[c] \in Values
        /\ key \in DOMAIN x => x[key] \in Nat \ {0}
    BY DEF Insertable
  <2>3. /\ DOMAIN blank = Columns(s) /\ \A c \in Columns(s) : blank[c] \in Values
        /\ key \in Columns(s) /\ blank[key] \in Nat \ {0}
    <3>1. top + i \in Nat \ {0}
      BY <1>1, <1>2
    <3>2. key \in Columns(s)
      BY DEF Columns
    <3>. QED BY <3>1, <3>2 DEF Values
  <2>. HIDE DEF blank, x, key
  <2>4. DOMAIN x \cup DOMAIN blank = Columns(s)
    BY <2>2, <2>3
  <2>5. stored[i] = [c \in Columns(s) |-> IF c \in DOMAIN x THEN x[c] ELSE blank[c]]
    BY <2>1, <2>4
  <2>. QED BY <2>2, <2>3, <2>5 DEF x
<1>. QED BY <1>4, <1>5 DEF Rows, CompletedAs

LEMMA TablesAreKept ==
    ASSUME NEW byName, Closed(byName), NEW tables, KeptAll(byName, tables), NEW m \in DOMAIN byName,
           NEW s, s = byName[m], NEW stored, stored \in Seq(ToSet(stored)), Rows(s, stored),
           NEW after, after = [tables EXCEPT ![m] = @ \cup ToSet(stored)],
           Accepted(s, stored, byName, tables, after)
    PROVE  KeptAll(byName, after)
<1>0. s.name = m /\ Len(stored) \in Nat /\ DOMAIN stored = 1..Len(stored)
  BY DEF Closed
<1>1. /\ DOMAIN after = DOMAIN tables /\ m \in DOMAIN tables
      /\ after[m] = tables[m] \cup ToSet(stored)
      /\ \A k \in DOMAIN tables : k # m => after[k] = tables[k]
  <2>1. m \in DOMAIN tables
    BY DEF KeptAll
  <2>. QED BY <2>1
<1>2. \A k \in DOMAIN byName : k \in DOMAIN tables /\ tables[k] \subseteq after[k]
  BY <1>1 DEF KeptAll
<1>3. ASSUME NEW k \in DOMAIN byName, NEW row \in tables[k], Resolves(byName[k], row, byName, tables)
      PROVE  Resolves(byName[k], row, byName, after)
  <2>1. \A r \in Relationships(byName[k]) : r.resource \in DOMAIN byName
    BY DEF Closed
  <2>. QED BY <1>2, <1>3, <2>1 DEF Resolves
<1>4. ASSUME NEW k \in DOMAIN byName PROVE Kept(byName[k], byName, after)
  <2>. DEFINE t == byName[k]
  <2>1. Kept(t, byName, tables) /\ t.name = k
    BY DEF KeptAll, Closed
  <2>2. /\ IsFiniteSet(tables[k])
        /\ \A row \in tables[k] : /\ row \in [Columns(t) -> (Nat \ {0}) \cup {Null}]
                                  /\ row[t.key.name] # Null
                                  /\ Resolves(t, row, byName, after)
        /\ \A column \in Unique(t, byName) : \A x, y \in tables[k] :
             x[column] = y[column] /\ x[column] # Null => x = y
    BY <1>3, <2>1 DEF Kept
  <2>3. CASE k # m
    <3>1. after[k] = tables[k]
      BY <1>1, <1>2, <2>3
    <3>. QED BY <2>1, <2>2, <3>1 DEF Kept
  <2>4. CASE k = m
    <3>. DEFINE new == ToSet(stored)
                old == tables[m]
    <3>1. after[m] = old \cup new
      BY <1>1
    <3>2. \A row \in new : \E i \in 1..Len(stored) : row = stored[i]
      BY <1>0 DEF ToSet
    <3>3. IsFiniteSet(old \cup new)
      <4>1. IsFiniteSet(new)
        BY ElementsAreFinite
      <4>. HIDE DEF new
      <4>. QED BY <2>2, <2>4, <4>1, FS_Union
    <3>4. \A row \in new : /\ row \in [Columns(s) -> (Nat \ {0}) \cup {Null}]
                           /\ row[s.key.name] # Null
                           /\ Resolves(s, row, byName, after)
      <4>1. \A i \in 1..Len(stored) :
              /\ stored[i] \in [Columns(s) -> (Nat \ {0}) \cup {Null}]
              /\ stored[i][s.key.name] # Null
              /\ Resolves(s, stored[i], byName, after)
        <5>1. Null \notin Nat
          BY NullAssumption
        <5>. QED BY <1>0, <5>1 DEF Rows, Values, Accepted
      <4>. HIDE DEF new
      <4>. QED BY <3>2, <4>1
    <3>5. ASSUME NEW c \in Unique(s, byName), NEW x \in old \cup new, NEW y \in old \cup new,
                 x[c] = y[c], x[c] # Null
          PROVE  x = y
      <4>. DEFINE z(i) == stored[i]
      <4>1. \A i \in 1..Len(stored) :
              z(i)[c] # Null =>
                /\ \A row \in old : row[c] # z(i)[c]
                /\ \A j \in 1..Len(stored) : j # i => z(j)[c] # z(i)[c]
        BY <1>0 DEF Accepted
      <4>2. \A u, v \in old : u[c] = v[c] /\ u[c] # Null => u = v
        BY <2>2, <2>4
      <4>. HIDE DEF old, new
      <4>3. CASE x \in old /\ y \in old
        BY <3>5, <4>2, <4>3
      <4>4. CASE x \in new
        <5>1. PICK i \in 1..Len(stored) : x = stored[i]
          BY <3>2, <4>4
        <5>2. y \notin old
          BY <3>5, <4>1, <5>1
        <5>3. PICK j \in 1..Len(stored) : y = stored[j]
          BY <3>2, <5>2
        <5>. QED BY <3>5, <4>1, <5>1, <5>3
      <4>5. CASE y \in new
        <5>1. PICK i \in 1..Len(stored) : y = stored[i]
          BY <3>2, <4>5
        <5>2. x \notin old
          BY <3>5, <4>1, <5>1
        <5>3. PICK j \in 1..Len(stored) : x = stored[j]
          BY <3>2, <5>2
        <5>. QED BY <3>5, <4>1, <5>1, <5>3
      <4>. QED BY <4>3, <4>4, <4>5
    <3>. HIDE DEF old, new
    <3>6. \A row \in old \cup new : /\ row \in [Columns(s) -> (Nat \ {0}) \cup {Null}]
                                    /\ row[s.key.name] # Null
                                    /\ Resolves(s, row, byName, after)
      BY <2>2, <2>4, <3>4 DEF old
    <3>. QED BY <1>0, <2>4, <3>1, <3>3, <3>5, <3>6 DEF Kept
  <2>. QED BY <2>3, <2>4
<1>. QED BY <1>1, <1>2, <1>4 DEF KeptAll

\* The row of a record to create: its columns, and a foreign key for its linkage.
AttachedAs(row, x, s) ==
  /\ DOMAIN row \subseteq Columns(s)
  /\ \A c \in DOMAIN row : row[c] \in Values
  /\ s.key.name \in DOMAIN row => row[s.key.name] \in Nat \ {0}
  /\ x.id # Null => s.key.name \in DOMAIN row /\ row[s.key.name] = x.id
  /\ \A a \in DOMAIN x.columns : a \in DOMAIN row /\ row[a] = x.columns[a]
  /\ \A r \in LinkedBy(s, x) :
       /\ r.own \in DOMAIN row
       /\ \E q \in LinkedBy(s, x) : q.own = r.own /\ row[r.own] = JoinValue(q, x.relationships[q.name])

LEMMA LinkedByIs ==
    ASSUME NEW byName, Closed(byName), NEW m \in DOMAIN byName, NEW s, s = byName[m], NEW x, Drafted(x, s),
           NEW r \in LinkedBy(s, x)
    PROVE  /\ r \in Relationships(s) /\ r.kind = "belongs_to" /\ r.name \in DOMAIN x.relationships
           /\ Relationship(s, r.name) = r /\ r.own \in ForeignKeys(s)
           /\ x.relationships[r.name] \in Seq(Nat \ {0}) /\ Len(x.relationships[r.name]) <= 1
<1>1. Declarable(s)
  BY DEF Closed
<1>2. r \in Relationships(s) /\ r.name \in DOMAIN x.relationships
  BY DEF LinkedBy
<1>3. PICK q \in Relationships(s) : q.name = r.name /\ q.kind = "belongs_to"
  BY <1>2 DEF Drafted
<1>4. q = r /\ Relationship(s, r.name) = r
  BY <1>1, <1>2, <1>3, RelationshipIs
<1>5. ValidRelationship(s, r, byName)
  BY <1>2 DEF Closed
<1>. QED BY <1>2, <1>3, <1>4, <1>5 DEF Drafted, ValidRelationship

\* A linkage of one id at most.
LEMMA OneAtMost ==
    ASSUME NEW S, NEW ids \in Seq(S), Len(ids) <= 1, ids # <<>>
    PROVE  ids = <<ids[1]>> /\ ToSet(ids) = {ids[1]} /\ ids[1] \in S
<1>1. Len(ids) = 1
  <2>1. Len(ids) \in Nat
    OBVIOUS
  <2>2. Len(ids) # 0
    BY EmptySeq
  <2>. QED BY <2>1, <2>2
<1>2. DOMAIN ids = 1..1 /\ ids[1] \in S
  BY <1>1
<1>3. 1..1 = {1}
  OBVIOUS
<1>4. ToSet(ids) = {ids[1]}
  BY <1>2, <1>3 DEF ToSet
<1>. QED BY <1>1, <1>2, <1>4

\* The value a linkage gives to a foreign key.
Gives(value, r, ids, byName, tables) ==
  \/ ids = <<>> /\ value = Null
  \/ ids # <<>> /\ r.related = byName[r.resource].key.name /\ value = ids[1]
  \/ /\ ids # <<>> /\ r.related # byName[r.resource].key.name
     /\ \E t \in tables[r.resource] : t[byName[r.resource].key.name] = ids[1] /\ value = t[r.related]

LEMMA JoinValueIs ==
    ASSUME Closed(reg), KeptAll(reg, db), NEW m \in DOMAIN reg, NEW s, s = reg[m], NEW x, Drafted(x, s),
           ~ AttachFails(s, x), NEW r \in LinkedBy(s, x)
    PROVE  /\ JoinValue(r, x.relationships[r.name]) \in Values
           /\ Gives(JoinValue(r, x.relationships[r.name]), r, x.relationships[r.name], reg, db)
<1>. DEFINE ids == x.relationships[r.name]
            k == r.resource
            key == reg[k].key.name
            t == CHOOSE row \in TargetRows(r, ids) : TRUE
<1>1. /\ r \in Relationships(s) /\ r.kind = "belongs_to" /\ r.name \in DOMAIN x.relationships
      /\ ids \in Seq(Nat \ {0}) /\ Len(ids) <= 1
  <2>. DEFINE byName == reg
  <2>1. Closed(byName) /\ m \in DOMAIN byName /\ s = byName[m]
    OBVIOUS
  <2>. HIDE DEF byName
  <2>. QED BY <2>1, LinkedByIs
<1>2. k \in DOMAIN reg /\ r.related \in Columns(reg[k])
  BY <1>1, OwnIsColumn
<1>. HIDE DEF ids, k, key
<1>3. CASE ids = <<>>
  <2>1. JoinValue(r, ids) = Null
    BY <1>3 DEF JoinValue
  <2>. QED BY <1>3, <2>1 DEF Gives, Values, ids
<1>4. CASE ids # <<>>
  <2>1. ToSet(ids) = {ids[1]} /\ ids[1] \in Nat \ {0}
    BY <1>1, <1>4, OneAtMost
  <2>2. CASE r.related = key
    <3>1. JoinValue(r, ids) = ids[1]
      BY <1>4, <2>2 DEF JoinValue, key, k
    <3>. QED BY <1>4, <2>1, <2>2, <3>1 DEF Gives, Values, ids, key, k
  <2>3. CASE r.related # key
    <3>1. TargetRows(r, ids) # {}
      BY <1>1, <1>4, <2>3 DEF AttachFails, ids, key, k
    <3>2. t \in db[k] /\ t[key] = ids[1]
      <4>1. t \in TargetRows(r, ids)
        BY <3>1
      <4>. HIDE DEF t
      <4>. QED BY <2>1, <4>1 DEF TargetRows, key, k
    <3>3. JoinValue(r, ids) = t[r.related]
      BY <1>4, <2>3 DEF JoinValue, key, k
    <3>. HIDE DEF t
    <3>4. t[r.related] \in Values
      BY <1>2, <3>2, RowsAre
    <3>. QED BY <1>4, <2>3, <3>2, <3>3, <3>4 DEF Gives, ids, key, k
  <2>. QED BY <2>2, <2>3
<1>. QED BY <1>3, <1>4

\* RowsOf makes such a row of a record.
RowOfDraft(s, x, setter) ==
  LET columns == Over(Attached(x, setter), x.columns)
  IN IF x.id = Null THEN columns ELSE Put(columns, s.key.name, x.id)

LEMMA DraftIsAttached ==
    ASSUME Closed(reg), KeptAll(reg, db), NEW m \in DOMAIN reg, NEW s, s = reg[m], NEW x, Drafted(x, s),
           ~ AttachFails(s, x), NEW setter \in Setters(s, x), NEW row, row = RowOfDraft(s, x, setter)
    PROVE  AttachedAs(row, x, s)
<1>. DEFINE given == LinkedBy(s, x)
            key == s.key.name
            links == Attached(x, setter)
            columns == Over(links, x.columns)
<1>1. /\ DOMAIN setter = {r.own : r \in given}
      /\ \A c \in DOMAIN setter : setter[c] \in given /\ setter[c].own = c
  BY DEF Setters
<1>2. /\ DOMAIN links = DOMAIN setter
      /\ \A c \in DOMAIN setter : links[c] = JoinValue(setter[c], x.relationships[setter[c].name])
  BY DEF Attached
<1>3. ASSUME NEW r \in given
      PROVE  r.own \in ForeignKeys(s) /\ JoinValue(r, x.relationships[r.name]) \in Values
  <2>1. JoinValue(r, x.relationships[r.name]) \in Values
    BY JoinValueIs
  <2>. DEFINE byName == reg
  <2>2. Closed(byName) /\ m \in DOMAIN byName /\ s = byName[m]
    OBVIOUS
  <2>. HIDE DEF byName
  <2>3. r.own \in ForeignKeys(s)
    BY <2>2, LinkedByIs
  <2>. QED BY <2>1, <2>3
<1>4. /\ key \notin Attributes(s) \cup ForeignKeys(s)
      /\ Attributes(s) \cap ForeignKeys(s) = {}
      /\ Columns(s) = {key} \cup Attributes(s) \cup ForeignKeys(s)
  BY DEF Closed, ValidSchema, Columns
<1>5. /\ DOMAIN x.columns \subseteq Attributes(s) /\ \A a \in DOMAIN x.columns : x.columns[a] \in Values
      /\ x.id \in (Nat \ {0}) \cup {Null}
  BY DEF Drafted, Values
<1>. HIDE DEF links, given
<1>6. DOMAIN links \subseteq ForeignKeys(s) /\ \A c \in DOMAIN links : links[c] \in Values
  BY <1>1, <1>2, <1>3
<1>7. /\ DOMAIN columns = DOMAIN links \cup DOMAIN x.columns
      /\ \A c \in DOMAIN links : columns[c] = links[c]
      /\ \A c \in DOMAIN x.columns : columns[c] = x.columns[c]
  BY <1>4, <1>5, <1>6 DEF Over
<1>8. IF x.id = Null THEN row = columns ELSE row = Put(columns, key, x.id)
  BY DEF RowOfDraft, links
<1>. HIDE DEF columns, key
<1>9. /\ DOMAIN columns \subseteq DOMAIN row
      /\ DOMAIN row \subseteq DOMAIN columns \cup {key}
      /\ key \in DOMAIN row => x.id # Null /\ row[key] = x.id
      /\ x.id # Null => key \in DOMAIN row
      /\ \A c \in DOMAIN columns : row[c] = columns[c]
  <2>1. key \notin DOMAIN columns
    BY <1>4, <1>5, <1>6, <1>7
  <2>. QED BY <1>8, <2>1 DEF Put
<1>10. \A r \in given :
         /\ r.own \in DOMAIN row
         /\ \E q \in given : q.own = r.own /\ row[r.own] = JoinValue(q, x.relationships[q.name])
  <2>. TAKE r \in given
  <2>1. r.own \in DOMAIN setter
    BY <1>1
  <2>2. row[r.own] = links[r.own] /\ r.own \in DOMAIN row
    BY <1>2, <1>7, <1>9, <2>1
  <2>. QED BY <1>1, <1>2, <2>1, <2>2
<1>11. \A a \in DOMAIN x.columns : a \in DOMAIN row /\ row[a] = x.columns[a]
  BY <1>7, <1>9
<1>12. DOMAIN row \subseteq Columns(s) /\ \A c \in DOMAIN row : row[c] \in Values
  <2>1. ASSUME NEW c \in DOMAIN row PROVE c \in Columns(s) /\ row[c] \in Values
    <3>1. CASE c = key
      BY <1>4, <1>5, <1>9, <3>1 DEF Values
    <3>2. CASE c # key
      BY <1>4, <1>5, <1>6, <1>7, <1>9, <3>2
    <3>. QED BY <3>1, <3>2
  <2>. QED BY <2>1
<1>13. /\ key \in DOMAIN row => row[key] \in Nat \ {0}
       /\ x.id # Null => key \in DOMAIN row /\ row[key] = x.id
  BY <1>5, <1>9
<1>. QED BY <1>10, <1>11, <1>12, <1>13 DEF AttachedAs, given, key

\* The linkage that was sent is the linkage of the row.
LEMMA GivenLeads ==
    ASSUME NEW byName, Closed(byName), NEW tables, NEW after, KeptAll(byName, after), NEW m \in DOMAIN byName,
           NEW r \in Relationships(byName[m]), r.kind = "belongs_to", tables[r.resource] \subseteq after[r.resource],
           NEW ids, ids \in Seq(Nat \ {0}), Len(ids) <= 1, NEW row \in after[m],
           Gives(row[r.own], r, ids, byName, tables),
           \A t \in after[r.resource] : t[byName[r.resource].key.name] \in ToSet(ids) => t[r.related] # Null
    PROVE  Exactly(ids, Leads(row, r, byName, after))
<1>. DEFINE k == r.resource
            key == byName[k].key.name
<1>0. k \in DOMAIN byName /\ r.related \in Unique(byName[k], byName)
  BY OwnIsColumn
<1>. HIDE DEF k, key
<1>1. CASE ids = <<>>
  <2>1. row[r.own] = Null
    BY <1>1 DEF Gives
  <2>2. Leads(row, r, byName, after) = {}
    BY <2>1 DEF Leads
  <2>. QED BY <1>1, <2>2, OneIsExact
<1>2. CASE ids # <<>>
  <2>1. ids = <<ids[1]>> /\ ToSet(ids) = {ids[1]} /\ ids[1] \in Nat
    BY <1>2, OneAtMost
  <2>2. CASE r.related = key
    <3>1. row[r.own] = ids[1] /\ ids[1] # Null
      BY <1>2, <2>1, <2>2, NullAssumption DEF Gives, key, k
    <3>2. Exactly(IF row[r.own] = Null THEN <<>> ELSE <<row[r.own]>>, Leads(row, r, byName, after))
      BY <2>2, KeyLeadsToItself DEF key, k
    <3>3. (IF row[r.own] = Null THEN <<>> ELSE <<row[r.own]>>) = ids
      BY <2>1, <3>1
    <3>. QED BY <3>2, <3>3
  <2>3. CASE r.related # key
    <3>1. PICK t \in tables[k] : t[key] = ids[1] /\ row[r.own] = t[r.related]
      BY <1>2, <2>3 DEF Gives, key, k
    <3>2. t \in after[k] /\ t[r.related] # Null
      BY <2>1, <3>1 DEF key, k
    <3>3. \A x, y \in after[k] : x[r.related] = y[r.related] /\ x[r.related] # Null => x = y
      BY <1>0, RowsAre
    <3>4. {u \in after[k] : u[r.related] = row[r.own]} = {t}
      BY <3>1, <3>2, <3>3
    <3>5. Leads(row, r, byName, after) = {t[key]}
      BY <3>1, <3>2, <3>4 DEF Leads, key, k
    <3>. QED BY <2>1, <3>1, <3>5, OneIsExact
  <2>. QED BY <2>2, <2>3
<1>. QED BY <1>1, <1>2

\* The row that became of a record to create.
StoredAs(row, x, s, byName, tables) ==
  /\ x.id # Null => row[s.key.name] = x.id
  /\ \A a \in DOMAIN x.columns : row[a] = x.columns[a]
  /\ \A r \in LinkedBy(s, x) :
       \E q \in LinkedBy(s, x) : q.own = r.own /\ Gives(row[r.own], q, x.relationships[q.name], byName, tables)

Wrote(stored, batch, s, fields, byName, tables, after) ==
  /\ ~ FieldsPanic(s, fields)
  /\ stored \in Seq(ToSet(stored)) /\ Len(stored) = Len(batch) /\ DOMAIN batch = 1..Len(batch)
  /\ after = [tables EXCEPT ![s.name] = @ \cup ToSet(stored)]
  /\ Rows(s, stored) /\ Accepted(s, stored, byName, tables, after)
  /\ \A i \in 1..Len(batch) : Drafted(batch[i], s) /\ StoredAs(stored[i], batch[i], s, byName, tables)

LEMMA BatchIsDrafted ==
    ASSUME Given, Consistent(schemas), request.kind = "create", NEW i \in DOMAIN request.batch
    PROVE  Drafted(request.batch[i], Schema)
<1>1. Schema \in ToSet(schemas)
  BY TargetsAre
<1>2. Schema.name = request.resource
  <2>1. PICK s \in ToSet(schemas) : s.name = request.resource
    BY DEF Given, Mounted
  <2>2. Registered(reg, schemas)
    BY RegistryIsClosed
  <2>. QED BY <2>1, <2>2 DEF Registered, Schema
<1>3. request.batch[i] \in ToSet(request.batch)
  BY DEF ToSet
<1>. QED BY <1>1, <1>2, <1>3 DEF Given

LEMMA CreateWrites ==
    ASSUME Given, Consistent(schemas), Closed(reg), KeptAll(reg, db), request.kind = "create", ~ FailsToAttach,
           NEW setters \in AllSetters(Schema, request.batch), Stores(setters),
           NEW stored, stored = Completed(Schema, db[Schema.name], RowsOf(Schema, request.batch, setters))
    PROVE  Wrote(stored, request.batch, Schema, parameters.fields, reg, db, db')
<1>. DEFINE batch == request.batch
            m == Schema.name
            table == db[m]
            fields == parameters.fields
            rows == RowsOf(Schema, batch, setters)
<1>1. m \in DOMAIN reg /\ reg[m] = Schema
  BY TargetsAre
<1>2. rows \in Seq(ToSet(rows)) /\ Len(rows) = Len(batch) /\ DOMAIN batch = 1..Len(batch)
  BY RowsAreSent
<1>3. ASSUME NEW i \in 1..Len(batch)
      PROVE  Drafted(batch[i], Schema) /\ AttachedAs(rows[i], batch[i], Schema)
  <2>1. Drafted(batch[i], Schema) /\ ~ AttachFails(Schema, batch[i])
    BY <1>2, BatchIsDrafted DEF FailsToAttach
  <2>2. setters[i] \in Setters(Schema, batch[i])
    BY <1>2 DEF AllSetters
  <2>3. rows[i] = RowOfDraft(Schema, batch[i], setters[i])
    BY <1>2 DEF RowsOf, RowOfDraft
  <2>. DEFINE x == batch[i]
              setter == setters[i]
  <2>. HIDE DEF rows, x, setter, m
  <2>4. AttachedAs(rows[i], x, Schema)
    BY <1>1, <2>1, <2>2, <2>3, DraftIsAttached DEF x, setter
  <2>. QED BY <2>1, <2>4 DEF x
<1>4. InsertFault(Schema, rows, fields, reg, db) = "none" /\ db' = [db EXCEPT ![Schema.name] = @ \cup ToSet(stored)]
  BY DEF Stores
<1>. HIDE DEF rows
<1>5. ~ FieldsPanic(Schema, fields) /\ Accepted(Schema, stored, reg, db, db')
  <2>. DEFINE after == db'
              xs == rows
  <2>0. stored = Completed(Schema, db[Schema.name], rows)
    BY DEF rows
  <2>. HIDE DEF after, fields, xs
  <2>1. InsertFault(Schema, xs, fields, reg, db) = "none" /\ after = [db EXCEPT ![Schema.name] = @ \cup ToSet(stored)]
    BY <1>4 DEF after, xs
  <2>2. ~ FieldsPanic(Schema, fields) /\ Accepted(Schema, stored, reg, db, after)
    <3>1. stored = Completed(Schema, db[Schema.name], xs)
      BY <2>0 DEF xs
    <3>. QED BY <2>1, <3>1, InsertAccepts
  <2>. QED BY <2>2 DEF after
<1>6. Insertable(Schema, rows)
  BY <1>2, <1>3 DEF Insertable, AttachedAs
<1>7. /\ stored \in Seq(ToSet(stored)) /\ Len(stored) = Len(rows) /\ Rows(Schema, stored)
      /\ \A i \in 1..Len(rows) : \A c \in DOMAIN rows[i] : stored[i][c] = rows[i][c]
  <2>1. IsFiniteSet(table) /\ \A row \in table : row[Schema.key.name] \in Nat \ {0}
    BY <1>1, RowsAre
  <2>2. stored = Completed(Schema, table, rows)
    BY DEF rows
  <2>. DEFINE s == Schema
              xs == rows
  <2>3. /\ IsFiniteSet(table) /\ \A row \in table : row[s.key.name] \in Nat \ {0}
        /\ stored = Completed(s, table, xs) /\ Insertable(s, xs)
    BY <1>6, <2>1, <2>2
  <2>. HIDE DEF table, s, xs
  <2>4. CompletedAs(s, xs, stored)
    BY <2>3, CompletedRows
  <2>. QED BY <2>4 DEF CompletedAs, xs, s
<1>8. ASSUME NEW i \in 1..Len(batch) PROVE StoredAs(stored[i], batch[i], Schema, reg, db)
  <2>. DEFINE x == batch[i]
              row == rows[i]
              new == stored[i]
  <2>1. Drafted(x, Schema) /\ AttachedAs(row, x, Schema) /\ ~ AttachFails(Schema, x)
        /\ \A c \in DOMAIN row : new[c] = row[c]
    BY <1>2, <1>3, <1>7 DEF FailsToAttach
  <2>. HIDE DEF x, row, new, m
  <2>2. ASSUME NEW r \in LinkedBy(Schema, x)
        PROVE  \E q \in LinkedBy(Schema, x) : q.own = r.own /\ Gives(new[r.own], q, x.relationships[q.name], reg, db)
    <3>1. /\ r.own \in DOMAIN row
          /\ \E q \in LinkedBy(Schema, x) : q.own = r.own /\ row[r.own] = JoinValue(q, x.relationships[q.name])
      BY <2>1 DEF AttachedAs
    <3>2. PICK q \in LinkedBy(Schema, x) : q.own = r.own /\ row[r.own] = JoinValue(q, x.relationships[q.name])
      BY <3>1
    <3>3. Gives(JoinValue(q, x.relationships[q.name]), q, x.relationships[q.name], reg, db)
      BY <1>1, <2>1, JoinValueIs
    <3>4. new[r.own] = JoinValue(q, x.relationships[q.name])
      BY <2>1, <3>1, <3>2
    <3>. QED BY <3>2, <3>3, <3>4
  <2>3. /\ x.id # Null => new[Schema.key.name] = x.id
        /\ \A a \in DOMAIN x.columns : new[a] = x.columns[a]
    BY <2>1 DEF AttachedAs
  <2>4. StoredAs(new, x, Schema, reg, db)
    BY <2>2, <2>3 DEF StoredAs
  <2>. QED BY <2>4 DEF new, x
<1>9. db' = [db EXCEPT ![Schema.name] = @ \cup ToSet(stored)]
  BY <1>4
<1>. QED BY <1>2, <1>3, <1>5, <1>7, <1>8, <1>9 DEF Wrote

\* Linkage that one relationship sets, to records that have the key.
Settled(x, s, spared, byName, after) ==
  \A r \in LinkedBy(s, x) : r.name \notin spared =>
    /\ \A q \in LinkedBy(s, x) : q.own = r.own => q = r
    /\ \A t \in after[r.resource] :
         t[byName[r.resource].key.name] \in ToSet(x.relationships[r.name]) => t[r.related] # Null

LEMMA SettledLeads ==
    ASSUME NEW byName, Closed(byName), NEW tables, NEW after, KeptAll(byName, after), NEW m \in DOMAIN byName,
           NEW s, s = byName[m], \A k \in DOMAIN byName : tables[k] \subseteq after[k],
           NEW x, Drafted(x, s), NEW row \in after[m], StoredAs(row, x, s, byName, tables),
           NEW spared, Settled(x, s, spared, byName, after), NEW name \in DOMAIN x.relationships \ spared
    PROVE  Exactly(x.relationships[name], Leads(row, Relationship(s, name), byName, after))
<1>1. PICK r \in Relationships(s) : r.name = name
  BY DEF Drafted
<1>2. r \in LinkedBy(s, x)
  BY <1>1 DEF LinkedBy
<1>3. /\ r.kind = "belongs_to" /\ Relationship(s, r.name) = r
      /\ x.relationships[r.name] \in Seq(Nat \ {0}) /\ Len(x.relationships[r.name]) <= 1
  BY <1>2, LinkedByIs
<1>4. PICK q \in LinkedBy(s, x) : q.own = r.own /\ Gives(row[r.own], q, x.relationships[q.name], byName, tables)
  BY <1>2 DEF StoredAs
<1>5. q = r /\ \A t \in after[r.resource] :
                 t[byName[r.resource].key.name] \in ToSet(x.relationships[r.name]) => t[r.related] # Null
  BY <1>1, <1>2, <1>4 DEF Settled
<1>6. tables[r.resource] \subseteq after[r.resource]
  BY OwnIsColumn
<1>. DEFINE ids == x.relationships[name]
<1>7. Gives(row[r.own], r, ids, byName, tables) /\ ids \in Seq(Nat \ {0}) /\ Len(ids) <= 1
  BY <1>1, <1>3, <1>4, <1>5
<1>8. \A t \in after[r.resource] : t[byName[r.resource].key.name] \in ToSet(ids) => t[r.related] # Null
  BY <1>1, <1>5
<1>. HIDE DEF ids
<1>9. Exactly(ids, Leads(row, r, byName, after))
  BY <1>3, <1>6, <1>7, <1>8, GivenLeads
<1>. QED BY <1>1, <1>3, <1>9 DEF ids

\* What was written, after it was written.
Grown(stored, m, byName, tables, after) ==
  /\ KeptAll(byName, after)
  /\ \A k \in DOMAIN byName : tables[k] \subseteq after[k]
  /\ \A i \in 1..Len(stored) : stored[i] \in after[m]

LEMMA WrittenIsKept ==
    ASSUME NEW byName, Closed(byName), NEW tables, KeptAll(byName, tables), NEW m \in DOMAIN byName,
           NEW s, s = byName[m], NEW batch, NEW fields, NEW stored, NEW after,
           Wrote(stored, batch, s, fields, byName, tables, after)
    PROVE  Grown(stored, m, byName, tables, after)
<1>1. s.name = m
  BY DEF Closed
<1>2. /\ after = [tables EXCEPT ![m] = @ \cup ToSet(stored)] /\ stored \in Seq(ToSet(stored))
      /\ Rows(s, stored) /\ Accepted(s, stored, byName, tables, after)
  BY <1>1 DEF Wrote
<1>3. KeptAll(byName, after)
  BY <1>2, TablesAreKept
<1>4. \A k \in DOMAIN byName : k \in DOMAIN tables
  BY DEF KeptAll
<1>5. \A i \in 1..Len(stored) : stored[i] \in ToSet(stored)
  BY <1>2 DEF ToSet
<1>. QED BY <1>2, <1>3, <1>4, <1>5 DEF Grown

LEMMA CreatedIsTrue ==
    ASSUME NEW byName, Closed(byName), NEW tables, KeptAll(byName, tables), NEW m \in DOMAIN byName,
           NEW s, s = byName[m], NEW batch, NEW fields, NEW stored, NEW after,
           Wrote(stored, batch, s, fields, byName, tables, after),
           NEW spared, \A i \in 1..Len(batch) : Settled(batch[i], s, spared, byName, after),
           NEW xs, xs = Refreshed(s, batch, Selected(stored, ColumnsFor(s, fields)))
    PROVE  /\ Records(xs, m) /\ Len(xs) = Len(batch) /\ Distinct(xs)
           /\ AllFaithfulBut(xs, spared, byName, after)
           /\ \A i \in 1..Len(batch) : xs[i].id = stored[i][s.key.name]
<1>0. s.name = m /\ stored \in Seq(ToSet(stored)) /\ Len(stored) = Len(batch) /\ ~ FieldsPanic(s, fields)
  BY DEF Closed, Wrote
<1>1. KeptAll(byName, after) /\ (\A k \in DOMAIN byName : tables[k] \subseteq after[k])
      /\ \A i \in 1..Len(stored) : stored[i] \in after[m]
  BY WrittenIsKept DEF Grown
<1>. DEFINE columns == ColumnsFor(s, fields)
            read(i) == FromRow(s, Restrict(stored[i], columns))
<1>2. /\ Records(xs, m) /\ Len(xs) = Len(stored)
      /\ \A i \in 1..Len(stored) : xs[i] = [read(i) EXCEPT !.relationships = batch[i].relationships]
  <2>1. xs = Refreshed(s, batch, Selected(stored, columns))
    OBVIOUS
  <2>. HIDE DEF columns
  <2>. QED BY <1>0, <2>1, RefreshedIs
<1>3. ASSUME NEW i \in 1..Len(batch)
      PROVE  xs[i].id = stored[i][s.key.name] /\ FaithfulBut(xs[i], spared, byName, after)
  <2>. DEFINE x == read(i)
              row == stored[i]
  <2>1. row \in after[m] /\ Drafted(batch[i], s) /\ StoredAs(row, batch[i], s, byName, tables)
    BY <1>0, <1>1 DEF Wrote
  <2>2. x.id = row[s.key.name] /\ x.kind = m /\ TrueTo(x, row, byName, after)
    <3>1. x = FromRow(byName[m], Restrict(row, ColumnsFor(byName[m], fields))) /\ ~ FieldsPanic(byName[m], fields)
      BY <1>0
    <3>. HIDE DEF x, row
    <3>2. x.id = row[byName[m].key.name] /\ x.kind = m /\ TrueTo(x, row, byName, after)
      BY <1>1, <2>1, <3>1, RecordReads
    <3>. QED BY <3>2
  <2>3. DOMAIN x = {"kind", "id", "columns", "relationships"} /\ xs[i] = [x EXCEPT !.relationships = batch[i].relationships]
    BY <1>0, <1>2 DEF FromRow
  <2>. HIDE DEF x, row
  <2>4. /\ xs[i].kind = x.kind /\ xs[i].id = x.id /\ xs[i].columns = x.columns
        /\ xs[i].relationships = batch[i].relationships
    BY <2>3
  <2>5. \A name \in DOMAIN batch[i].relationships \ spared :
          Exactly(batch[i].relationships[name], Leads(row, Relationship(s, name), byName, after))
    <3>. DEFINE y == batch[i]
    <3>0. Drafted(y, s) /\ StoredAs(row, y, s, byName, tables) /\ Settled(y, s, spared, byName, after)
      BY <2>1
    <3>. HIDE DEF y
    <3>1. \A name \in DOMAIN y.relationships \ spared :
            Exactly(y.relationships[name], Leads(row, Relationship(s, name), byName, after))
      BY <1>1, <2>1, <3>0, SettledLeads
    <3>. QED BY <3>1 DEF y
  <2>6. TrueBut(xs[i], spared, row, byName, after)
    BY <2>1, <2>2, <2>4, <2>5 DEF TrueTo, TrueBut
  <2>7. row \in after[m]
    BY <2>1
  <2>. QED BY <2>2, <2>4, <2>6, <2>7 DEF FaithfulBut, row
<1>4. Distinct(xs)
  <2>1. ASSUME NEW i \in 1..Len(stored), NEW j \in 1..Len(stored), stored[i][s.key.name] = stored[j][s.key.name]
        PROVE  i = j
    <3>1. stored[i][s.key.name] # Null
      BY NullAssumption DEF Wrote, Rows
    <3>2. s.key.name \in Unique(s, byName)
      BY DEF Unique
    <3>3. DOMAIN stored = 1..Len(stored)
      BY <1>0
    <3>. QED BY <2>1, <3>1, <3>2, <3>3 DEF Wrote, Accepted
  <2>. QED BY <1>0, <1>2, <1>3, <2>1 DEF Distinct
<1>. QED BY <1>0, <1>2, <1>3, <1>4 DEF AllFaithfulBut

\* A create is loaded from one frame, the records that were stored.
Creates(stored, m, after) ==
  /\ Grown(stored, m, reg, db, after)
  /\ phase' = "loading" /\ UNCHANGED <<parameters, parent, reply>>
  /\ \E f : /\ stack' = <<f>> /\ f.schema = m
            /\ f.records = Refreshed(Schema, request.batch, Selected(stored, ColumnsFor(Schema, parameters.fields)))
  /\ cache' = <<>>

LEMMA StoresIs ==
    ASSUME Given, Consistent(schemas), Closed(reg), KeptAll(reg, db), request.kind = "create", ~ FailsToAttach,
           NEW setters \in AllSetters(Schema, request.batch), Stores(setters),
           NEW stored, stored = Completed(Schema, db[Schema.name], RowsOf(Schema, request.batch, setters))
    PROVE  Creates(stored, Schema.name, db')
<1>1. Wrote(stored, request.batch, Schema, parameters.fields, reg, db, db')
  BY CreateWrites
<1>2. Grown(stored, Schema.name, reg, db, db')
  <2>. DEFINE m == Schema.name
              s == Schema
              fields == parameters.fields
              batch == request.batch
              after == db'
  <2>1. m \in DOMAIN reg /\ s = reg[m]
    BY TargetsAre
  <2>. HIDE DEF m, s, fields, batch, after
  <2>2. Wrote(stored, batch, s, fields, reg, db, after)
    BY <1>1 DEF batch, s, fields, after
  <2>3. Grown(stored, m, reg, db, after)
    BY <2>1, <2>2, WrittenIsKept
  <2>. QED BY <2>3 DEF m, after
<1>. DEFINE xs == Refreshed(Schema, request.batch, Selected(stored, ColumnsFor(Schema, parameters.fields)))
            first == Frame(Schema, xs, parameters.fields, parameters.include)
            f == IF xs = <<>> THEN [first EXCEPT !.pending = <<>>] ELSE first
<1>3. phase' = "loading" /\ UNCHANGED <<parameters, parent, reply>> /\ StartLoading(Schema, xs, parameters)
  BY DEF Stores
<1>4. stack' = <<f>> /\ cache' = <<>>
  BY <1>3 DEF StartLoading
<1>5. f.records = xs /\ f.schema = Schema.name
  <2>1. DOMAIN first = {"schema", "include", "records", "pending"} /\ first.records = xs /\ first.schema = Schema.name
    BY DEF Frame
  <2>. HIDE DEF first, xs
  <2>. QED BY <2>1
<1>. HIDE DEF f, xs
<1>6. \E g : stack' = <<g>> /\ g.schema = Schema.name /\ g.records = xs
  BY <1>4, <1>5
<1>. QED BY <1>2, <1>3, <1>4, <1>6 DEF Creates, xs

LEMMA CreatesTrue ==
    ASSUME UNCHANGED input, Given, Consistent(schemas), Closed(reg), KeptAll(reg, db), request.kind = "create",
           NEW stored, Wrote(stored, request.batch, Schema, parameters.fields, reg, db, db'),
           Creates(stored, Schema.name, db')
    PROVE  TrueLoading(stack', cache', Unattached', reg, db')
<1>. DEFINE m == Schema.name
            s == Schema
            batch == request.batch
            fields == parameters.fields
            spared == Unattached'
            after == db'
            xs == Refreshed(s, batch, Selected(stored, ColumnsFor(s, fields)))
<1>1. m \in DOMAIN reg /\ s = reg[m] /\ UNCHANGED <<request, reg, Schema>>
  BY TargetsAre, InputStays
<1>2. DOMAIN batch = 1..Len(batch)
  BY DEF Wrote
<1>3. ASSUME NEW i \in 1..Len(batch) PROVE Settled(batch[i], s, spared, reg, after)
  <2>. DEFINE x == batch[i]
  <2>1. CASE Attachable(Schema, x)'
    <3>1. ASSUME NEW r \in LinkedBy(s, x)
          PROVE  /\ \A q \in LinkedBy(s, x) : q.own = r.own => q = r
                 /\ \A t \in after[r.resource] :
                      t[reg[r.resource].key.name] \in ToSet(x.relationships[r.name]) => t[r.related] # Null
      <4>1. /\ \A q \in LinkedBy(s, x) : q.own = r.own => q = r
            /\ \A t \in TargetRows(r, x.relationships[r.name])' : t[r.related] # Null
        BY <1>1, <2>1 DEF Attachable
      <4>. HIDE DEF x
      <4>2. TargetRows(r, x.relationships[r.name])'
              = {t \in after[r.resource] : t[reg[r.resource].key.name] \in ToSet(x.relationships[r.name])}
        BY <1>1 DEF TargetRows, x
      <4>. QED BY <4>1, <4>2
    <3>. HIDE DEF x, s, after, spared
    <3>2. Settled(x, s, spared, reg, after)
      BY <3>1 DEF Settled
    <3>. QED BY <3>2 DEF x
  <2>2. CASE ~ Attachable(Schema, x)'
    <3>1. DOMAIN x.relationships \subseteq spared
      BY <1>1, <1>2, <2>2 DEF Unattached
    <3>2. \A r \in LinkedBy(s, x) : r.name \in spared
      BY <3>1 DEF LinkedBy
    <3>. HIDE DEF x, s, after, spared
    <3>3. Settled(x, s, spared, reg, after)
      BY <3>2 DEF Settled
    <3>. QED BY <3>3 DEF x
  <2>. QED BY <2>1, <2>2
<1>4. /\ stack' = <<stack'[1]>> /\ Len(stack') = 1 /\ stack'[1].records = xs /\ cache' = <<>>
  BY DEF Creates
<1>5. Wrote(stored, batch, s, fields, reg, db, after)
  OBVIOUS
<1>. HIDE DEF m, s, batch, fields, spared, after, xs
<1>6. Distinct(xs) /\ AllFaithfulBut(xs, spared, reg, after)
  <2>1. xs = Refreshed(s, batch, Selected(stored, ColumnsFor(s, fields)))
    BY DEF xs
  <2>. QED BY <1>1, <1>3, <1>5, <2>1, CreatedIsTrue
<1>7. TrueLoading(stack', cache', spared, reg, after)
  BY <1>4, <1>6 DEF TrueLoading, FrameTrue, CacheTrue
<1>. QED BY <1>7 DEF spared, after

LEMMA CreateTrue ==
    ASSUME TypeInv, FieldsInv, TruthInv, UNCHANGED input, phase = "querying", Consistent(schemas), CreateCollection
    PROVE  TruthInv'
<1>1. Given /\ Closed(reg) /\ KeptAll(reg, db) /\ request.kind = "create"
  BY RegistryIsClosed DEF TypeInv, TruthInv, CreateCollection
<1>2. CASE FailsToAttach /\ Refuse("RelatedRecordNotFound")
  BY <1>2, RefuseIsTrue
<1>3. CASE \E setters \in AllSetters(Schema, request.batch) : Rejects(setters)
  <2>1. PICK setters \in AllSetters(Schema, request.batch) : Rejects(setters)
    BY <1>3
  <2>. DEFINE fault == InsertFault(Schema, RowsOf(Schema, request.batch, setters), parameters.fields, reg, db)
  <2>2. fault # "none" /\ Refuse(Mapped(fault))
    BY <2>1 DEF Rejects
  <2>. HIDE DEF fault
  <2>3. Mapped(fault) # "none"
    BY <2>2 DEF Mapped
  <2>. QED BY <2>2, <2>3, RefuseIsTrue
<1>4. CASE ~ FailsToAttach /\ \E setters \in AllSetters(Schema, request.batch) : Stores(setters)
  <2>1. PICK setters \in AllSetters(Schema, request.batch) : Stores(setters)
    BY <1>4
  <2>. DEFINE stored == Completed(Schema, db[Schema.name], RowsOf(Schema, request.batch, setters))
  <2>2. Wrote(stored, request.batch, Schema, parameters.fields, reg, db, db') /\ Creates(stored, Schema.name, db')
    BY <1>1, <1>4, <2>1, CreateWrites, StoresIs
  <2>. HIDE DEF stored
  <2>3. TrueLoading(stack', cache', Unattached', reg, db')
    BY <1>1, <2>2, CreatesTrue
  <2>4. UNCHANGED <<schemas, request, reg>>
    BY InputStays
  <2>5. phase' = "loading" /\ KeptAll(reg, db')
    BY <2>2 DEF Creates, Grown
  <2>6. ~ Answered' /\ ~ WithRecords' /\ ~ Peeking'
    BY <1>1, <2>4, <2>5 DEF Answered, WithRecords, Peeking
  <2>7. LinkageIsTrue'
    BY <2>6 DEF LinkageIsTrue
  <2>. QED BY <1>1, <2>3, <2>4, <2>5, <2>6, <2>7 DEF TruthInv
<1>. QED BY <1>1, <1>2, <1>3, <1>4, CreateIs

LEMMA FetchTrue == ASSUME TypeInv, FieldsInv, TruthInv, Fetch PROVE TruthInv'
<1>1. /\ UNCHANGED input /\ phase = "querying" /\ Consistent(schemas) /\ Given /\ Complete(parameters)
      /\ request.kind # "linkage" => SortedBy(parameters.sort, Target)
  BY DEF Fetch, TypeInv, FieldsInv, ParsedIs, Reading
<1>2. Schema.name \in DOMAIN reg /\ reg[Schema.name] = Schema
  BY <1>1, TargetsAre
<1>3. CASE FetchCollection
  <2>1. PICK way \in Ways(Schema, parameters, db[Schema.name]) :
          LoadAnswer(Schema, Query(Schema, parameters, db[Schema.name], way), parameters, "loading")
    BY <1>3 DEF FetchCollection
  <2>. DEFINE answer == Query(Schema, parameters, db[Schema.name], way)
              next == "loading"
  <2>2. request.kind = "index" /\ Target = Schema
    BY <1>3 DEF FetchCollection, Target
  <2>3. CASE answer.error # "none"
    BY <1>1, <2>1, <2>3, RefuseIsTrue DEF LoadAnswer
  <2>4. CASE answer.error = "none"
    <3>1. phase' = "loading" /\ UNCHANGED db
      BY <2>1, <2>4 DEF LoadAnswer
    <3>2. LoadAnswer(Schema, answer, parameters, next) /\ answer = Query(Schema, parameters, db[Schema.name], way)
          /\ SortedBy(parameters.sort, Schema)
      BY <1>1, <2>1, <2>2
    <3>. DEFINE spared == Unattached
    <3>. HIDE DEF answer, next, spared
    <3>3. TrueLoading(stack', cache', spared, reg, db)
      BY <1>1, <1>2, <2>4, <3>2, QueryTrue
    <3>. QED BY <1>1, <2>2, <3>1, <3>3, StepIsTrue DEF spared, Peeking
  <2>. QED BY <2>3, <2>4
<1>4. CASE FetchRecord
  <2>. DEFINE answer == Find(Schema, request.id, parameters.fields, db[Schema.name])
              next == "loading"
  <2>1. LoadAnswer(Schema, answer, parameters, next) /\ request.kind = "show"
    BY <1>4 DEF FetchRecord
  <2>2. CASE answer.error # "none"
    BY <1>1, <2>1, <2>2, RefuseIsTrue DEF LoadAnswer
  <2>3. CASE answer.error = "none"
    <3>1. phase' = "loading" /\ UNCHANGED db
      BY <2>1, <2>3 DEF LoadAnswer
    <3>2. PICK row \in db[Schema.name] :
            row["id"] = request.id /\ ReadOf(answer, Schema, parameters.fields, <<row>>, db[Schema.name])
      <4>. DEFINE fields == parameters.fields
                  table == db[Schema.name]
                  id == request.id
      <4>1. answer = Find(Schema, id, fields, table)
        OBVIOUS
      <4>. HIDE DEF fields, table, id, answer
      <4>2. \E row \in table : row["id"] = id /\ ReadOf(answer, Schema, fields, <<row>>, table)
        BY <2>3, <4>1, FindReads
      <4>. QED BY <4>2 DEF fields, table, id
    <3>3. Closed(reg) /\ KeptAll(reg, db)
      BY <1>1, RegistryIsClosed DEF TruthInv
    <3>. DEFINE spared == Unattached
    <3>. HIDE DEF answer, next, spared
    <3>4. TrueLoading(stack', cache', spared, reg, db)
      BY <1>1, <1>2, <2>1, <2>3, <3>2, <3>3, AnswerBegins
    <3>. QED BY <1>1, <2>1, <3>1, <3>4, StepIsTrue DEF spared, Peeking
  <2>. QED BY <2>2, <2>3
<1>5. CASE FetchRelatedRecords
  BY <1>1, <1>5, FetchedIs, FetchRelatedTrue DEF FetchRelatedRecords
<1>6. CASE PeekRelated
  <2>. DEFINE p == Asking(Target, reg, Put(<<>>, Target.name, {}))
  <2>1. /\ Complete(p) /\ p.sort = <<>> /\ p.filter = <<>> /\ p.search = <<>> /\ p.page = <<>>
    BY DEF Asking, New, Blank, Complete, PageIs
  <2>2. request.kind = "linkage" /\ \E way : FetchedBy(p, way)
    BY <1>6, FetchedIs DEF PeekRelated
  <2>. HIDE DEF p
  <2>3. SortedBy(p.sort, Target)
    BY <2>1 DEF SortedBy
  <2>. QED BY <1>1, <2>1, <2>2, <2>3, FetchRelatedTrue
<1>7. CASE CreateCollection
  BY <1>1, <1>7, CreateTrue
<1>. QED BY <1>1, <1>3, <1>4, <1>5, <1>6, <1>7 DEF Fetch

LEMMA TruthNext == TypeInv /\ FieldsInv /\ TruthInv /\ [Next]_vars => TruthInv'
<1>. SUFFICES ASSUME TypeInv, FieldsInv, TruthInv, [Next]_vars PROVE TruthInv'
  OBVIOUS
<1>1. CASE TryBuild
  BY <1>1, TryBuildTrue
<1>2. CASE FetchParent
  BY <1>2, FetchParentTrue
<1>3. CASE ParseQuery
  BY <1>3, ParseQueryTrue
<1>4. CASE Fetch
  BY <1>4, FetchTrue
<1>5. CASE LoadRelationship
  BY <1>5, LoadRelationshipTrue
<1>6. CASE Return
  BY <1>6, ReturnTrue
<1>7. CASE FinishParent
  BY <1>7, FinishParentTrue
<1>8. CASE Finish
  BY <1>8, FinishTrue
<1>9. CASE UNCHANGED vars
  BY <1>9, IdleIsTrue
<1>. QED BY <1>1, <1>2, <1>3, <1>4, <1>5, <1>6, <1>7, <1>8, <1>9 DEF Next

\* Every attribute and every linkage in a document is what the database says,
\* for any declaration, any tables and any batch: LinkageIsTrue.
THEOREM ReadsAreTrue == Spec => []LinkageIsTrue
<1>1. Init => TypeInv /\ FieldsInv /\ TruthInv
  BY TypeInit, InitHonest, InitTrue
<1>2. TypeInv /\ FieldsInv /\ TruthInv /\ [Next]_vars => (TypeInv /\ FieldsInv /\ TruthInv)'
  BY TypeNext, FieldsNext, TruthNext
<1>3. TypeInv /\ FieldsInv /\ TruthInv => LinkageIsTrue
  BY DEF TruthInv
<1>. QED BY <1>1, <1>2, <1>3, PTL DEF Spec

-----------------------------------------------------------------------------
(* The order of ids: two copies of a record list the same ids the same way. *)

LEMMA RankedInOrder ==
    ASSUME NEW S, IsFiniteSet(S), NEW R, TotalOrder(R, S), NEW t, Ranked(t, R, S),
           NEW i \in 1..Cardinality(S), NEW j \in 1..Cardinality(S), i < j
    PROVE  t[i] \in S /\ t[j] \in S /\ <<t[i], t[j]>> \in R
<1>. DEFINE n == Cardinality(S)
            c(x) == Cardinality(Below(R, S, x))
<1>1. n \in Nat
  BY FS_CardinalityType
<1>2. t[i] \in S /\ t[j] \in S /\ c(t[i]) = i - 1 /\ c(t[j]) = j - 1
  BY EveryRankIsTaken DEF Ranked
<1>. DEFINE x == t[i]
            y == t[j]
<1>3. x \in S /\ y \in S /\ c(x) = i - 1 /\ c(y) = j - 1
  BY <1>2
<1>. HIDE DEF x, y, n
<1>4. i \in Nat /\ j \in Nat
  BY <1>1
<1>5. ASSUME <<x, y>> \notin R PROVE FALSE
  <2>1. x # y
    BY <1>3, <1>4
  <2>2. <<y, x>> \in R
    BY <1>3, <1>5, <2>1 DEF TotalOrder
  <2>3. Below(R, S, y) \subseteq Below(R, S, x)
    BY <1>3, <2>2 DEF Below, TotalOrder
  <2>4. IsFiniteSet(Below(R, S, x))
    <3>1. Below(R, S, x) \subseteq S
      BY DEF Below
    <3>. QED BY <3>1, FS_Subset
  <2>5. c(y) <= c(x)
    BY <2>3, <2>4, FS_Subset
  <2>. HIDE DEF c
  <2>. QED BY <1>3, <1>4, <2>5
<1>. QED BY <1>3, <1>5 DEF x, y

Rising(ids) ==
  /\ ids \in Seq(Nat)
  /\ \A i, j \in 1..Len(ids) : i < j => ids[i] < ids[j]

LEMMA FewRise ==
  /\ Rising(<<>>)
  /\ \A id \in Nat : Rising(<<id>>)
<1>1. Rising(<<>>)
  BY DEF Rising
<1>2. ASSUME NEW id \in Nat PROVE Rising(<<id>>)
  <2>1. <<id>> \in Seq(Nat) /\ Len(<<id>>) = 1
    OBVIOUS
  <2>. QED BY <2>1 DEF Rising
<1>. QED BY <1>1, <1>2

LEMMA RisingIsUnique ==
    ASSUME NEW a, Rising(a), NEW b, Rising(b), ToSet(a) = ToSet(b), Len(a) = Len(b)
    PROVE  a = b
<1>. DEFINE n == Len(a)
            S == {k \in 0..n : \A i \in 1..k : a[i] = b[i]}
<1>1. /\ n \in Nat /\ n = Len(b) /\ DOMAIN a = 1..n /\ DOMAIN b = 1..n
      /\ a \in Seq(Nat) /\ b \in Seq(Nat)
      /\ \A i \in 1..n : a[i] \in Nat /\ b[i] \in Nat
      /\ \A i, j \in 1..n : i < j => a[i] < a[j] /\ b[i] < b[j]
  BY DEF Rising
<1>2. /\ \A i \in 1..n : \E j \in 1..n : a[i] = b[j]
      /\ \A i \in 1..n : \E j \in 1..n : b[i] = a[j]
  BY <1>1 DEF ToSet
<1>. HIDE DEF n
<1>3. 0 \in S
  BY <1>1
<1>4. ASSUME NEW k \in 1..n, k - 1 \in S PROVE k \in S
  <2>1. \A i \in 1..(k - 1) : a[i] = b[i]
    BY <1>4
  <2>2. ~ (a[k] < b[k])
    <3>1. SUFFICES ASSUME a[k] < b[k] PROVE FALSE
      OBVIOUS
    <3>2. PICK j \in 1..n : a[k] = b[j]
      BY <1>2
    <3>3. CASE j < k
      <4>1. a[j] = b[j] /\ a[j] < a[k]
        BY <1>1, <2>1, <3>3
      <4>. QED BY <1>1, <3>2, <4>1
    <3>4. CASE j >= k
      <4>1. b[k] <= b[j]
        BY <1>1, <3>4
      <4>. QED BY <1>1, <3>1, <3>2, <4>1
    <3>. QED BY <1>1, <3>3, <3>4
  <2>3. ~ (b[k] < a[k])
    <3>1. SUFFICES ASSUME b[k] < a[k] PROVE FALSE
      OBVIOUS
    <3>2. PICK j \in 1..n : b[k] = a[j]
      BY <1>2
    <3>3. CASE j < k
      <4>1. a[j] = b[j] /\ b[j] < b[k]
        BY <1>1, <2>1, <3>3
      <4>. QED BY <1>1, <3>2, <4>1
    <3>4. CASE j >= k
      <4>1. a[k] <= a[j]
        BY <1>1, <3>4
      <4>. QED BY <1>1, <3>1, <3>2, <4>1
    <3>. QED BY <1>1, <3>3, <3>4
  <2>4. a[k] = b[k]
    BY <1>1, <2>2, <2>3
  <2>. QED BY <1>1, <2>1, <2>4
<1>5. \A i \in 1..n : a[i] = b[i]
  <2>. HIDE DEF S
  <2>1. 0..n \subseteq S
    BY <1>1, <1>3, <1>4, BoundedInduction
  <2>2. n \in 0..n
    BY <1>1
  <2>. QED BY <2>1, <2>2 DEF S
<1>. QED BY <1>1, <1>5

\* Without a sort, rows come in the order of their keys.
LEMMA UnsortedInOrder ==
    ASSUME NEW s, NEW rows, IsFiniteSet(rows), NEW sort, sort = <<>>, Sortable(s, sort, rows),
           NEW t, t = Ordered(s, sort, rows)
    PROVE  \A i, j \in 1..Len(t) : i < j => t[i][s.key.name] < t[j][s.key.name]
<1>. DEFINE R == {p \in rows \X rows : Precedes(s, sort, p[1], p[2])}
            n == Cardinality(rows)
            at(i) == CHOOSE row \in rows : Cardinality({x \in rows : Precedes(s, sort, x, row)}) = i - 1
<1>1. TotalOrder(R, rows)
  BY SortIsTotal
<1>2. t = [i \in 1..n |-> at(i)]
  BY DEF Ordered
<1>3. ASSUME NEW i \in 1..n, \E x \in rows : Cardinality(Below(R, rows, x)) = i - 1
      PROVE  at(i) \in rows /\ Cardinality(Below(R, rows, at(i))) = i - 1
  <2>1. \A row \in rows : Below(R, rows, row) = {x \in rows : Precedes(s, sort, x, row)}
    BY DEF Below
  <2>2. \E row \in rows : Cardinality({x \in rows : Precedes(s, sort, x, row)}) = i - 1
    BY <1>3, <2>1
  <2>3. at(i) \in rows /\ Cardinality({x \in rows : Precedes(s, sort, x, at(i))}) = i - 1
    BY <2>2
  <2>. QED BY <2>1, <2>3
<1>. HIDE DEF at
<1>4. n \in Nat
  BY FS_CardinalityType
<1>5. DOMAIN t = 1..n /\ t = [i \in 1..n |-> t[i]] /\ \A i \in 1..n : t[i] = at(i)
  BY <1>2
<1>. HIDE DEF R
<1>6. Ranked(t, R, rows)
  BY <1>3, <1>5 DEF Ranked
<1>7. Len(t) = n
  <2>1. Lists(t, rows)
    BY <1>1, <1>6, Enumerated
  <2>. HIDE DEF n
  <2>2. t \in Seq(rows)
    BY <2>1 DEF Lists
  <2>. QED BY <1>4, <1>5, <2>2
<1>8. ASSUME NEW i \in 1..n, NEW j \in 1..n, i < j PROVE t[i][s.key.name] < t[j][s.key.name]
  <2>1. t[i] \in rows /\ t[j] \in rows /\ <<t[i], t[j]>> \in R
    BY <1>1, <1>6, <1>8, RankedInOrder
  <2>2. Precedes(s, sort, t[i], t[j])
    BY <2>1 DEF R
  <2>. DEFINE x == t[i]
              y == t[j]
  <2>3. x \in rows /\ y \in rows /\ Precedes(s, sort, x, y)
    BY <2>1, <2>2
  <2>. HIDE DEF x, y
  <2>4. Lighter(s, sort, x, y)
    BY <2>3, PrecedesIs
  <2>5. x[s.key.name] < y[s.key.name]
    BY <2>4 DEF Lighter
  <2>. QED BY <2>5 DEF x, y
<1>. QED BY <1>7, <1>8

\* A group keeps the order of its items.
LEMMA GroupInOrder ==
    ASSUME NEW n \in Nat, NEW keys, DOMAIN keys = 1..n, NEW items, \A i \in 1..n : items[i] \in Nat,
           \A i, j \in 1..n : i < j => items[i] < items[j],
           NEW key \in ToSet(keys)
    PROVE  Rising(Grouped(keys, items)[key])
<1>. DEFINE mine == {i \in 1..n : keys[i] = key}
            at(k) == CHOOSE i \in mine : Cardinality({j \in mine : j < i}) = k - 1
            t == [k \in 1..Cardinality(mine) |-> at(k)]
            group == Grouped(keys, items)[key]
            R == {p \in mine \X mine : p[1] < p[2]}
<1>1. group = [k \in 1..Cardinality(mine) |-> items[at(k)]]
  BY DEF Grouped
<1>2. IsFiniteSet(mine) /\ Cardinality(mine) \in Nat
  <2>1. IsFiniteSet(1..n) /\ mine \subseteq 1..n
    BY FS_Interval
  <2>. HIDE DEF mine
  <2>. QED BY <2>1, FS_Subset, FS_CardinalityType
<1>3. \A i \in mine : i \in 1..n
  OBVIOUS
<1>4. TotalOrder(R, mine)
  BY <1>3 DEF TotalOrder
<1>5. ASSUME NEW i \in mine PROVE Below(R, mine, i) = {j \in mine : j < i}
  BY DEF Below
<1>. HIDE DEF mine
<1>6. ASSUME NEW k \in 1..Cardinality(mine), \E i \in mine : Cardinality(Below(R, mine, i)) = k - 1
      PROVE  at(k) \in mine /\ Cardinality(Below(R, mine, at(k))) = k - 1
  <2>1. \E i \in mine : Cardinality({j \in mine : j < i}) = k - 1
    BY <1>5, <1>6
  <2>2. at(k) \in mine /\ Cardinality({j \in mine : j < at(k)}) = k - 1
    BY <2>1
  <2>. QED BY <1>5, <2>2
<1>. HIDE DEF at
<1>7. DOMAIN t = 1..Cardinality(mine) /\ t = [k \in 1..Cardinality(mine) |-> t[k]]
      /\ \A k \in 1..Cardinality(mine) : t[k] = at(k)
  OBVIOUS
<1>. HIDE DEF t, R
<1>8. Ranked(t, R, mine)
  BY <1>6, <1>7 DEF Ranked
<1>9. \A k \in 1..Cardinality(mine) : t[k] \in mine
  BY <1>2, <1>4, <1>8, EveryRankIsTaken DEF Ranked
<1>10. \A k, l \in 1..Cardinality(mine) : k < l => t[k] < t[l]
  <2>1. SUFFICES ASSUME NEW k \in 1..Cardinality(mine), NEW l \in 1..Cardinality(mine), k < l PROVE t[k] < t[l]
    OBVIOUS
  <2>2. <<t[k], t[l]>> \in R
    BY <1>2, <1>4, <1>8, <2>1, RankedInOrder
  <2>. QED BY <2>2 DEF R
<1>. DEFINE c == Cardinality(mine)
<1>11. c \in Nat /\ group \in [1..c -> Nat] /\ \A k \in 1..c : group[k] = items[t[k]] /\ t[k] \in 1..n
  <2>1. \A k \in 1..c : group[k] = items[t[k]] /\ t[k] \in 1..n
    BY <1>1, <1>3, <1>7, <1>9
  <2>. QED BY <1>1, <1>2, <2>1
<1>. HIDE DEF c, group
<1>12. group \in Seq(Nat) /\ Len(group) = c
  BY <1>11, ListIs
<1>. QED BY <1>10, <1>11, <1>12 DEF Rising, group, c

-----------------------------------------------------------------------------

\* Records as they come from their rows, in the order of their ids.
Fresh(xs) == \A i \in 1..Len(xs) : xs[i].relationships = <<>>
InKeyOrder(rows, name) == \A i, j \in 1..Len(rows) : i < j => rows[i][name] < rows[j][name]

LEMMA UnsortedReads ==
    ASSUME NEW byName, Closed(byName), NEW tables, KeptAll(byName, tables), NEW m \in DOMAIN byName,
           NEW p, p.page = <<>>, p.sort = <<>>, NEW way,
           NEW answer, answer = Query(byName[m], p, tables[m], way), answer.error = "none"
    PROVE  \E rows : ReadOf(answer, byName[m], p.fields, rows, tables[m]) /\ InKeyOrder(rows, byName[m].key.name)
<1>. DEFINE s == byName[m]
            table == tables[m]
            found == Where(s, p, table)
            sorted == Ordered(s, p.sort, found)
            rows == Page(p.page, sorted)
            fault == QueryFault(s, p, way)
<1>1. answer = IF fault # "none" THEN Refusal(fault) ELSE Answer(Selected(rows, ColumnsFor(s, p.fields)))
  BY Zenon DEF Query
<1>2. fault = "none" /\ answer.rows = Selected(rows, ColumnsFor(s, p.fields))
  <2>. HIDE DEF fault, rows, s
  <2>. QED BY <1>1 DEF Refusal, Answer
<1>3. ~ FieldsPanic(s, p.fields)
  BY <1>2 DEF QueryFault
<1>4. found \in SUBSET table
  BY DEF Where
<1>. HIDE DEF found, fault
<1>5. Sortable(s, p.sort, found) /\ IsFiniteSet(found)
  <2>1. SortedBy(p.sort, s)
    BY DEF SortedBy
  <2>. QED BY <1>4, <2>1, TableSorts
<1>6. Lists(sorted, found)
  <2>. HIDE DEF s
  <2>. QED BY <1>5, OrderedLists
<1>7. InKeyOrder(sorted, s.key.name)
  <2>. DEFINE sort == p.sort
  <2>1. sort = <<>> /\ Sortable(s, sort, found) /\ IsFiniteSet(found) /\ sorted = Ordered(s, sort, found)
    BY <1>5
  <2>. HIDE DEF s, sorted, sort
  <2>2. \A i, j \in 1..Len(sorted) : i < j => sorted[i][s.key.name] < sorted[j][s.key.name]
    BY <2>1, UnsortedInOrder
  <2>. QED BY <2>2 DEF InKeyOrder
<1>8. rows = sorted
  BY DEF Page
<1>. HIDE DEF rows, sorted
<1>9. Lists(rows, table)
  <2>1. rows \in Seq(table)
    BY <1>4, <1>6, <1>8 DEF Lists
  <2>. QED BY <1>6, <1>8, <2>1 DEF Lists
<1>10. ReadOf(answer, s, p.fields, rows, table)
  BY <1>2, <1>3, <1>9 DEF ReadOf
<1>. QED BY <1>7, <1>8, <1>10

LEMMA KeysRise ==
    ASSUME NEW byName, Closed(byName), NEW tables, KeptAll(byName, tables), NEW m \in DOMAIN byName,
           NEW fields, NEW rows, Lists(rows, tables[m]), ~ FieldsPanic(byName[m], fields),
           InKeyOrder(rows, byName[m].key.name), NEW xs, xs = Reads(byName[m], rows, fields)
    PROVE  Rising(IdsOf(xs)) /\ Fresh(xs)
<1>. DEFINE name == byName[m].key.name
            n == Len(rows)
<1>1. /\ Records(xs, m) /\ Len(xs) = n
      /\ \A i \in 1..n : rows[i] \in tables[m] /\ xs[i].id = rows[i][name]
  BY RowsRead
<1>2. n \in Nat /\ DOMAIN xs = 1..n /\ rows \in Seq(tables[m])
  BY <1>1 DEF Lists, Records
<1>3. \A row \in tables[m] : row[name] \in Nat
  BY RowsAre
<1>4. IdsOf(xs) = [i \in 1..n |-> xs[i].id]
  BY <1>2 DEF IdsOf
<1>5. IdsOf(xs) \in Seq(Nat) /\ Len(IdsOf(xs)) = n /\ \A i \in 1..n : IdsOf(xs)[i] = rows[i][name]
  <2>1. IdsOf(xs) \in [1..n -> Nat]
    BY <1>1, <1>3, <1>4
  <2>. HIDE DEF n
  <2>2. IdsOf(xs) \in Seq(Nat) /\ Len(IdsOf(xs)) = n
    BY <1>2, <2>1, ListIs
  <2>. QED BY <1>1, <1>4, <2>2
<1>6. Rising(IdsOf(xs))
  <2>. HIDE DEF n
  <2>. QED BY <1>5 DEF Rising, InKeyOrder, n
<1>7. Fresh(xs)
  <2>1. rows \in Seq(ToSet(rows))
    BY <1>2 DEF ToSet
  <2>2. \A i \in 1..n : xs[i] = FromRow(byName[m], Restrict(rows[i], ColumnsFor(byName[m], fields)))
    BY <2>1, ReadsAre
  <2>3. ASSUME NEW i \in 1..n PROVE xs[i].relationships = <<>>
    <3>. DEFINE row == Restrict(rows[i], ColumnsFor(byName[m], fields))
    <3>1. xs[i] = FromRow(byName[m], row)
      BY <2>2
    <3>. HIDE DEF row
    <3>. QED BY <3>1 DEF FromRow
  <2>. QED BY <1>1, <2>3 DEF Fresh
<1>. QED BY <1>6, <1>7

LEMMA CollectionInOrder ==
    ASSUME NEW byName, Closed(byName), NEW tables, KeptAll(byName, tables), NEW m \in DOMAIN byName,
           NEW column, NEW keys, NEW fields,
           NEW answer, answer = LoadCollectionBy(byName[m], column, keys, fields, tables[m]),
           answer.error = "none"
    PROVE  Rising(IdsOf(answer.rows)) /\ Fresh(answer.rows)
<1>. DEFINE s == byName[m]
            table == tables[m]
            in == [op |-> "in", operand |-> keys]
            p == [Blank(s) EXCEPT !.fields = fields, !.filter = Put(@, column, {in})]
            way == Usual
            read == Query(s, p, table, way)
            xs == answer.rows
<1>1. answer = IF keys = {} THEN Answer(<<>>) ELSE [read EXCEPT !.rows = FromRows(s, @)]
  BY Zenon DEF LoadCollectionBy
<1>2. CASE keys = {}
  <2>1. xs = <<>>
    BY <1>1, <1>2 DEF Answer
  <2>2. IdsOf(<<>>) = <<>>
    BY DEF IdsOf
  <2>. QED BY <2>1, <2>2, FewRise DEF Fresh
<1>3. CASE keys # {}
  <2>1. p.page = <<>> /\ p.sort = <<>> /\ p.fields = fields
    BY DEF Blank
  <2>2. DOMAIN read = {"error", "rows"}
    BY DEF Query, Refusal, Answer
  <2>. HIDE DEF p, read
  <2>3. read.error = "none" /\ xs = FromRows(s, read.rows)
    BY <1>1, <1>3, <2>2
  <2>4. PICK rows : ReadOf(read, s, p.fields, rows, table) /\ InKeyOrder(rows, s.key.name)
    <3>1. read = Query(byName[m], p, tables[m], way)
      BY DEF read
    <3>. HIDE DEF way
    <3>. QED BY <2>1, <2>3, <3>1, UnsortedReads
  <2>5. ~ FieldsPanic(s, fields) /\ Lists(rows, table) /\ xs = Reads(s, rows, fields)
    BY <2>1, <2>3, <2>4 DEF ReadOf, Reads
  <2>. HIDE DEF xs
  <2>. QED BY <2>4, <2>5, KeysRise DEF xs
<1>. QED BY <1>2, <1>3

\* The linkage of a record is in order.
InOrder(x) == \A name \in DOMAIN x.relationships : Rising(x.relationships[name])
AllInOrder(xs) == \A i \in 1..Len(xs) : InOrder(xs[i])

LEMMA LinkedInOrder ==
    ASSUME NEW m, NEW records, Records(records, m), AllInOrder(records), NEW r,
           NEW ids, \A i \in DOMAIN ids : Rising(ids[i]), NEW ys, ys = Linked(records, r, ids)
    PROVE  AllInOrder(ys)
<1>1. /\ Len(ys) = Len(records)
      /\ \A i \in 1..Len(records) :
           ys[i].relationships = IF i \in DOMAIN ids THEN Put(records[i].relationships, r.name, ids[i])
                                 ELSE records[i].relationships
  BY LinkedIs
<1>2. ASSUME NEW i \in 1..Len(ys) PROVE InOrder(ys[i])
  <2>1. InOrder(records[i])
    BY <1>1 DEF AllInOrder
  <2>. DEFINE old == records[i].relationships
              new == ys[i].relationships
  <2>2. CASE i \in DOMAIN ids
    <3>1. new = Put(old, r.name, ids[i])
      BY <1>1, <2>2
    <3>2. \A name \in DOMAIN new : Rising(new[name])
      <4>. HIDE DEF new
      <4>1. /\ DOMAIN new = DOMAIN old \cup {r.name}
            /\ \A name \in DOMAIN new : new[name] = IF name = r.name THEN ids[i] ELSE old[name]
        BY <3>1 DEF Put
      <4>2. Rising(ids[i])
        BY <2>2
      <4>3. \A name \in DOMAIN old : Rising(old[name])
        BY <2>1 DEF InOrder
      <4>. QED BY <4>1, <4>2, <4>3
    <3>. QED BY <3>2 DEF InOrder
  <2>3. CASE i \notin DOMAIN ids
    <3>1. new = old
      BY <1>1, <2>3
    <3>. QED BY <2>1, <3>1 DEF InOrder
  <2>. QED BY <2>2, <2>3
<1>. QED BY <1>2 DEF AllInOrder

-----------------------------------------------------------------------------
(* Loading a relationship does not fail. *)

LEMMA CollectionServed ==
    ASSUME NEW s, NEW column \in Columns(s), NEW keys, NEW fields, NEW table,
           NEW answer, answer = LoadCollectionBy(s, column, keys, fields, table)
    PROVE  \/ answer.error = "none"
           \/ answer.error = "Panic" /\ FieldsPanic(s, fields)
           \/ answer.error = "SqlFailure" /\ Cardinality(keys) > Variables
<1>. DEFINE in == [op |-> "in", operand |-> keys]
            p == [Blank(s) EXCEPT !.fields = fields, !.filter = Put(@, column, {in})]
            way == Usual
            read == Query(s, p, table, way)
            fault == QueryFault(s, p, way)
            many == Cardinality(keys) > Variables
<1>1. answer = IF keys = {} THEN Answer(<<>>) ELSE [read EXCEPT !.rows = FromRows(s, @)]
  BY Zenon DEF LoadCollectionBy
<1>2. /\ p.page = <<>> /\ p.search = <<>> /\ p.fields = fields
      /\ DOMAIN p.filter = {column} /\ p.filter[column] = {in}
  BY DEF Blank, Put
<1>. HIDE DEF p, way
<1>3. /\ JoinFault(s, p) = "none" /\ WhereFault(s, p) = "none" /\ ~ Overflows(p)
      /\ SqlRefuses(s, p, way) => many
  <2>1. JoinFault(s, p) = "none" /\ ~ Overflows(p)
    BY <1>2 DEF JoinFault, Overflows
  <2>2. \A c \in p.filter[column] : c.op # "like" /\ c.operand = keys
    BY <1>2
  <2>3. WhereFault(s, p) = "none"
    BY <1>2, <2>2 DEF WhereFault
  <2>4. SqlRefuses(s, p, way) => many
    BY <1>2, <2>2 DEF SqlRefuses
  <2>. QED BY <2>1, <2>3, <2>4
<1>4. fault = IF FieldsPanic(s, fields) THEN "Panic"
              ELSE IF SqlRefuses(s, p, way) THEN "SqlFailure" ELSE "none"
  BY <1>2, <1>3 DEF QueryFault
<1>5. read.error = fault /\ "error" \in DOMAIN read
  <2>. HIDE DEF fault
  <2>. QED BY DEF Query, Refusal, Answer, fault
<1>. HIDE DEF read, fault, many
<1>6. answer.error = IF keys = {} THEN "none" ELSE fault
  BY <1>1, <1>5 DEF Answer
<1>. QED BY <1>3, <1>4, <1>6 DEF many

LEMMA KeyIsThere ==
    ASSUME NEW byName, Closed(byName), NEW tables, KeptAll(byName, tables), NEW m \in DOMAIN byName,
           NEW r \in Relationships(byName[m]), NEW t, t = r.resource,
           r.kind = "belongs_to" => r.related # byName[t].key.name,
           NEW fields, t \in DOMAIN fields => r.related \in fields[t],
           NEW keys, Null \notin keys,
           NEW answer, answer = LoadCollectionBy(byName[t], r.related, keys, fields, tables[t]),
           answer.error = "none"
    PROVE  ~ KeyMissing(r, byName[t], answer.rows)
<1>. DEFINE target == byName[t]
            column == r.related
            xs == answer.rows
            held == IF r.kind = "belongs_to" THEN Attributes(target) ELSE ForeignKeys(target)
<1>1. /\ t \in DOMAIN byName /\ target.name = t /\ column \in Columns(target)
      /\ r.kind \in {"belongs_to", "has_one", "has_many"}
  BY OwnIsColumn DEF Closed
<1>2. column \in held /\ column # target.key.name
  <2>1. ValidRelationship(byName[m], r, byName) /\ ValidSchema(target)
    BY <1>1 DEF Closed
  <2>. QED BY <1>1, <2>1 DEF ValidRelationship, ValidSchema, Referenced
<1>3. PICK rows : /\ Lists(rows, tables[t]) /\ xs = Reads(target, rows, fields)
                  /\ rows # <<>> => ~ FieldsPanic(target, fields)
  <2>. DEFINE other == t
  <2>1. other \in DOMAIN byName /\ answer = LoadCollectionBy(byName[other], column, keys, fields, tables[other])
    BY <1>1
  <2>. HIDE DEF other, column
  <2>2. Collected(answer.rows, column, keys, byName[other], fields, tables[other])
    BY <2>1, CollectionReads
  <2>. QED BY <2>2 DEF Collected, other
<1>4. CASE rows = <<>>
  <2>1. xs = <<>>
    <3>1. Reads(target, <<>>, fields) = <<>>
      BY DEF Reads, Selected, FromRows
    <3>. HIDE DEF xs, target
    <3>. QED BY <1>3, <1>4, <3>1
  <2>. QED BY <2>1 DEF KeyMissing
<1>5. CASE rows # <<>>
  <2>1. ~ FieldsPanic(target, fields)
    BY <1>3, <1>5
  <2>2. column \in ColumnsFor(target, fields)
    <3>1. column \in fields[target.name]
      BY <1>1, <2>1 DEF FieldsPanic
    <3>. QED BY <1>1, <3>1 DEF ColumnsFor
  <2>3. rows \in Seq(ToSet(rows)) /\ Len(xs) = Len(rows) /\ DOMAIN xs = 1..Len(rows)
    <3>1. rows \in Seq(ToSet(rows))
      BY <1>3 DEF Lists, ToSet
    <3>. QED BY <1>3, <3>1, ReadsAre DEF Records
  <2>4. ASSUME NEW i \in 1..Len(rows) PROVE column \in DOMAIN xs[i].columns \cap held
    <3>. DEFINE other == t
                row == rows[i]
                x == xs[i]
    <3>1. row \in tables[other] /\ x = FromRow(byName[other], Restrict(row, ColumnsFor(byName[other], fields)))
      <4>1. x = FromRow(byName[other], Restrict(row, ColumnsFor(byName[other], fields)))
        BY <1>3, <2>3, ReadsAre
      <4>2. row \in tables[other]
        BY <1>3 DEF Lists
      <4>. QED BY <4>1, <4>2
    <3>2. other \in DOMAIN byName /\ ~ FieldsPanic(byName[other], fields)
      BY <1>1, <2>1
    <3>. HIDE DEF other, row, x
    <3>3. DOMAIN x.columns = ColumnsFor(byName[other], fields) \ {byName[other].key.name}
      BY <3>1, <3>2, RecordReads
    <3>. QED BY <1>2, <2>2, <3>3 DEF x, other
  <2>. QED BY <2>3, <2>4 DEF KeyMissing
<1>. QED BY <1>4, <1>5

LEMMA KeysDoNotRepeat ==
    ASSUME NEW byName, Closed(byName), NEW tables, KeptAll(byName, tables), NEW m \in DOMAIN byName,
           NEW r \in Relationships(byName[m]), r.kind # "has_many", NEW t, t = r.resource,
           NEW found, NEW rows, NEW keys, Null \notin keys, NEW column, column = r.related,
           Found(found, rows, column, keys, t, byName, tables),
           ~ KeyMissing(r, byName[t], found)
    PROVE  ~ Repeats(KeysOf(r, found))
<1>. DEFINE ks == KeysOf(r, found)
            n == Len(rows)
<1>1. Aligned(ks, IdsOf(found), rows, column, byName[t].key.name, keys)
  BY KeysAreColumns
<1>2. column \in Unique(byName[t], byName) /\ t \in DOMAIN byName
  BY OwnIsColumn
<1>3. \A x, y \in tables[t] : x[column] = y[column] /\ x[column] # Null => x = y
  BY <1>2, RowsAre
<1>4. /\ \A i \in 1..n : rows[i] \in tables[t]
      /\ \A i, j \in 1..n : rows[i] = rows[j] => i = j
  BY DEF Found, Lists
<1>. HIDE DEF ks
<1>5. DOMAIN ks = 1..n /\ n \in Nat /\ \A i \in 1..n : ks[i] = rows[i][column] /\ ks[i] # Null
  BY <1>1 DEF Aligned, ToSet
<1>6. ASSUME NEW i \in 1..n, NEW j \in 1..n, ks[i] = ks[j] PROVE i = j
  <2>1. rows[i] = rows[j]
    BY <1>3, <1>4, <1>5, <1>6
  <2>. QED BY <1>4, <2>1
<1>. QED BY <1>5, <1>6 DEF Repeats, ks

\* Every foreign key leads to a row.
LEMMA KeysAreIndexed ==
    ASSUME NEW byName, Closed(byName), NEW tables, KeptAll(byName, tables), NEW m \in DOMAIN byName,
           NEW r \in Relationships(byName[m]), r.kind = "belongs_to", NEW t, t = r.resource,
           NEW records, Records(records, m), AllFaithful(records, byName, tables),
           NEW keys, keys = OwnKeys(byName[m], records, r.own),
           NEW found, NEW rows, NEW column, column = r.related,
           Found(found, rows, column, keys, t, byName, tables),
           ~ KeyMissing(r, byName[t], found)
    PROVE  keys \subseteq DOMAIN Indexed(KeysOf(r, found), IdsOf(found))
<1>. DEFINE ks == KeysOf(r, found)
            n == Len(rows)
<1>1. Aligned(ks, IdsOf(found), rows, column, byName[t].key.name, keys)
  BY KeysAreColumns
<1>0. PICK at : RowsBehind(at, records, m, byName, tables)
  BY EveryRecordHasRow
<1>1a. KeysRead(byName[m], records, at, r)
  BY <1>0, OwnKeysAre
<1>. HIDE DEF ks
<1>2. DOMAIN Indexed(ks, IdsOf(found)) = ToSet(ks)
  BY DEF Indexed
<1>3. ASSUME NEW key \in keys PROVE key \in ToSet(ks)
  <2>1. PICK i \in Holders(byName[m], records, r) : key = at[i][r.own] /\ key # Null /\ i \in 1..Len(records)
    BY <1>1a, <1>3 DEF KeysRead
  <2>2. at[i] \in tables[m]
    BY <1>0, <2>1 DEF RowsBehind
  <2>3. Resolves(byName[m], at[i], byName, tables)
    BY <2>2, RowsAre
  <2>4. PICK u \in tables[t] : u[column] = key
    BY <2>1, <2>3 DEF Resolves
  <2>5. u \in ToSet(rows)
    BY <1>3, <2>4 DEF Found
  <2>6. DOMAIN rows = 1..n /\ DOMAIN ks = 1..n /\ \A j \in 1..n : ks[j] = rows[j][column]
    BY <1>1 DEF Aligned
  <2>7. PICK j \in 1..n : rows[j] = u
    BY <2>5, <2>6 DEF ToSet
  <2>. QED BY <2>4, <2>6, <2>7 DEF ToSet
<1>. QED BY <1>2, <1>3 DEF ks

-----------------------------------------------------------------------------

\* No two records that were read are of one row, so there are no more keys than rows.
LEMMA KeysAreFew ==
    ASSUME NEW byName, Closed(byName), NEW tables, KeptAll(byName, tables), NEW m \in DOMAIN byName,
           NEW records, Records(records, m), AllFaithful(records, byName, tables), NEW r,
           NEW keys, keys = OwnKeys(byName[m], records, r.own), Cardinality(keys) > Variables
    PROVE  Cardinality(tables[m]) > Variables
<1>. DEFINE table == tables[m]
            column == r.own
            behind == {row \in table : row[column] \in keys}
            value == [row \in behind |-> row[column]]
<1>1. PICK at : RowsBehind(at, records, m, byName, tables)
  BY EveryRecordHasRow
<1>2. KeysRead(byName[m], records, at, r)
  BY <1>1, OwnKeysAre
<1>3. \A key \in keys : \E row \in table : row[column] = key
  BY <1>1, <1>2 DEF KeysRead, RowsBehind
<1>4. IsFiniteSet(table)
  BY RowsAre
<1>. HIDE DEF table, column
<1>5. behind \in SUBSET table /\ value \in Surjection(behind, keys)
  BY <1>3 DEF Surjection
<1>. HIDE DEF behind, value
<1>6. IsFiniteSet(behind) /\ Cardinality(behind) <= Cardinality(table)
  BY <1>4, <1>5, FS_Subset
<1>7. IsFiniteSet(keys) /\ Cardinality(keys) <= Cardinality(behind)
  BY <1>5, <1>6, FS_Surjection
<1>8. Cardinality(table) \in Nat /\ Cardinality(behind) \in Nat /\ Cardinality(keys) \in Nat /\ Variables \in Nat
  BY <1>4, <1>6, <1>7, FS_CardinalityType, VariablesAssumption
<1>9. Cardinality(table) > Variables
  BY <1>6, <1>7, <1>8
<1>. QED BY <1>9 DEF table

\* What loading the relationship r of records of the model m comes to.
Loads(loaded, records, m, r, fields, byName, tables) ==
  /\ loaded.error \in {"none", "Panic", "DataLoadingError", "SqlFailure"}
  /\ loaded.error = "SqlFailure" => Cardinality(tables[m]) > Variables
  /\ ~ FieldsPanic(byName[r.resource], fields) /\ r.related \in fields[r.resource] =>
       loaded.error \in {"none", "SqlFailure"}
  /\ loaded.error = "none" /\ AllInOrder(records) => AllInOrder(loaded.records)
  /\ Fresh(loaded.related)

LEMMA BelongsToLoads ==
    ASSUME NEW byName, Closed(byName), NEW tables, KeptAll(byName, tables), NEW m \in DOMAIN byName,
           NEW records, Records(records, m), AllFaithful(records, byName, tables),
           NEW r \in Relationships(byName[m]), r.kind = "belongs_to", NEW fields, NEW include,
           NEW loaded, loaded = LoadBelongsTo(byName[m], byName[r.resource], r, records, fields, include,
                                              tables[r.resource])
    PROVE  Loads(loaded, records, m, r, fields, byName, tables)
<1>. DEFINE s == byName[m]
            t == r.resource
            column == r.related
            target == byName[t]
            onKey == r.related = target.key.name
            requested == IsRequested(fields, s.name, r.name)
            needed == include \/ (requested /\ ~ onKey)
            keys == OwnKeys(s, records, r.own)
            asked == LoadCollectionBy(target, r.related, keys, fields, tables[t])
            found == IF needed THEN asked ELSE Answer(<<>>)
            related == found.rows
            index == Indexed(KeysOf(r, related), IdsOf(related))
            own(i) == Owned(s, records[i], r.own)
            id(i) == IF own(i) = Null THEN <<>>
                     ELSE IF onKey THEN <<own(i)>> ELSE <<index[own(i)]>>
            ids == [i \in Holders(s, records, r) |-> id(i)]
            fault == IndexFault(r, target, related)
            missing == ~ onKey /\ ~ keys \subseteq DOMAIN index
            planned == ~ FieldsPanic(target, fields) /\ r.related \in fields[t]
<1>1. loaded = IF found.error # "none" THEN NotLoaded(found.error)
               ELSE IF ~ requested THEN Loaded(records, related)
               ELSE IF ~ onKey /\ fault # "none" THEN NotLoaded(fault)
               ELSE IF missing THEN NotLoaded("DataLoadingError")
               ELSE Loaded(Linked(records, r, ids), related)
  BY DEF LoadBelongsTo
<1>2. t \in DOMAIN byName /\ column \in Columns(target) /\ r.own \in Columns(s)
  BY OwnIsColumn
<1>3. \/ found.error = "none"
      \/ found.error = "Panic" /\ FieldsPanic(target, fields)
      \/ found.error = "SqlFailure" /\ Cardinality(tables[m]) > Variables
  <2>1. \/ asked.error = "none"
        \/ asked.error = "Panic" /\ FieldsPanic(target, fields)
        \/ asked.error = "SqlFailure" /\ Cardinality(keys) > Variables
    <3>. HIDE DEF target, keys
    <3>. QED BY <1>2, CollectionServed
  <2>2. Cardinality(keys) > Variables => Cardinality(tables[m]) > Variables
    BY KeysAreFew
  <2>. HIDE DEF asked, needed, keys
  <2>. QED BY <2>1, <2>2 DEF Answer
<1>4. PICK at : RowsBehind(at, records, m, byName, tables)
  BY EveryRecordHasRow
<1>5. KeysRead(s, records, at, r)
  BY <1>4, OwnKeysAre
<1>6. /\ \A i \in Holders(s, records, r) : i \in 1..Len(records) /\ own(i) = at[i][r.own]
      /\ keys = {at[i][r.own] : i \in Holders(s, records, r)} \ {Null}
  BY <1>5 DEF KeysRead
<1>7. Null \notin keys
  BY <1>6
<1>8. \A i \in Holders(s, records, r) : own(i) # Null => own(i) \in Nat /\ own(i) \in keys
  <2>1. ASSUME NEW i \in Holders(s, records, r), own(i) # Null PROVE own(i) \in Nat
    <3>1. at[i] \in tables[m]
      BY <1>4, <1>6 DEF RowsBehind
    <3>2. at[i][r.own] \in Values
      BY <1>2, <3>1, RowsAre
    <3>. QED BY <1>6, <2>1, <3>2 DEF Values
  <2>. HIDE DEF own, keys
  <2>. QED BY <1>6, <2>1
<1>. HIDE DEF keys
<1>9. found.error = "none" => Rising(IdsOf(related)) /\ Fresh(related)
  <2>1. CASE needed
    <3>1. related = asked.rows /\ found = asked
      BY <2>1
    <3>. HIDE DEF column, related, found
    <3>2. asked.error = "none" => Rising(IdsOf(asked.rows)) /\ Fresh(asked.rows)
      <4>. DEFINE other == t
      <4>1. other \in DOMAIN byName /\ asked = LoadCollectionBy(byName[other], column, keys, fields, tables[other])
        BY <1>2 DEF column
      <4>. HIDE DEF other, asked
      <4>. QED BY <4>1, CollectionInOrder
    <3>. QED BY <3>1, <3>2
  <2>2. CASE ~ needed
    <3>1. related = <<>>
      BY <2>2 DEF Answer
    <3>2. IdsOf(<<>>) = <<>>
      BY DEF IdsOf
    <3>. HIDE DEF related, found
    <3>. QED BY <3>1, <3>2, FewRise DEF Fresh
  <2>. QED BY <2>1, <2>2
\* Off the key, the index has what is asked of it.
<1>10. ASSUME found.error = "none", requested, ~ onKey
       PROVE  /\ fault \in {"none", "DataLoadingError"}
              /\ fault = "none" => ~ missing
              /\ t \in DOMAIN fields /\ column \in fields[t] => fault = "none"
  <2>1. needed /\ found = asked
    BY <1>10
  <2>. DEFINE other == t
  <2>2. /\ other \in DOMAIN byName /\ other = r.resource /\ column = r.related
        /\ asked = LoadCollectionBy(byName[other], column, keys, fields, tables[other])
        /\ asked.error = "none" /\ related = asked.rows /\ Null \notin keys
        /\ column # byName[other].key.name
    BY <1>2, <1>7, <1>10, <2>1
  <2>3. /\ fault = (IF KeyMissing(r, byName[other], related) THEN "DataLoadingError"
                    ELSE IF r.kind # "has_many" /\ Repeats(KeysOf(r, related)) THEN "DuplicateIndexKey"
                    ELSE "none")
    BY DEF IndexFault, KeysOf
  <2>. HIDE DEF other, asked, related, found, fault, index
  <2>4. PICK rows : Found(related, rows, column, keys, other, byName, tables)
    <3>. HIDE DEF column
    <3>1. \E rows : Found(asked.rows, rows, column, keys, other, byName, tables)
      BY <2>2, CollectionFound
    <3>. QED BY <2>2, <3>1
  <2>5. other \in DOMAIN fields /\ column \in fields[other] => ~ KeyMissing(r, byName[other], related)
    BY <2>2, KeyIsThere
  <2>6. ASSUME ~ KeyMissing(r, byName[other], related)
        PROVE  fault = "none" /\ keys \subseteq DOMAIN Indexed(KeysOf(r, related), IdsOf(related))
    <3>1. ~ Repeats(KeysOf(r, related))
      <4>. HIDE DEF column
      <4>. QED BY <2>2, <2>4, <2>6, KeysDoNotRepeat
    <3>2. keys \subseteq DOMAIN Indexed(KeysOf(r, related), IdsOf(related))
      <4>1. keys = OwnKeys(byName[m], records, r.own)
        BY DEF keys
      <4>2. other = r.resource /\ column = r.related
        BY <2>2
      <4>. HIDE DEF column, keys
      <4>. QED BY <2>4, <2>6, <4>1, <4>2, KeysAreIndexed
    <3>. QED BY <2>3, <2>6, <3>1, <3>2
  <2>7. KeyMissing(r, byName[other], related) => fault = "DataLoadingError"
    BY <2>3
  <2>8. other = t
    BY DEF other
  <2>9. /\ fault \in {"none", "DataLoadingError"}
        /\ fault = "none" => keys \subseteq DOMAIN Indexed(KeysOf(r, related), IdsOf(related))
        /\ other \in DOMAIN fields /\ column \in fields[other] => fault = "none"
    BY <2>5, <2>6, <2>7
  <2>. QED BY <2>8, <2>9 DEF index
<1>. HIDE DEF found, fault, missing, ids, requested, onKey, needed
<1>11. /\ loaded.error \in {"none", "Panic", "DataLoadingError", "SqlFailure"}
       /\ loaded.error = "SqlFailure" => Cardinality(tables[m]) > Variables
       /\ planned => loaded.error \in {"none", "SqlFailure"}
  <2>1. planned => t \in DOMAIN fields /\ column \in fields[t]
    <3>1. target.name = t
      BY <1>2 DEF Closed
    <3>. QED BY <3>1 DEF FieldsPanic
  <2>2. planned => ~ FieldsPanic(target, fields)
    OBVIOUS
  <2>3. missing => ~ onKey
    BY DEF missing
  <2>. HIDE DEF planned, target, column, index, related
  <2>. QED BY <1>1, <1>3, <1>10, <2>1, <2>2, <2>3 DEF NotLoaded, Loaded
<1>12. loaded.error = "none" => Fresh(loaded.related)
  <2>. HIDE DEF related
  <2>. QED BY <1>1, <1>9 DEF NotLoaded, Loaded
<1>13. loaded.error # "none" => loaded.related = <<>> /\ loaded.records = <<>>
  <2>. HIDE DEF related
  <2>. QED BY <1>1 DEF NotLoaded, Loaded
<1>14. ASSUME loaded.error = "none", AllInOrder(records) PROVE AllInOrder(loaded.records)
  <2>1. CASE ~ requested
    <3>1. loaded.records = records
      <4>. HIDE DEF related
      <4>. QED BY <1>1, <1>14, <2>1 DEF NotLoaded, Loaded
    <3>. QED BY <1>14, <3>1
  <2>2. CASE requested
    <3>1. found.error = "none" /\ loaded.records = Linked(records, r, ids) /\ (~ onKey => fault = "none" /\ ~ missing)
      <4>1. missing => ~ onKey
        BY DEF missing
      <4>. HIDE DEF related
      <4>. QED BY <1>1, <1>14, <2>2, <4>1 DEF NotLoaded, Loaded
    <3>2. ASSUME NEW i \in Holders(s, records, r) PROVE Rising(id(i))
      <4>1. CASE own(i) = Null
        BY <4>1, FewRise
      <4>2. CASE own(i) # Null /\ onKey
        <5>1. id(i) = <<own(i)>> /\ own(i) \in Nat
          BY <1>8, <4>2
        <5>. HIDE DEF id, own
        <5>. QED BY <5>1, FewRise
      <4>3. CASE own(i) # Null /\ ~ onKey
        <5>. DEFINE ks == KeysOf(r, related)
                    is == IdsOf(related)
                    k == CHOOSE j \in DOMAIN ks : ks[j] = own(i)
        <5>1. own(i) \in DOMAIN index
          <6>. HIDE DEF own, index
          <6>. QED BY <1>8, <3>1, <4>3 DEF missing
        <5>2. DOMAIN index = ToSet(ks) /\ index = [key \in ToSet(ks) |-> is[CHOOSE j \in DOMAIN ks : ks[j] = key]]
          BY DEF Indexed
        <5>3. DOMAIN ks = DOMAIN is
          BY DEF KeysOf, IdsOf
        <5>4. Rising(is)
          BY <1>9, <3>1
        <5>. HIDE DEF ks, is, own, index
        <5>5. k \in DOMAIN ks /\ index[own(i)] = is[k]
          <6>1. \E j \in DOMAIN ks : ks[j] = own(i)
            BY <5>1, <5>2 DEF ToSet
          <6>. QED BY <5>1, <5>2, <6>1
        <5>6. index[own(i)] \in Nat
          BY <5>3, <5>4, <5>5 DEF Rising
        <5>7. id(i) = <<index[own(i)]>>
          BY <4>3
        <5>. HIDE DEF id
        <5>. QED BY <5>6, <5>7, FewRise
      <4>. QED BY <4>1, <4>2, <4>3
    <3>3. \A i \in DOMAIN ids : Rising(ids[i])
      <4>. HIDE DEF id
      <4>. QED BY <3>2 DEF ids
    <3>. DEFINE ys == loaded.records
    <3>4. ys = Linked(records, r, ids)
      BY <3>1
    <3>. HIDE DEF ys
    <3>5. AllInOrder(ys)
      BY <1>14, <3>3, <3>4, LinkedInOrder
    <3>. QED BY <3>5 DEF ys
  <2>. QED BY <2>1, <2>2
<1>15. AllInOrder(<<>>) /\ Fresh(<<>>)
  BY DEF AllInOrder, Fresh
<1>16. (AllInOrder(records) => AllInOrder(loaded.records)) /\ Fresh(loaded.related)
  BY <1>12, <1>13, <1>14, <1>15
<1>. HIDE DEF planned
<1>17. ~ FieldsPanic(byName[r.resource], fields) /\ r.related \in fields[r.resource] =>
         loaded.error \in {"none", "SqlFailure"}
  BY <1>11 DEF planned
<1>. QED BY <1>11, <1>16, <1>17 DEF Loads

-----------------------------------------------------------------------------

LEMMA GroupsRise ==
    ASSUME NEW r, NEW found, Records(found, r.resource), Rising(IdsOf(found)),
           NEW index, index = Grouped(KeysOf(r, found), IdsOf(found))
    PROVE  \A key \in DOMAIN index : Rising(index[key])
<1>. DEFINE ks == KeysOf(r, found)
            is == IdsOf(found)
            n == Len(found)
<1>1. n \in Nat /\ DOMAIN found = 1..n
  BY DEF Records
<1>2. DOMAIN ks = 1..n /\ DOMAIN is = 1..n
  BY <1>1 DEF KeysOf, IdsOf
<1>. HIDE DEF ks, is, n
<1>3. /\ \A i \in 1..n : is[i] \in Nat
      /\ \A i, j \in 1..n : i < j => is[i] < is[j]
  <2>1. is \in Seq(Nat) /\ Len(is) = n /\ \A i, j \in 1..Len(is) : i < j => is[i] < is[j]
    BY <1>1, <1>2 DEF Rising, is
  <2>. QED BY <1>1, <2>1
<1>4. DOMAIN index = ToSet(ks) /\ index = Grouped(ks, is)
  BY DEF Grouped, ks, is
<1>5. ASSUME NEW key \in ToSet(ks) PROVE Rising(Grouped(ks, is)[key])
  BY <1>1, <1>2, <1>3, GroupInOrder
<1>. QED BY <1>4, <1>5

LEMMA HasLoads ==
    ASSUME NEW byName, Closed(byName), NEW tables, KeptAll(byName, tables), NEW m \in DOMAIN byName,
           NEW records, Records(records, m), AllFaithful(records, byName, tables),
           NEW r \in Relationships(byName[m]), r.kind # "belongs_to", NEW fields,
           NEW loaded, loaded = LoadHas(byName[m], byName[r.resource], r, records, fields, tables[r.resource])
    PROVE  Loads(loaded, records, m, r, fields, byName, tables)
<1>. DEFINE s == byName[m]
            t == r.resource
            column == r.related
            target == byName[t]
            requested == IsRequested(fields, s.name, r.name)
            keys == OwnKeys(s, records, r.own)
            found == LoadCollectionBy(target, r.related, keys, fields, tables[t])
            related == found.rows
            index == Grouped(KeysOf(r, related), IdsOf(related))
            own(i) == Owned(s, records[i], r.own)
            taken(i) == r.kind = "has_many"
                          /\ \E j \in Holders(s, records, r) : j < i /\ own(j) = own(i)
            id(i) == IF own(i) \in DOMAIN index /\ ~ taken(i) THEN index[own(i)] ELSE <<>>
            ids == [i \in Holders(s, records, r) |-> id(i)]
            fault == IndexFault(r, target, related)
            planned == ~ FieldsPanic(target, fields) /\ r.related \in fields[t]
<1>1. loaded = IF found.error # "none" THEN NotLoaded(found.error)
               ELSE IF fault # "none" THEN NotLoaded(fault)
               ELSE IF ~ requested THEN Loaded(records, related)
               ELSE Loaded(Linked(records, r, ids), related)
  BY DEF LoadHas
<1>2. t \in DOMAIN byName /\ column \in Columns(target) /\ target.name = t
  BY OwnIsColumn DEF Closed
<1>3. \/ found.error = "none"
      \/ found.error = "Panic" /\ FieldsPanic(target, fields)
      \/ found.error = "SqlFailure" /\ Cardinality(tables[m]) > Variables
  <2>1. Cardinality(keys) > Variables => Cardinality(tables[m]) > Variables
    BY KeysAreFew
  <2>. HIDE DEF target, keys
  <2>. QED BY <1>2, <2>1, CollectionServed
<1>4. Null \notin keys
  BY DEF OwnKeys
<1>. DEFINE other == t
<1>5. /\ other \in DOMAIN byName /\ other = r.resource /\ column = r.related /\ other = t
      /\ found = LoadCollectionBy(byName[other], column, keys, fields, tables[other])
      /\ related = found.rows
  BY <1>2
<1>6. /\ fault = (IF KeyMissing(r, byName[other], related) THEN "DataLoadingError"
                  ELSE IF r.kind # "has_many" /\ Repeats(KeysOf(r, related)) THEN "DuplicateIndexKey"
                  ELSE "none")
  BY DEF IndexFault, KeysOf
<1>. HIDE DEF keys, found, fault, other
<1>7. found.error = "none" => Rising(IdsOf(related)) /\ Fresh(related)
  <2>. HIDE DEF column, related
  <2>. QED BY <1>5, CollectionInOrder
<1>8. ASSUME found.error = "none"
      PROVE  /\ fault \in {"none", "DataLoadingError"}
             /\ t \in DOMAIN fields /\ column \in fields[t] => fault = "none"
             /\ Records(related, t)
  <2>. HIDE DEF related
  <2>1. PICK rows : Found(related, rows, column, keys, other, byName, tables)
    <3>. HIDE DEF column
    <3>1. \E rows : Found(found.rows, rows, column, keys, other, byName, tables)
      BY <1>4, <1>5, <1>8, CollectionFound
    <3>. QED BY <1>5, <3>1
  <2>2. other \in DOMAIN fields /\ column \in fields[other] => ~ KeyMissing(r, byName[other], related)
    BY <1>4, <1>5, <1>8, KeyIsThere
  <2>3. ASSUME ~ KeyMissing(r, byName[other], related), r.kind # "has_many" PROVE ~ Repeats(KeysOf(r, related))
    <3>1. other = r.resource /\ column = r.related
      BY <1>5
    <3>. HIDE DEF column
    <3>. QED BY <1>4, <2>1, <2>3, <3>1, KeysDoNotRepeat
  <2>4. /\ fault \in {"none", "DataLoadingError"}
        /\ other \in DOMAIN fields /\ column \in fields[other] => fault = "none"
    BY <1>6, <2>2, <2>3
  <2>5. Records(related, other)
    BY <2>1 DEF Found
  <2>. QED BY <1>5, <2>4, <2>5
<1>. HIDE DEF ids, requested
<1>9. /\ loaded.error \in {"none", "Panic", "DataLoadingError", "SqlFailure"}
      /\ loaded.error = "SqlFailure" => Cardinality(tables[m]) > Variables
      /\ planned => loaded.error \in {"none", "SqlFailure"}
  <2>1. planned => t \in DOMAIN fields /\ column \in fields[t]
    BY <1>2 DEF FieldsPanic
  <2>2. planned => ~ FieldsPanic(target, fields)
    OBVIOUS
  <2>. HIDE DEF planned, target, column, related
  <2>. QED BY <1>1, <1>3, <1>8, <2>1, <2>2 DEF NotLoaded, Loaded
<1>10. loaded.error = "none" => Fresh(loaded.related)
  <2>. HIDE DEF related
  <2>. QED BY <1>1, <1>7 DEF NotLoaded, Loaded
<1>11. loaded.error # "none" => loaded.related = <<>> /\ loaded.records = <<>>
  <2>. HIDE DEF related
  <2>. QED BY <1>1 DEF NotLoaded, Loaded
<1>12. ASSUME loaded.error = "none", AllInOrder(records) PROVE AllInOrder(loaded.records)
  <2>1. found.error = "none" /\ loaded.records = IF requested THEN Linked(records, r, ids) ELSE records
    <3>. HIDE DEF related
    <3>. QED BY <1>1, <1>12 DEF NotLoaded, Loaded
  <2>2. \A key \in DOMAIN index : Rising(index[key])
    <3>1. Records(related, r.resource) /\ Rising(IdsOf(related))
      BY <1>7, <1>8, <2>1
    <3>2. index = Grouped(KeysOf(r, related), IdsOf(related))
      OBVIOUS
    <3>. HIDE DEF related, index
    <3>. QED BY <3>1, <3>2, GroupsRise
  <2>3. ASSUME NEW i \in Holders(s, records, r) PROVE Rising(id(i))
    <3>. HIDE DEF index, own, taken
    <3>. QED BY <2>2, FewRise
  <2>4. \A i \in DOMAIN ids : Rising(ids[i])
    <3>. HIDE DEF id
    <3>. QED BY <2>3 DEF ids
  <2>. DEFINE ys == loaded.records
  <2>5. CASE ~ requested
    BY <1>12, <2>1, <2>5
  <2>6. CASE requested
    <3>1. ys = Linked(records, r, ids)
      BY <2>1, <2>6
    <3>. HIDE DEF ys
    <3>2. AllInOrder(ys)
      BY <1>12, <2>4, <3>1, LinkedInOrder
    <3>. QED BY <3>2 DEF ys
  <2>. QED BY <2>5, <2>6
<1>13. AllInOrder(<<>>) /\ Fresh(<<>>)
  BY DEF AllInOrder, Fresh
<1>14. (AllInOrder(records) => AllInOrder(loaded.records)) /\ Fresh(loaded.related)
  BY <1>10, <1>11, <1>12, <1>13
<1>. HIDE DEF planned
<1>15. ~ FieldsPanic(byName[r.resource], fields) /\ r.related \in fields[r.resource] =>
         loaded.error \in {"none", "SqlFailure"}
  BY <1>9 DEF planned
<1>. QED BY <1>9, <1>14, <1>15 DEF Loads

LEMMA RelatedLoads ==
    ASSUME NEW byName, Closed(byName), NEW tables, KeptAll(byName, tables), NEW m \in DOMAIN byName,
           NEW records, Records(records, m), AllFaithful(records, byName, tables),
           NEW r \in Relationships(byName[m]), NEW fields, NEW include,
           NEW loaded, loaded = LoadRelated(byName[m], byName[r.resource], r, records, fields, include,
                                            tables[r.resource])
    PROVE  Loads(loaded, records, m, r, fields, byName, tables)
<1>1. CASE r.kind = "belongs_to"
  <2>1. loaded = LoadBelongsTo(byName[m], byName[r.resource], r, records, fields, include, tables[r.resource])
    BY <1>1 DEF LoadRelated
  <2>. QED BY <1>1, <2>1, BelongsToLoads
<1>2. CASE r.kind # "belongs_to"
  <2>1. loaded = LoadHas(byName[m], byName[r.resource], r, records, fields, tables[r.resource])
    BY <1>2 DEF LoadRelated
  <2>. QED BY <1>2, <2>1, HasLoads
<1>. QED BY <1>1, <1>2

-----------------------------------------------------------------------------
(* Merging never finds two copies of a record that disagree. *)

LEMMA FreshIsInOrder ==
    ASSUME NEW xs, Fresh(xs)
    PROVE  AllInOrder(xs)
<1>1. DOMAIN <<>> = {}
  OBVIOUS
<1>. QED BY <1>1 DEF Fresh, AllInOrder, InOrder

LEMMA CopiesAgree ==
    ASSUME NEW byName, Closed(byName), NEW tables, KeptAll(byName, tables),
           NEW x, Faithful(x, byName, tables), InOrder(x), NEW z, Faithful(z, byName, tables), InOrder(z),
           z.kind = x.kind, z.id = x.id
    PROVE  ~ Disagree(z, x)
<1>. DEFINE m == x.kind
            key == byName[m].key.name
<1>1. PICK row \in tables[m] : TrueTo(x, row, byName, tables)
  BY DEF Faithful
<1>2. PICK other \in tables[m] : TrueTo(z, other, byName, tables)
  BY DEF Faithful
<1>3. m \in DOMAIN byName /\ row[key] = x.id /\ other[key] = x.id
  BY <1>1, <1>2 DEF Faithful, TrueTo
<1>4. row = other
  <2>1. \A v, w \in tables[m] : v[key] = w[key] => v = w
    BY <1>3, RowsAre
  <2>. QED BY <1>3, <2>1
<1>5. ASSUME NEW name \in DOMAIN z.relationships \cap DOMAIN x.relationships
      PROVE  z.relationships[name] = x.relationships[name]
  <2>. DEFINE a == z.relationships[name]
              b == x.relationships[name]
              leads == Leads(row, Relationship(byName[m], name), byName, tables)
  <2>1. Exactly(a, leads) /\ Exactly(b, leads)
    BY <1>1, <1>2, <1>4 DEF TrueTo
  <2>2. Rising(a) /\ Rising(b)
    BY DEF InOrder
  <2>. HIDE DEF a, b, leads
  <2>3. ToSet(a) = ToSet(b) /\ Len(a) = Len(b)
    BY <2>1 DEF Exactly
  <2>4. a = b
    BY <2>2, <2>3, RisingIsUnique
  <2>. QED BY <2>4 DEF a, b
<1>. QED BY <1>5 DEF Disagree

CacheInOrder(c) == \A key \in DOMAIN c : InOrder(c[key])

LEMMA MergeInOrder ==
    ASSUME NEW c, Keyed(c), CacheInOrder(c), NEW x, IsRecord(x, x.kind), InOrder(x)
    PROVE  CacheInOrder(Merge(c, x))
<1>. DEFINE key == Identifier(x)
            d == Merge(c, x)
<1>1. /\ DOMAIN d = DOMAIN c \cup {key}
      /\ \A k \in DOMAIN c : k # key => d[k] = c[k]
      /\ key \notin DOMAIN c => d[key] = x
      /\ key \in DOMAIN c => d[key].relationships = Over(c[key].relationships, x.relationships)
  BY MergeIs
<1>. HIDE DEF d, key
<1>2. InOrder(d[key])
  <2>1. CASE key \notin DOMAIN c
    BY <1>1, <2>1
  <2>2. CASE key \in DOMAIN c
    <3>. DEFINE first == c[key].relationships
                second == x.relationships
                links == d[key].relationships
    <3>1. links = Over(first, second)
      BY <1>1, <2>2
    <3>2. (\A name \in DOMAIN first : Rising(first[name])) /\ (\A name \in DOMAIN second : Rising(second[name]))
      BY <2>2 DEF CacheInOrder, InOrder
    <3>. HIDE DEF links, first, second
    <3>3. \A name \in DOMAIN links : Rising(links[name])
      BY <3>1, <3>2 DEF Over
    <3>. QED BY <3>3 DEF InOrder, links
  <2>. QED BY <2>1, <2>2
<1>. QED BY <1>1, <1>2 DEF CacheInOrder, d

LEMMA MergesInOrder ==
    ASSUME NEW byName, Closed(byName), NEW tables, KeptAll(byName, tables),
           NEW c, Keyed(c), CacheTrue(c, byName, tables), CacheInOrder(c),
           NEW kind, NEW records, Records(records, kind), AllFaithful(records, byName, tables), AllInOrder(records)
    PROVE  ~ MergeConflicts(c, records) /\ CacheInOrder(MergeAll(c, records))
<1>. DEFINE n == Len(records)
            after == Merging(c, records)
            Well(i) == Keyed(after[i]) /\ CacheTrue(after[i], byName, tables) /\ CacheInOrder(after[i])
            S == {i \in 0..n : Well(i)}
<1>1. n \in Nat /\ DOMAIN records = 1..n /\ \A i \in 1..n : IsRecord(records[i], records[i].kind)
  BY DEF Records, IsRecord
<1>2. after[0] = c /\ \A i \in 1..n : after[i] = Merge(after[i - 1], records[i])
  BY <1>1, MergingIs
<1>3. \A i \in 1..n : Faithful(records[i], byName, tables) /\ InOrder(records[i])
  BY DEF AllFaithful, AllInOrder
<1>4. MergeAll(c, records) = after[n]
  BY DEF MergeAll
<1>5. MergeConflicts(c, records) =>
        \E i \in 1..n : /\ Identifier(records[i]) \in DOMAIN after[i - 1]
                        /\ Disagree(after[i - 1][Identifier(records[i])], records[i])
  BY <1>1 DEF MergeConflicts
<1>. HIDE DEF after, n
<1>6. 0 \in S
  BY <1>1, <1>2
<1>7. ASSUME NEW i \in 1..n, i - 1 \in S PROVE i \in S
  <2>. DEFINE before == after[i - 1]
              d == after[i]
              x == records[i]
  <2>1. /\ Well(i - 1) /\ i \in 0..n /\ d = Merge(before, x) /\ IsRecord(x, x.kind)
        /\ Faithful(x, byName, tables) /\ InOrder(x)
    BY <1>1, <1>2, <1>3, <1>7
  <2>. HIDE DEF x, before, d
  <2>2. Keyed(before) /\ CacheTrue(before, byName, tables) /\ CacheInOrder(before)
    BY <2>1 DEF before
  <2>3. Keyed(d)
    BY <2>1, <2>2, MergeIs
  <2>4. CacheTrue(d, byName, tables)
    BY <2>1, <2>2, MergeIsTrue
  <2>5. CacheInOrder(d)
    BY <2>1, <2>2, MergeInOrder
  <2>. QED BY <2>1, <2>3, <2>4, <2>5 DEF d
<1>. HIDE DEF S, Well
<1>8. 0..n \subseteq S
  BY <1>1, <1>6, <1>7, BoundedInduction
<1>9. \A i \in 0..n : Well(i)
  BY <1>8 DEF S
<1>10. ASSUME NEW i \in 1..n, Identifier(records[i]) \in DOMAIN after[i - 1]
       PROVE  ~ Disagree(after[i - 1][Identifier(records[i])], records[i])
  <2>. DEFINE x == records[i]
              before == after[i - 1]
              z == before[Identifier(x)]
  <2>1. Well(i - 1)
    <3>1. i - 1 \in 0..n
      BY <1>1
    <3>. QED BY <1>9, <3>1
  <2>2. Keyed(before) /\ CacheTrue(before, byName, tables) /\ CacheInOrder(before) /\ Identifier(x) \in DOMAIN before
    BY <1>10, <2>1 DEF Well
  <2>3. Faithful(x, byName, tables) /\ InOrder(x)
    BY <1>3
  <2>. HIDE DEF x, before
  <2>4. Identifier(z) = Identifier(x) /\ Faithful(z, byName, tables) /\ InOrder(z)
    BY <2>2 DEF Keyed, CacheTrue, CacheInOrder
  <2>. HIDE DEF z
  <2>5. z.kind = x.kind /\ z.id = x.id
    BY <2>4 DEF Identifier
  <2>6. ~ Disagree(z, x)
    BY <2>3, <2>4, <2>5, CopiesAgree
  <2>. QED BY <2>6 DEF z, x, before
<1>11. Well(n)
  BY <1>1, <1>9
<1>12. CacheInOrder(MergeAll(c, records))
  BY <1>4, <1>11 DEF Well
<1>. QED BY <1>5, <1>10, <1>12

-----------------------------------------------------------------------------
(* What parse accepts can be asked of the database. *)

\* Every model served, and every model a relationship leads to from one, has
\* fields that are columns or relationships, the join key among them.
Planned(fields, models, byName) ==
  \A m \in models :
    /\ m \in DOMAIN byName /\ ~ FieldsPanic(byName[m], fields)
    /\ \A r \in Relationships(byName[m]) :
         ~ FieldsPanic(byName[r.resource], fields) /\ r.related \in fields[r.resource]

LEMMA DiscoveryPlans ==
    ASSUME NEW byName, Closed(byName), NEW models, models \subseteq DOMAIN byName,
           NEW fields, DOMAIN fields \subseteq DOMAIN byName,
           \A m \in DOMAIN fields : fields[m] \subseteq Fields(byName[m])
    PROVE  Planned(DiscoverFields(fields, models, byName), models, byName)
<1>. DEFINE pinned == Over(fields, [m \in models |-> Fields(byName[m])])
            joins == UNION {Relationships(byName[m]) : m \in models}
            keys(m) == {r.related : r \in {j \in joins : j.resource = m}}
            found == DiscoverFields(fields, models, byName)
<1>1. found = [m \in DOMAIN pinned \cup {r.resource : r \in joins} |-> FieldsOf(pinned, m) \cup keys(m)]
  BY DEF DiscoverFields
<1>2. /\ DOMAIN pinned = DOMAIN fields \cup models
      /\ \A m \in DOMAIN pinned : m \in DOMAIN byName /\ pinned[m] \subseteq Fields(byName[m])
  <2>1. DOMAIN pinned = DOMAIN fields \cup models
    BY DEF Over
  <2>2. ASSUME NEW m \in DOMAIN pinned PROVE pinned[m] \subseteq Fields(byName[m])
    <3>1. CASE m \in DOMAIN fields
      BY <2>2, <3>1 DEF Over
    <3>2. CASE m \notin DOMAIN fields
      BY <2>1, <2>2, <3>2 DEF Over
    <3>. QED BY <3>1, <3>2
  <2>. HIDE DEF pinned
  <2>. QED BY <2>1, <2>2
<1>3. \A r \in joins : /\ r.resource \in DOMAIN byName
                       /\ r.related \in Columns(byName[r.resource])
  <2>1. ASSUME NEW m \in models, NEW r \in Relationships(byName[m])
        PROVE  r.resource \in DOMAIN byName /\ r.related \in Columns(byName[r.resource])
    <3>1. m \in DOMAIN byName
      OBVIOUS
    <3>. QED BY <3>1, OwnIsColumn
  <2>. QED BY <2>1
<1>. HIDE DEF pinned, found
<1>4. ASSUME NEW m \in DOMAIN pinned \cup {r.resource : r \in joins}
      PROVE  ~ FieldsPanic(byName[m], found)
  <2>1. m \in DOMAIN byName /\ byName[m].name = m
    BY <1>2, <1>3 DEF Closed
  <2>2. FieldsOf(pinned, m) \subseteq Columns(byName[m]) \cup RelationshipNames(byName[m])
    BY <1>2 DEF FieldsOf, Fields, Columns
  <2>3. keys(m) \subseteq Columns(byName[m])
    BY <1>3
  <2>4. m \in DOMAIN found /\ found[m] = FieldsOf(pinned, m) \cup keys(m)
    <3>. HIDE DEF keys
    <3>. QED BY <1>1
  <2>. HIDE DEF keys
  <2>. QED BY <2>1, <2>2, <2>3, <2>4 DEF FieldsPanic
<1>5. ASSUME NEW m \in models
      PROVE  /\ m \in DOMAIN byName /\ ~ FieldsPanic(byName[m], found)
             /\ \A r \in Relationships(byName[m]) :
                  ~ FieldsPanic(byName[r.resource], found) /\ r.related \in found[r.resource]
  <2>1. m \in DOMAIN pinned
    BY <1>2
  <2>2. ASSUME NEW r \in Relationships(byName[m])
        PROVE  ~ FieldsPanic(byName[r.resource], found) /\ r.related \in found[r.resource]
    <3>1. r \in joins
      OBVIOUS
    <3>2. r.resource \in {q.resource : q \in joins} /\ r.related \in keys(r.resource)
      BY <3>1
    <3>. HIDE DEF keys, joins
    <3>3. ~ FieldsPanic(byName[r.resource], found)
      BY <1>4, <3>2
    <3>4. r.related \in found[r.resource]
      BY <1>1, <3>2
    <3>. QED BY <3>3, <3>4
  <2>. QED BY <1>4, <2>1, <2>2
<1>. QED BY <1>5 DEF Planned, found

Parameters == {"schema", "fields", "include", "filter", "search", "sort", "page", "models", "error"}
Refusals == {"UnknownSchema", "QueryValidationFailure", "ParseParameterFailure"}

\* Conditions on columns that the table has, on no more values than SQLite binds.
Fits(conditions) == \A c \in conditions : ~ Cardinality(c.operand) > Variables
Bindable(filter, s) ==
  DOMAIN filter \subseteq Columns(s) /\ \A column \in DOMAIN filter : Fits(filter[column])

LEMMA SingleFits == ASSUME NEW x PROVE ~ Cardinality({x}) > Variables
BY FS_Singleton, VariablesAssumption

LEMMA PutIsBindable ==
    ASSUME NEW s, NEW filter, Bindable(filter, s), NEW column \in Columns(s),
           NEW conditions, Fits(conditions), NEW now, now = Put(filter, column, conditions)
    PROVE  Bindable(now, s)
<1>1. /\ DOMAIN now = DOMAIN filter \cup {column}
      /\ \A c \in DOMAIN now : now[c] = IF c = column THEN conditions ELSE filter[c]
  BY DEF Put
<1>. QED BY <1>1 DEF Bindable

Sound(p, s) ==
  /\ DOMAIN p = Parameters /\ p.error \in {"none"} \cup Refusals
  /\ p.error = "none" => Bindable(p.filter, s)

LEMMA EntryIsSound ==
    ASSUME NEW p, NEW s, Sound(p, s), p.error = "none", NEW e, NEW byName, NEW q, q = ParseEntry(p, e, s, byName)
    PROVE  Sound(q, s)
<1>1. \A error \in Refusals : Sound(Failing(p, error), s)
  <2>1. \A error : DOMAIN Failing(p, error) = DOMAIN p /\ Failing(p, error).error = error
    BY DEF Failing, Sound, Parameters
  <2>. QED BY <2>1 DEF Sound, Refusals
<1>2. ASSUME NEW x, DOMAIN x = DOMAIN p, x.error = p.error, x.filter = p.filter
      PROVE  Sound(x, s)
  BY <1>2 DEF Sound
<1>3. CASE e.key = "fields"
  <2>1. q = ParseFields(p, e, byName)
    BY <1>3 DEF ParseEntry
  <2>. DEFINE fields == Put(p.fields, e.on, FieldsOf(p.fields, e.on) \cup ToSet(e.values))
              x == [p EXCEPT !.fields = fields]
  <2>2. q \in {Failing(p, "UnknownSchema"), Failing(p, "QueryValidationFailure"), x}
    BY <2>1 DEF ParseFields
  <2>3. Sound(x, s)
    <3>1. DOMAIN x = DOMAIN p /\ x.error = p.error /\ x.filter = p.filter
      BY DEF Sound, Parameters
    <3>. HIDE DEF x
    <3>. QED BY <1>2, <3>1
  <2>. HIDE DEF x
  <2>. QED BY <1>1, <2>2, <2>3 DEF Refusals
<1>4. CASE e.key = "include"
  <2>1. q = ParseInclude(p, e, s, byName)
    BY <1>4 DEF ParseEntry
  <2>2. PICK include, models : q \in {Failing(p, "QueryValidationFailure"), [p EXCEPT !.include = include, !.models = models]}
    <3>. DEFINE paths == ToSet(e.values)
                include == p.include \cup UNION {{SubSeq(path, 1, i) : i \in 1..Len(path)} : path \in paths}
                models == p.models \cup UNION {{Walk(path, s, byName)[i] : i \in 1..Len(path)} : path \in paths}
    <3>1. q \in {Failing(p, "QueryValidationFailure"), [p EXCEPT !.include = include, !.models = models]}
      BY <2>1 DEF ParseInclude
    <3>. HIDE DEF include, models
    <3>. QED BY <3>1
  <2>. DEFINE x == [p EXCEPT !.include = include, !.models = models]
  <2>3. Sound(x, s)
    <3>1. DOMAIN x = DOMAIN p /\ x.error = p.error /\ x.filter = p.filter
      BY DEF Sound, Parameters
    <3>. HIDE DEF x
    <3>. QED BY <1>2, <3>1
  <2>. HIDE DEF x
  <2>. QED BY <1>1, <2>2, <2>3 DEF Refusals, x
<1>5. CASE e.key = "filter"
  <2>1. q = ParseFilter(p, e, s)
    BY <1>5 DEF ParseEntry
  <2>2. PICK conditions : Fits(conditions) /\
          \/ q \in {Failing(p, "QueryValidationFailure"), Failing(p, "ParseParameterFailure")}
          \/ e.on \in Attributes(s) /\ q = [p EXCEPT !.filter = Put(@, e.on, conditions)]
    <3>. DEFINE conditions == {[op |-> c.op, operand |-> {c.value}] : c \in ToSet(e.values)}
    <3>1. \/ q \in {Failing(p, "QueryValidationFailure"), Failing(p, "ParseParameterFailure")}
          \/ e.on \in Attributes(s) /\ q = [p EXCEPT !.filter = Put(@, e.on, conditions)]
      BY <2>1 DEF ParseFilter
    <3>2. Fits(conditions)
      BY SingleFits DEF Fits
    <3>. HIDE DEF conditions
    <3>. QED BY <3>1, <3>2
  <2>. DEFINE filter == Put(p.filter, e.on, conditions)
              x == [p EXCEPT !.filter = filter]
  <2>3. ASSUME e.on \in Attributes(s) PROVE Sound(x, s)
    <3>1. e.on \in Columns(s) /\ Bindable(p.filter, s)
      BY <2>3 DEF Columns, Sound
    <3>2. Bindable(filter, s)
      <4>. DEFINE column == e.on
                  old == p.filter
      <4>1. filter = Put(old, column, conditions)
        OBVIOUS
      <4>. HIDE DEF column, old, filter
      <4>2. column \in Columns(s) /\ Bindable(old, s)
        BY <3>1 DEF column, old
      <4>. QED BY <2>2, <4>1, <4>2, PutIsBindable
    <3>. HIDE DEF filter
    <3>3. DOMAIN x = DOMAIN p /\ x.error = p.error /\ x.filter = filter
      BY DEF Sound, Parameters
    <3>. HIDE DEF x
    <3>. QED BY <3>2, <3>3 DEF Sound
  <2>. HIDE DEF x
  <2>4. \/ q \in {Failing(p, "QueryValidationFailure"), Failing(p, "ParseParameterFailure")}
        \/ e.on \in Attributes(s) /\ q = x
    BY <2>2 DEF x
  <2>. QED BY <1>1, <2>3, <2>4 DEF Refusals
<1>6. CASE e.key = "search"
  <2>1. q = ParseSearch(p, e)
    BY <1>6 DEF ParseEntry
  <2>. DEFINE terms == <<ToSet(e.values) \ {0}>>
  <2>2. q = p \/ q = [p EXCEPT !.search = terms]
    BY <2>1 DEF ParseSearch
  <2>. HIDE DEF terms
  <2>3. DOMAIN q = DOMAIN p /\ q.error = p.error /\ q.filter = p.filter
    BY <2>2 DEF Sound, Parameters
  <2>. QED BY <1>2, <2>3
<1>7. CASE e.key = "sort"
  <2>1. q = ParseSort(p, e, s)
    BY <1>7 DEF ParseEntry
  <2>2. \/ q \in {Failing(p, "ParseParameterFailure"), Failing(p, "QueryValidationFailure")}
        \/ q = [p EXCEPT !.sort = e.values]
    BY <2>1 DEF ParseSort
  <2>. DEFINE x == [p EXCEPT !.sort = e.values]
  <2>3. Sound(x, s)
    <3>1. DOMAIN x = DOMAIN p /\ x.error = p.error /\ x.filter = p.filter
      BY DEF Sound, Parameters
    <3>. HIDE DEF x
    <3>. QED BY <1>2, <3>1
  <2>. HIDE DEF x
  <2>. QED BY <1>1, <2>2, <2>3 DEF Refusals, x
<1>8. CASE e.key = "page"
  <2>1. q = ParsePage(p, e)
    BY <1>8 DEF ParseEntry
  <2>2. PICK page : q = Failing(p, "ParseParameterFailure") \/ q = [p EXCEPT !.page = page]
    <3>. DEFINE old == IF p.page = <<>> THEN [number |-> 1, size |-> 20] ELSE p.page
                page == IF e.on = "number" THEN [old EXCEPT !.number = e.values[1]]
                        ELSE [old EXCEPT !.size = e.values[1]]
    <3>1. q = Failing(p, "ParseParameterFailure") \/ q = [p EXCEPT !.page = page]
      BY <2>1 DEF ParsePage
    <3>. HIDE DEF page
    <3>. QED BY <3>1
  <2>. DEFINE x == [p EXCEPT !.page = page]
  <2>3. Sound(x, s)
    <3>1. DOMAIN x = DOMAIN p /\ x.error = p.error /\ x.filter = p.filter
      BY DEF Sound, Parameters
    <3>. HIDE DEF x
    <3>. QED BY <1>2, <3>1
  <2>. HIDE DEF x
  <2>. QED BY <1>1, <2>2, <2>3 DEF Refusals, x
<1>9. CASE e.key \notin {"fields", "include", "filter", "search", "sort", "page"}
  <2>1. q = Failing(p, "ParseParameterFailure")
    BY <1>9 DEF ParseEntry
  <2>. QED BY <1>1, <2>1 DEF Refusals
<1>. QED BY <1>3, <1>4, <1>5, <1>6, <1>7, <1>8, <1>9

LEMMA ParseIsSound ==
    ASSUME NEW query, Split(query), NEW s, NEW byName
    PROVE  Sound(Parse(query, s, byName), s)
<1>1. PICK upTo : /\ ReadSoFar(query, s, byName, upTo)
                  /\ Parse(query, s, byName) =
                       LET read == upTo[Len(query)]
                       IN IF read.error # "none" THEN read
                          ELSE [read EXCEPT !.fields = DiscoverFields(@, read.models, byName)]
  <2>1. query \in Seq(ToSet(query))
    BY SequenceIs DEF Split
  <2>. QED BY <2>1, ParsingIs
<1>. DEFINE n == Len(query)
            S == {i \in 0..n : Sound(upTo[i], s)}
<1>2. n \in Nat
  BY SequenceIs DEF Split
<1>3. 0 \in S
  <2>1. Sound(Blank(s), s)
    BY DEF Sound, Blank, Parameters, Bindable
  <2>. QED BY <1>1, <1>2, <2>1 DEF ReadSoFar
<1>4. ASSUME NEW i \in 1..n, i - 1 \in S PROVE i \in S
  <2>. DEFINE p == upTo[i - 1]
              q == upTo[i]
              e == query[i]
  <2>1. i \in 0..n /\ q = (IF p.error # "none" THEN p ELSE ParseEntry(p, e, s, byName)) /\ Sound(p, s)
    BY <1>1, <1>2, <1>4 DEF ReadSoFar
  <2>. HIDE DEF p, q, e
  <2>2. Sound(q, s)
    <3>1. CASE p.error # "none"
      BY <2>1, <3>1
    <3>2. CASE p.error = "none"
      <4>1. q = ParseEntry(p, e, s, byName)
        BY <2>1, <3>2
      <4>. QED BY <2>1, <3>2, <4>1, EntryIsSound
    <3>. QED BY <3>1, <3>2
  <2>. QED BY <2>1, <2>2 DEF q
<1>5. Sound(upTo[n], s)
  <2>. HIDE DEF S, n
  <2>1. 0..n \subseteq S
    BY <1>2, <1>3, <1>4, BoundedInduction
  <2>2. n \in 0..n
    BY <1>2
  <2>. QED BY <2>1, <2>2 DEF S
<1>. DEFINE read == upTo[n]
            fields == DiscoverFields(read.fields, read.models, byName)
            x == Parse(query, s, byName)
<1>6. x = IF read.error # "none" THEN read ELSE [read EXCEPT !.fields = fields]
  BY <1>1
<1>. HIDE DEF fields, x, read
<1>7. Sound(read, s)
  BY <1>5 DEF read
<1>8. DOMAIN x = DOMAIN read /\ x.error = read.error /\ x.filter = read.filter
  BY <1>6, <1>7 DEF Sound, Parameters
<1>. QED BY <1>7, <1>8 DEF Sound, x

-----------------------------------------------------------------------------
(* What a fetch can be refused for. *)

QueryServed(answer, s, p) ==
  \/ answer.error \in {"none", "QueryValidationFailure"}
  \/ answer.error = "Panic" /\ Overflows(p)
  \/ answer.error = "SqlFailure" /\ p.search # <<>>
       /\ ("id" \notin Columns(s) \/ p.search[1] \cap Malformed # {})

LEMMA QueryIsServed ==
    ASSUME NEW s, NEW p, ~ FieldsPanic(s, p.fields), Bindable(p.filter, s),
           NEW table, NEW way, NEW answer, answer = Query(s, p, table, way)
    PROVE  QueryServed(answer, s, p)
<1>. DEFINE fault == QueryFault(s, p, way)
            rows == Page(p.page, Ordered(s, p.sort, Where(s, p, table)))
<1>1. answer.error = fault
  <2>1. answer = IF fault # "none" THEN Refusal(fault) ELSE Answer(Selected(rows, ColumnsFor(s, p.fields)))
    BY Zenon DEF Query
  <2>. HIDE DEF fault, rows
  <2>. QED BY <2>1 DEF Refusal, Answer
<1>2. WhereFault(s, p) \in {"none", "QueryValidationFailure"}
  BY DEF WhereFault, Bindable
<1>3. JoinFault(s, p) \in {"none", "QueryValidationFailure"}
  BY DEF JoinFault
<1>4. SqlRefuses(s, p, way) => p.search # <<>> /\ ("id" \notin Columns(s) \/ p.search[1] \cap Malformed # {})
  BY DEF SqlRefuses, Bindable, Fits
<1>5. fault = IF JoinFault(s, p) # "none" THEN JoinFault(s, p)
              ELSE IF WhereFault(s, p) # "none" THEN WhereFault(s, p)
              ELSE IF Overflows(p) /\ ~ way.wraps THEN "Panic"
              ELSE IF SqlRefuses(s, p, way) THEN "SqlFailure"
              ELSE "none"
  BY DEF QueryFault
<1>. HIDE DEF fault
<1>. QED BY <1>1, <1>2, <1>3, <1>4, <1>5 DEF QueryServed

FindServed(answer, s) ==
  \/ answer.error \in {"none", "RecordNotFound"}
  \/ answer.error = "SqlFailure" /\ "id" \notin Columns(s)

LEMMA FindIsServed ==
    ASSUME NEW s, NEW id, NEW fields, ~ FieldsPanic(s, fields), NEW table,
           NEW answer, answer = Find(s, id, fields, table)
    PROVE  FindServed(answer, s)
<1>. DEFINE found == {row \in table : row["id"] = id}
            rows == Selected(<<CHOOSE x \in found : TRUE>>, ColumnsFor(s, fields))
<1>1. answer = IF FieldsPanic(s, fields) THEN Refusal("Panic")
               ELSE IF "id" \notin Columns(s) THEN Refusal("SqlFailure")
               ELSE IF found = {} THEN Refusal("RecordNotFound")
               ELSE Answer(rows)
  BY Zenon DEF Find
<1>. HIDE DEF found, rows
<1>. QED BY <1>1 DEF Refusal, Answer, FindServed

\* A condition on a unique column leaves one row at most, whatever else is asked.
LEMMA OneRowAtMost ==
    ASSUME NEW byName, Closed(byName), NEW tables, KeptAll(byName, tables), NEW m \in DOMAIN byName,
           NEW column \in Unique(byName[m], byName), NEW value, value # Null,
           NEW p, Complete(p), SortedBy(p.sort, byName[m]), NEW way,
           NEW q, q = Scoped(p, column, value),
           NEW answer, answer = Query(byName[m], q, tables[m], way), answer.error = "none"
    PROVE  Len(answer.rows) <= 1 /\ Len(answer.rows) \in Nat
<1>1. Complete(q) /\ SortedBy(q.sort, byName[m]) /\ PageIs(q.page)
  BY ScopedStays DEF Complete
<1>2. PICK rows : ReadOf(answer, byName[m], q.fields, rows, tables[m]) /\ Lists(rows, Where(byName[m], q, tables[m]))
  BY <1>1, QueryReads
<1>. DEFINE found == Where(byName[m], q, tables[m])
            mine == [op |-> "eq", operand |-> {value}]
<1>3. mine \in q.filter[column] /\ column \in DOMAIN q.filter
  <2>. DEFINE others == IF column \in DOMAIN p.filter THEN p.filter[column] ELSE {}
  <2>. HIDE DEF mine, others
  <2>1. q = [p EXCEPT !.filter = Put(@, column, others \cup {mine})]
    BY DEF Scoped, mine, others
  <2>2. q.filter = Put(p.filter, column, others \cup {mine})
    BY <2>1 DEF Complete
  <2>. QED BY <2>2 DEF Put
<1>4. \A u \in found : u \in tables[m] /\ u[column] = value
  <2>1. \A u \in found : u \in tables[m] /\ Satisfies(u[column], mine)
    <3>. HIDE DEF mine
    <3>. QED BY <1>3 DEF Where
  <2>2. \A u : Satisfies(u[column], mine) => u[column] = value
    BY DEF Satisfies
  <2>. HIDE DEF found, mine
  <2>. QED BY <2>1, <2>2
<1>5. \A x, y \in tables[m] : x[column] = y[column] /\ x[column] # Null => x = y
  BY RowsAre
<1>. HIDE DEF found
<1>6. rows \in Seq(found) /\ (\A i, j \in 1..Len(rows) : rows[i] = rows[j] => i = j) /\ Lists(rows, found)
  BY <1>2 DEF Lists, found
<1>7. Len(rows) \in Nat /\ DOMAIN rows = 1..Len(rows) /\ \A i \in 1..Len(rows) : rows[i] \in found
  BY <1>6
<1>8. Len(rows) <= 1
  <2>. SUFFICES ASSUME Len(rows) > 1 PROVE FALSE
    BY <1>7
  <2>1. 1 \in 1..Len(rows) /\ 2 \in 1..Len(rows)
    BY <1>7
  <2>2. rows[1] = rows[2]
    BY <1>4, <1>5, <1>7, <2>1
  <2>. QED BY <1>6, <2>1, <2>2
<1>9. Len(answer.rows) = Len(rows)
  <2>. DEFINE xs == Selected(rows, ColumnsFor(byName[m], q.fields))
  <2>1. answer.rows = xs
    BY <1>2 DEF ReadOf
  <2>2. DOMAIN xs = 1..Len(rows) /\ xs = [i \in 1..Len(rows) |-> xs[i]]
    BY <1>7 DEF Selected
  <2>. HIDE DEF xs
  <2>3. Len(xs) = Len(rows)
    BY <1>7, <2>2, FunctionIsSequence
  <2>. QED BY <2>1, <2>3
<1>. QED BY <1>7, <1>8, <1>9

LEMMA ParsedIsPlanned ==
    ASSUME NEW byName, Closed(byName), NEW p, NEW query, NEW s, ParsedIs(p, query, s, byName)
    PROVE  Planned(p.fields, p.models, byName) /\ s.name \in p.models
<1>1. PICK fields : FieldsRead(fields, query, byName, Len(query)) /\ p.fields = DiscoverFields(fields, p.models, byName)
  BY DEF ParsedIs
<1>2. p.models \subseteq DOMAIN byName /\ s.name \in p.models
  BY DEF ParsedIs, Reading
<1>3. DOMAIN fields \subseteq DOMAIN byName /\ \A m \in DOMAIN fields : fields[m] \subseteq Fields(byName[m])
  BY <1>1 DEF FieldsRead
<1>. DEFINE models == p.models
<1>. HIDE DEF models
<1>4. Planned(DiscoverFields(fields, models, byName), models, byName)
  BY <1>2, <1>3, DiscoveryPlans DEF models
<1>. QED BY <1>1, <1>2, <1>4 DEF models

LEMMA NewIsPlanned ==
    ASSUME NEW byName, Closed(byName), NEW m \in DOMAIN byName,
           NEW fields, fields = DiscoverFields(<<>>, {m}, byName)
    PROVE  /\ Planned(fields, {m}, byName)
           /\ m \in DOMAIN fields /\ Fields(byName[m]) \subseteq fields[m]
<1>. DEFINE none == <<>>
            models == {m}
            pinned == Over(none, [n \in models |-> Fields(byName[n])])
            joins == UNION {Relationships(byName[n]) : n \in models}
<1>1. DOMAIN none = {} /\ models \subseteq DOMAIN byName
  OBVIOUS
<1>2. m \in DOMAIN pinned /\ pinned[m] = Fields(byName[m])
  <2>. HIDE DEF none
  <2>. QED BY <1>1 DEF Over
<1>3. fields = DiscoverFields(none, models, byName)
  OBVIOUS
<1>4. Planned(fields, models, byName)
  <2>. HIDE DEF none, models
  <2>. QED BY <1>1, <1>3, DiscoveryPlans
<1>5. m \in DOMAIN fields /\ Fields(byName[m]) \subseteq fields[m]
  <2>1. fields = [n \in DOMAIN pinned \cup {r.resource : r \in joins} |->
                    FieldsOf(pinned, n) \cup {r.related : r \in {j \in joins : j.resource = n}}]
    BY <1>3 DEF DiscoverFields
  <2>. HIDE DEF pinned, joins, none, models
  <2>. QED BY <1>2, <2>1 DEF FieldsOf
<1>. QED BY <1>4, <1>5

\* The fieldset that asks for one column, and the one that asks for none.
LEMMA NarrowFields ==
    ASSUME NEW s, NEW columns \in SUBSET Columns(s), NEW fields, fields = Put(<<>>, s.name, columns)
    PROVE  /\ ~ FieldsPanic(s, fields) /\ columns \subseteq ColumnsFor(s, fields)
           /\ DOMAIN fields = {s.name} /\ fields[s.name] = columns
<1>. DEFINE none == <<>>
<1>1. DOMAIN none = {} /\ fields = Put(none, s.name, columns)
  OBVIOUS
<1>. HIDE DEF none
<1>2. DOMAIN fields = {s.name} /\ fields[s.name] = columns
  BY <1>1 DEF Put
<1>. QED BY <1>2 DEF FieldsPanic, ColumnsFor

\* With such a fieldset and nothing included, only a relationship that is named
\* like one of the columns is loaded.
LEMMA NarrowLoads ==
    ASSUME NEW s, Declarable(s), NEW columns, NEW fields, DOMAIN fields = {s.name}, fields[s.name] = columns,
           NEW pending, pending = RelationshipsToLoad(s, fields, {}), pending # <<>>
    PROVE  \E r \in Relationships(s) : r.name \in columns
<1>1. pending \in Seq(Relationships(s)) /\ \A i \in 1..Len(pending) : ShouldLoad(fields, {}, s.name, pending[i].name)
  BY ToLoadIs
<1>2. 1 \in 1..Len(pending) /\ pending[1] \in Relationships(s)
  <2>1. Len(pending) \in Nat /\ Len(pending) # 0
    BY <1>1
  <2>. QED BY <1>1, <2>1
<1>3. pending[1].name \in columns
  BY <1>1, <1>2 DEF ShouldLoad, IsRequested, IsIncluded, FieldsOf
<1>. QED BY <1>2, <1>3

\* Everything read of a parent is its own key too, but for a relationship that is
\* named like another.
LEMMA EverythingHasTheKey ==
    ASSUME NEW byName, Closed(byName), NEW m \in DOMAIN byName, NEW r \in Relationships(byName[m]),
           r.name \notin Columns(byName[m]) \ {r.own},
           NEW fields, m \in DOMAIN fields, Fields(byName[m]) \subseteq fields[m]
    PROVE  r.own \in ColumnsFor(byName[m], fields)
<1>. DEFINE s == byName[m]
<1>1. s.name = m /\ Declarable(s)
  BY DEF Closed
<1>2. Relationship(s, r.name) = r /\ r.name \in Fields(s)
  BY <1>1, RelationshipIs DEF Fields
<1>. HIDE DEF s
<1>3. r.name \in fields[s.name] /\ (r.name \in Columns(s) => r.name = r.own)
  BY <1>1, <1>2 DEF s
<1>4. r.own \in {IF f \in Columns(s) THEN f ELSE Relationship(s, f).own : f \in fields[s.name]}
  BY <1>2, <1>3
<1>5. r.own \in ColumnsFor(s, fields)
  BY <1>4 DEF ColumnsFor
<1>. QED BY <1>5 DEF s

-----------------------------------------------------------------------------
(* No accepted read fails. *)

\* Linkage that is to be spared plays no part in a load.
LEMMA SparedLoads ==
    ASSUME NEW byName, Closed(byName), NEW tables, KeptAll(byName, tables), NEW m \in DOMAIN byName,
           NEW spared, NEW records, Records(records, m), AllFaithfulBut(records, spared, byName, tables),
           NEW r \in Relationships(byName[m]), NEW fields, NEW include,
           NEW loaded, loaded = LoadRelated(byName[m], byName[r.resource], r, records, fields, include,
                                            tables[r.resource])
    PROVE  Loads(loaded, records, m, r, fields, byName, tables)
<1>. DEFINE bared == Bared(records)
            other == LoadRelated(byName[m], byName[r.resource], r, bared, fields, include, tables[r.resource])
<1>1. /\ Records(bared, m) /\ Len(bared) = Len(records)
      /\ \A i \in 1..Len(records) :
           /\ bared[i].kind = records[i].kind /\ bared[i].id = records[i].id
           /\ bared[i].columns = records[i].columns /\ bared[i].relationships = <<>>
  <2>1. BareOf(bared, records, m)
    BY BaredIs
  <2>. QED BY <2>1 DEF BareOf
<1>2. Adds(loaded, other, records, r)
  <2>. DEFINE s == byName[m]
              target == byName[r.resource]
              table == tables[r.resource]
  <2>. HIDE DEF s, target, table
  <2>1. /\ loaded = LoadRelated(s, target, r, records, fields, include, table)
        /\ other = LoadRelated(s, target, r, Bared(records), fields, include, table)
    BY DEF s, target, table
  <2>. HIDE DEF other
  <2>. QED BY <2>1, LoadAdds
<1>. HIDE DEF bared
<1>3. AllFaithful(bared, byName, tables) /\ AllInOrder(bared)
  <2>1. ASSUME NEW i \in 1..Len(records) PROVE Faithful(bared[i], byName, tables) /\ InOrder(bared[i])
    <3>1. FaithfulBut(records[i], spared, byName, tables)
      BY DEF AllFaithfulBut
    <3>2. DOMAIN bared[i].relationships = {}
      BY <1>1
    <3>. QED BY <1>1, <3>1, <3>2 DEF FaithfulBut, TrueBut, Faithful, TrueTo, InOrder
  <2>. QED BY <1>1, <2>1 DEF AllFaithful, AllInOrder
<1>4. Loads(other, bared, m, r, fields, byName, tables)
  <2>. HIDE DEF other
  <2>1. other = LoadRelated(byName[m], byName[r.resource], r, bared, fields, include, tables[r.resource])
    BY DEF other
  <2>. QED BY <1>1, <1>3, <2>1, RelatedLoads
<1>. HIDE DEF other
<1>5. loaded.error = other.error /\ loaded.related = other.related
  BY <1>2 DEF Adds
<1>6. ASSUME loaded.error = "none", AllInOrder(records) PROVE AllInOrder(loaded.records)
  <2>1. ASSUME NEW i \in 1..Len(records) PROVE InOrder(loaded.records[i])
    <3>. DEFINE was == records[i]
                now == loaded.records[i]
                added == other.records[i]
    <3>1. /\ DOMAIN now.relationships = DOMAIN was.relationships \cup DOMAIN added.relationships
          /\ \A name \in DOMAIN now.relationships :
               now.relationships[name] = IF name \in DOMAIN added.relationships
                                         THEN added.relationships[name] ELSE was.relationships[name]
      BY <1>2, <1>5, <1>6 DEF Adds
    <3>2. InOrder(was) /\ InOrder(added)
      <4>1. Len(other.records) = Len(records)
        BY <1>2, <1>5, <1>6 DEF Adds
      <4>2. AllInOrder(other.records)
        BY <1>3, <1>4, <1>5, <1>6 DEF Loads
      <4>. QED BY <1>6, <4>1, <4>2 DEF AllInOrder
    <3>. HIDE DEF was, now, added
    <3>. QED BY <3>1, <3>2 DEF InOrder, now
  <2>2. Len(loaded.records) = Len(records)
    BY <1>2, <1>5, <1>6 DEF Adds
  <2>. QED BY <2>1, <2>2 DEF AllInOrder
<1>. QED BY <1>4, <1>5, <1>6 DEF Loads

\* The relationships still to be loaded have their join key among the fields.
Ready(pending, fields, byName) ==
  \A i \in 1..Len(pending) :
    LET r == pending[i] IN
    ~ FieldsPanic(byName[r.resource], fields) /\ r.related \in fields[r.resource]

\* The parent has the key that its relationship is followed by.
OwnKeyRead(x) == Has(Schema, x, Descriptor.own) \/ NamedLikeAnotherKey

\* The one record is the parent, and nothing below it is included.
ParentLoads(fs, fields) ==
  /\ Len(fs) = 1 /\ fs[1].include = {}
  /\ Len(fs[1].records) = 1 /\ OwnKeyRead(fs[1].records[1])
  /\ Ready(fs[1].pending, fields, reg) \/ NamedLikeItsKey

\* A document of at most one resource, by the kind of its relationship.
ToOne == request.kind \in {"related", "linkage"} /\ ~ ToMany

\* The first frame is the primary data.
PrimaryLoads(fs) ==
  /\ request.kind = "linkage" => Len(fs) = 1 /\ fs[1].pending = <<>>
  /\ ToOne => Len(fs[1].records) <= 1

\* Every copy lists the ids it is linked to in one order.
InOrderLoading(fs, c) ==
  /\ \A i \in 1..Len(fs) : AllInOrder(fs[i].records)
  /\ CacheInOrder(c)

\* What each phase of an accepted request hands to the next.
Underway ==
  /\ phase \in {"parent", "loading parent"} => request.kind \in {"related", "linkage"}
  /\ phase \in {"parsing", "querying"} /\ request.kind \in {"related", "linkage"} => OwnKeyRead(parent)
  /\ phase = "querying" /\ request.kind # "linkage" => Bindable(parameters.filter, Target)
  /\ phase = "loading parent" => ParentLoads(stack, parameters.fields)
  /\ phase = "loading" => PrimaryLoads(stack)
  /\ Loading => InOrderLoading(stack, cache)

ServedInv == Underway /\ AcceptedQueriesAreServed

\* What a request may be refused with.
Allowed(error) ==
  \/ error \in Answerable
  \/ error = "Panic" /\ (Overflowing \/ NamedLikeItsKey)
  \/ error = "DataLoadingError" /\ NamedLikeItsKey
  \/ error = "UnloadedAttributeAccess" /\ NamedLikeAnotherKey
  \/ error = "SqlFailure" /\ (NoColumnCalledId \/ MalformedSearch \/ SendsNothing \/ BeyondVariables)

LEMMA InputOperatorsStay ==
    ASSUME UNCHANGED input
    PROVE  /\ UNCHANGED <<ToMany, ToOne, NamedLikeItsKey, NamedLikeAnotherKey>>
           /\ \A x : OwnKeyRead(x)' <=> OwnKeyRead(x)
BY InputStays DEF ToMany, ToOne, NamedLikeItsKey, NamedLikeAnotherKey, OwnKeyRead

LEMMA RefuseIsServed ==
    ASSUME UNCHANGED input, NEW error, Refuse(error), Allowed(error)
    PROVE  ServedInv'
<1>1. phase' = "done" /\ reply'.error = error /\ UNCHANGED <<parameters, db>>
  BY DEF Refuse, Unanswered
<1>2. Underway'
  BY <1>1 DEF Underway, Loading
<1>3. UNCHANGED <<NamedLikeItsKey, NamedLikeAnotherKey, Overflowing, NoColumnCalledId,
                  MalformedSearch, SendsNothing, BeyondVariables>>
  BY <1>1, InputStays, InputOperatorsStay
     DEF Overflowing, NoColumnCalledId, MalformedSearch, SendsNothing, BeyondVariables, SentColumns, LinkedBy
<1>4. AcceptedQueriesAreServed'
  <2>1. Allowed(error)
    OBVIOUS
  <2>. QED BY <1>1, <1>3, <2>1 DEF AcceptedQueriesAreServed, Allowed, Answerable
<1>. QED BY <1>2, <1>4 DEF ServedInv

LEMMA AnswerIsServed ==
    ASSUME UNCHANGED input, phase' = "done", reply'.error = "none"
    PROVE  ServedInv'
<1>1. Underway'
  BY DEF Underway, Loading
<1>2. AcceptedQueriesAreServed'
  BY DEF AcceptedQueriesAreServed, Answerable
<1>. QED BY <1>1, <1>2 DEF ServedInv

LEMMA StepIsServed ==
    ASSUME UNCHANGED input, phase' # "done", Underway'
    PROVE  ServedInv'
<1>1. AcceptedQueriesAreServed'
  BY DEF AcceptedQueriesAreServed
<1>. QED BY <1>1 DEF ServedInv

LEMMA InitServed == Init => ServedInv
<1>. SUFFICES ASSUME Init PROVE ServedInv
  OBVIOUS
<1>1. phase = "declared"
  BY Zenon DEF Init
<1>. QED BY <1>1 DEF ServedInv, Underway, AcceptedQueriesAreServed, Loading

LEMMA TryBuildServed == ASSUME TryBuild PROVE ServedInv'
<1>1. CASE ~ Consistent(schemas)
  <2>1. Allowed("InconsistentSchema") /\ Refuse("InconsistentSchema") /\ UNCHANGED input
    BY <1>1 DEF TryBuild, Allowed, Answerable
  <2>. QED BY <2>1, RefuseIsServed
<1>2. CASE Consistent(schemas)
  <2>1. /\ UNCHANGED input
        /\ phase' = IF request.kind \in {"related", "linkage"} THEN "parent" ELSE "parsing"
    BY <1>2 DEF TryBuild
  <2>2. Underway'
    BY <2>1, InputStays DEF Underway, Loading
  <2>. QED BY <2>1, <2>2, StepIsServed
<1>. QED BY <1>1, <1>2

\* What a fetch puts on the stack.
Started(fs, c, s, xs, p) ==
  /\ Len(fs) = 1 /\ fs[1].records = xs /\ fs[1].include = p.include
  /\ fs[1].pending \in {<<>>, RelationshipsToLoad(s, p.fields, p.include)}
  /\ InOrderLoading(fs, c)

LEMMA AnswerStarts ==
    ASSUME NEW s, NEW p, NEW answer, answer.error = "none", NEW rows, rows \in Seq(ToSet(rows)),
           answer.rows = Selected(rows, ColumnsFor(s, p.fields)),
           NEW next, LoadAnswer(s, answer, p, next)
    PROVE  /\ phase' = next /\ parameters' = p /\ UNCHANGED <<db, parent, reply>>
           /\ Started(stack', cache', s, Reads(s, rows, p.fields), p)
           /\ Len(Reads(s, rows, p.fields)) = Len(answer.rows)
<1>. DEFINE xs == Reads(s, rows, p.fields)
            toLoad == RelationshipsToLoad(s, p.fields, p.include)
            first == Frame(s, xs, p.fields, p.include)
            f == IF xs = <<>> THEN [first EXCEPT !.pending = <<>>] ELSE first
<1>1. /\ phase' = next /\ parameters' = p /\ UNCHANGED <<db, parent, reply>>
      /\ StartLoading(s, xs, p)
  BY DEF LoadAnswer, Reads
<1>2. stack' = <<f>> /\ cache' = <<>>
  BY <1>1 DEF StartLoading
<1>3. f.records = xs /\ f.include = p.include /\ f.pending \in {<<>>, toLoad}
  <2>1. first = [schema |-> s.name, include |-> p.include, records |-> xs, pending |-> toLoad]
    BY DEF Frame
  <2>. HIDE DEF first, xs, toLoad
  <2>. QED BY <2>1
<1>4. Fresh(xs) /\ Len(xs) = Len(rows) /\ Len(rows) \in Nat
  <2>1. Len(xs) = Len(rows) /\ \A i \in 1..Len(rows) : xs[i] = FromRow(s, Restrict(rows[i], ColumnsFor(s, p.fields)))
    BY ReadsAre
  <2>2. \A row : FromRow(s, row).relationships = <<>>
    BY DEF FromRow
  <2>. HIDE DEF xs
  <2>. QED BY <2>1, <2>2 DEF Fresh
<1>5. Len(answer.rows) = Len(rows)
  <2>. DEFINE ys == Selected(rows, ColumnsFor(s, p.fields))
  <2>1. DOMAIN ys = 1..Len(rows) /\ ys = [i \in 1..Len(rows) |-> ys[i]]
    <3>1. DOMAIN rows = 1..Len(rows)
      OBVIOUS
    <3>. QED BY <3>1 DEF Selected
  <2>. HIDE DEF ys
  <2>2. Len(ys) = Len(rows)
    BY <1>4, <2>1, FunctionIsSequence
  <2>. QED BY <2>2 DEF ys
<1>. HIDE DEF f, xs, toLoad
<1>6. Len(stack') = 1 /\ stack'[1] = f
  BY <1>2
<1>7. InOrderLoading(stack', cache')
  <2>1. AllInOrder(xs)
    BY <1>4, FreshIsInOrder
  <2>. QED BY <1>2, <1>3, <1>6, <2>1 DEF InOrderLoading, CacheInOrder
<1>8. Started(stack', cache', s, xs, p)
  BY <1>3, <1>6, <1>7 DEF Started, toLoad
<1>. QED BY <1>1, <1>4, <1>5, <1>8 DEF xs

LEMMA PlannedIsReady ==
    ASSUME NEW byName, NEW fields, NEW models, Planned(fields, models, byName), NEW m \in models,
           NEW pending, pending \in Seq(Relationships(byName[m]))
    PROVE  Ready(pending, fields, byName)
<1>1. \A i \in 1..Len(pending) : pending[i] \in Relationships(byName[m])
  OBVIOUS
<1>. QED BY <1>1 DEF Planned, Ready

ParentFields(p) ==
  /\ p.include = {} /\ ~ FieldsPanic(Schema, p.fields)
  /\ Descriptor.own \in ColumnsFor(Schema, p.fields) \/ NamedLikeAnotherKey
  /\ Ready(RelationshipsToLoad(Schema, p.fields, {}), p.fields, reg) \/ NamedLikeItsKey

LEMMA ParentIsPlanned ==
    ASSUME Given, Consistent(schemas), request.kind \in {"related", "linkage"},
           NEW p, p = IF request.kind = "linkage" THEN New(Schema, reg)
                      ELSE Asking(Schema, reg, Put(<<>>, Schema.name, {Descriptor.own}))
    PROVE  ParentFields(p)
<1>. DEFINE m == Schema.name
            r == Descriptor
            s == Schema
<1>1. /\ Closed(reg) /\ m \in DOMAIN reg /\ reg[m] = s /\ r \in Relationships(reg[m])
      /\ s.name = m /\ Declarable(s)
  <2>1. Closed(reg) /\ m \in DOMAIN reg /\ reg[m] = s /\ r \in Relationships(reg[m])
    BY RegistryIsClosed, TargetsAre
  <2>. QED BY <2>1 DEF Closed
<1>2. CASE request.kind = "linkage"
  <2>. DEFINE fields == DiscoverFields(<<>>, {m}, reg)
              models == {m}
              pending == RelationshipsToLoad(s, fields, {})
  <2>1. p.fields = fields /\ p.include = {}
    BY <1>2 DEF New, Blank
  <2>2. Planned(fields, models, reg) /\ m \in DOMAIN fields /\ Fields(reg[m]) \subseteq fields[m]
    <3>. HIDE DEF m
    <3>. QED BY <1>1, NewIsPlanned
  <2>. HIDE DEF fields
  <2>3. ~ FieldsPanic(s, fields)
    BY <1>1, <2>2 DEF Planned
  <2>4. r.name \in Columns(s) \ {r.own} => NamedLikeAnotherKey
    BY <1>2 DEF NamedLikeAnotherKey
  <2>5. r.own \in ColumnsFor(s, fields) \/ NamedLikeAnotherKey
    <3>. HIDE DEF m, r, s
    <3>1. r.name \notin Columns(reg[m]) \ {r.own} => r.own \in ColumnsFor(reg[m], fields)
      BY <1>1, <2>2, EverythingHasTheKey
    <3>. QED BY <1>1, <2>4, <3>1
  <2>6. Ready(pending, fields, reg)
    <3>. HIDE DEF m, s
    <3>1. pending \in Seq(Relationships(reg[m]))
      BY <1>1, ToLoadIs
    <3>. HIDE DEF pending, models
    <3>2. m \in models
      BY DEF models
    <3>. QED BY <2>2, <3>1, <3>2, PlannedIsReady
  <2>. QED BY <2>1, <2>3, <2>5, <2>6 DEF ParentFields
<1>3. CASE request.kind # "linkage"
  <2>. DEFINE columns == {r.own}
              fields == Put(<<>>, s.name, columns)
              pending == RelationshipsToLoad(s, fields, {})
  <2>1. p.fields = fields /\ p.include = {} /\ request.kind = "related"
    BY <1>3 DEF Asking, New, Blank
  <2>2. columns \in SUBSET Columns(s)
    <3>. HIDE DEF m, r, s
    <3>1. r.own \in Columns(reg[m])
      BY <1>1, OwnIsColumn
    <3>. QED BY <1>1, <3>1
  <2>3. /\ ~ FieldsPanic(s, fields) /\ columns \subseteq ColumnsFor(s, fields)
        /\ DOMAIN fields = {s.name} /\ fields[s.name] = columns
    <3>1. fields = Put(<<>>, s.name, columns)
      OBVIOUS
    <3>. HIDE DEF fields, columns, s
    <3>. QED BY <2>2, <3>1, NarrowFields
  <2>4. Ready(pending, fields, reg) \/ NamedLikeItsKey
    <3>1. CASE pending = <<>>
      <4>. HIDE DEF pending, fields
      <4>. QED BY <3>1 DEF Ready
    <3>2. CASE pending # <<>>
      <4>. HIDE DEF pending, fields, columns, s
      <4>1. \E q \in Relationships(s) : q.name \in columns
        <5>1. pending = RelationshipsToLoad(s, fields, {})
          BY DEF pending
        <5>. QED BY <1>1, <2>3, <3>2, <5>1, NarrowLoads
      <4>. QED BY <2>1, <4>1 DEF NamedLikeItsKey, columns, s
    <3>. QED BY <3>1, <3>2
  <2>5. r.own \in ColumnsFor(s, fields)
    BY <2>3
  <2>. QED BY <2>1, <2>3, <2>4, <2>5 DEF ParentFields
<1>. QED BY <1>2, <1>3

LEMMA FetchParentServed == ASSUME TypeInv, TruthInv, ServedInv, FetchParent PROVE ServedInv'
<1>. DEFINE p == IF request.kind = "linkage" THEN New(Schema, reg)
                 ELSE Asking(Schema, reg, Put(<<>>, Schema.name, {Descriptor.own}))
            table == db[Schema.name]
            answer == Find(Schema, request.id, p.fields, table)
            next == "loading parent"
<1>1. UNCHANGED input /\ LoadAnswer(Schema, answer, p, next) /\ phase = "parent"
  BY DEF FetchParent
<1>2. Consistent(schemas) /\ Given
  BY <1>1 DEF TypeInv
<1>3. request.kind \in {"related", "linkage"} /\ ParentFields(p)
  <2>1. request.kind \in {"related", "linkage"}
    BY <1>1 DEF ServedInv, Underway
  <2>. QED BY <1>2, <2>1, ParentIsPlanned
<1>. HIDE DEF p
<1>4. FindServed(answer, Schema)
  <2>. DEFINE fields == p.fields
              id == request.id
  <2>1. answer = Find(Schema, id, fields, table) /\ ~ FieldsPanic(Schema, fields)
    BY <1>3 DEF ParentFields
  <2>. HIDE DEF fields, id, table, answer
  <2>. QED BY <2>1, FindIsServed
<1>5. CASE answer.error # "none"
  <2>. DEFINE error == answer.error
  <2>1. Refuse(error)
    BY <1>1, <1>5 DEF LoadAnswer
  <2>2. Allowed(error)
    <3>. HIDE DEF answer
    <3>. QED BY <1>3, <1>4, <1>5 DEF FindServed, Allowed, Answerable, NoColumnCalledId
  <2>. HIDE DEF error
  <2>. QED BY <1>1, <2>1, <2>2, RefuseIsServed
<1>6. CASE answer.error = "none"
  <2>1. phase' = next
    BY <1>1, <1>6 DEF LoadAnswer
  <2>2. Underway'
    <3>0. Closed(reg) /\ Schema.name \in DOMAIN reg /\ reg[Schema.name] = Schema /\ KeptAll(reg, db)
      BY <1>2, RegistryIsClosed, TargetsAre DEF TruthInv
    <3>1. PICK row \in table : ReadOf(answer, Schema, p.fields, <<row>>, table)
      <4>. DEFINE fields == p.fields
                  id == request.id
      <4>1. answer = Find(Schema, id, fields, table)
        OBVIOUS
      <4>. HIDE DEF fields, table, id, answer
      <4>2. \E row \in table : row["id"] = id /\ ReadOf(answer, Schema, fields, <<row>>, table)
        BY <1>6, <4>1, FindReads
      <4>. QED BY <4>2 DEF fields
    <3>. DEFINE rows == <<row>>
                s == Schema
                fields == p.fields
                xs == Reads(s, rows, fields)
    <3>2. /\ rows \in Seq(ToSet(rows)) /\ answer.rows = Selected(rows, ColumnsFor(s, fields))
          /\ Len(rows) = 1 /\ rows[1] = row
      <4>1. rows \in Seq({row}) /\ Len(rows) = 1 /\ rows[1] = row
        OBVIOUS
      <4>2. row \in ToSet(rows)
        BY DEF ToSet
      <4>3. rows \in Seq(ToSet(rows))
        BY <4>2
      <4>. QED BY <3>1, <4>1, <4>3 DEF ReadOf
    <3>. HIDE DEF answer, rows
    <3>3. /\ phase' = next /\ parameters' = p
          /\ Started(stack', cache', s, xs, p)
      <4>1. /\ LoadAnswer(s, answer, p, next) /\ answer.error = "none" /\ rows \in Seq(ToSet(rows))
            /\ answer.rows = Selected(rows, ColumnsFor(s, p.fields)) /\ xs = Reads(s, rows, p.fields)
        BY <1>1, <1>6, <3>2
      <4>. HIDE DEF s, next, xs, fields
      <4>. QED BY <4>1, AnswerStarts
    <3>4. Len(xs) = 1 /\ xs[1] = FromRow(s, Restrict(row, ColumnsFor(s, fields)))
      <4>. HIDE DEF s, fields, xs
      <4>. QED BY <3>2, ReadsAre DEF xs
    <3>5. DOMAIN xs[1].columns = ColumnsFor(s, fields) \ {s.key.name}
      <4>. DEFINE m == s.name
                  x == xs[1]
      <4>1. /\ m \in DOMAIN reg /\ ~ FieldsPanic(reg[m], fields) /\ row \in db[m]
            /\ x = FromRow(reg[m], Restrict(row, ColumnsFor(reg[m], fields)))
        BY <1>3, <3>0, <3>1, <3>4 DEF ParentFields
      <4>. HIDE DEF m, x, fields
      <4>2. DOMAIN x.columns = ColumnsFor(reg[m], fields) \ {reg[m].key.name}
        BY <3>0, <4>1, RecordReads
      <4>. QED BY <3>0, <4>2 DEF m, x
    <3>6. OwnKeyRead(xs[1])
      BY <1>3, <3>5 DEF ParentFields, OwnKeyRead, Has
    <3>. HIDE DEF xs, fields
    <3>7. ParentLoads(stack', fields)
      <4>1. /\ Len(stack') = 1 /\ stack'[1].include = {} /\ stack'[1].records = xs
            /\ stack'[1].pending \in {<<>>, RelationshipsToLoad(s, fields, {})}
        BY <1>3, <3>3 DEF Started, ParentFields, fields
      <4>2. Ready(<<>>, fields, reg)
        BY DEF Ready
      <4>3. Ready(stack'[1].pending, fields, reg) \/ NamedLikeItsKey
        BY <1>3, <4>1, <4>2 DEF ParentFields, fields
      <4>. QED BY <3>4, <3>6, <4>1, <4>3 DEF ParentLoads
    <3>8. ParentLoads(stack, parameters.fields)'
      <4>1. UNCHANGED <<reg, NamedLikeItsKey>> /\ \A x : OwnKeyRead(x)' <=> OwnKeyRead(x)
        BY <1>1, InputStays, InputOperatorsStay
      <4>. QED BY <3>3, <3>7, <4>1 DEF ParentLoads, fields
    <3>9. InOrderLoading(stack, cache)'
      BY <3>3 DEF Started, InOrderLoading
    <3>. QED BY <1>1, <1>3, <2>1, <3>8, <3>9, InputStays DEF Underway
  <2>. QED BY <1>1, <2>1, <2>2, StepIsServed
<1>. QED BY <1>5, <1>6

LEMMA ParseQueryServed == ASSUME TypeInv, ServedInv, ParseQuery PROVE ServedInv'
<1>. DEFINE p == Parse(request.query, Target, reg)
<1>1. UNCHANGED input /\ phase = "parsing"
  BY DEF ParseQuery
<1>2. Sound(p, Target)
  <2>1. Split(request.query)
    BY DEF TypeInv, Given
  <2>. QED BY <2>1, ParseIsSound
<1>. HIDE DEF p
<1>3. CASE p.error # "none"
  <2>. DEFINE error == p.error
  <2>1. Refuse(error) /\ Allowed(error)
    BY <1>2, <1>3 DEF ParseQuery, p, Sound, Refusals, Allowed, Answerable
  <2>. HIDE DEF error
  <2>. QED BY <1>1, <2>1, RefuseIsServed
<1>4. CASE p.error = "none"
  <2>1. phase' = "querying" /\ parameters' = p /\ UNCHANGED parent
    BY <1>4 DEF ParseQuery, p
  <2>2. UNCHANGED <<Target, request>> /\ \A x : OwnKeyRead(x)' <=> OwnKeyRead(x)
    BY <1>1, InputStays, InputOperatorsStay
  <2>3. Bindable(p.filter, Target)
    BY <1>2, <1>4 DEF Sound
  <2>4. Underway'
    BY <1>1, <2>1, <2>2, <2>3 DEF ServedInv, Underway, Loading
  <2>. QED BY <1>1, <2>1, <2>4, StepIsServed
<1>. QED BY <1>3, <1>4

\* The loader is at work on the primary data.
LEMMA LoadingIsServed ==
    ASSUME UNCHANGED input, phase' = "loading", PrimaryLoads(stack') /\ InOrderLoading(stack', cache')
    PROVE  ServedInv'
<1>1. UNCHANGED <<request, ToOne>>
  BY InputStays, InputOperatorsStay
<1>2. PrimaryLoads(stack)' /\ InOrderLoading(stack, cache)'
  BY <1>1 DEF PrimaryLoads, InOrderLoading
<1>3. Underway'
  BY <1>2 DEF Underway
<1>. QED BY <1>3, StepIsServed

LEMMA QueryStarts ==
    ASSUME TypeInv, Consistent(schemas), NEW s, s.name \in DOMAIN reg, reg[s.name] = s,
           NEW p, Complete(p), NEW way, NEW answer, answer = Query(s, p, db[s.name], way), answer.error = "none",
           NEW next, LoadAnswer(s, answer, p, next)
    PROVE  /\ phase' = next
           /\ \E xs : Started(stack', cache', s, xs, p) /\ Len(xs) = Len(answer.rows)
<1>. DEFINE table == db[s.name]
            fields == p.fields
<1>1. IsFiniteSet(table) /\ PageIs(p.page)
  <2>1. Registered(reg, schemas)
    BY RegistryIsClosed DEF TypeInv
  <2>2. s \in ToSet(schemas)
    BY <2>1 DEF Registered
  <2>. QED BY <2>2 DEF TypeInv, Stored, Complete
<1>2. AnswerIs(s, answer, fields)
  <2>1. answer = Query(s, p, table, way)
    OBVIOUS
  <2>. HIDE DEF table
  <2>. QED BY <1>1, <2>1, QueryIs
<1>3. PICK rows : rows \in Seq(ToSet(rows)) /\ answer.rows = Selected(rows, ColumnsFor(s, fields))
  BY <1>2 DEF AnswerIs
<1>. QED BY <1>3, AnswerStarts

LEMMA FetchCollectionServed ==
    ASSUME TypeInv, FieldsInv, ServedInv, UNCHANGED input, phase = "querying", FetchCollection
    PROVE  ServedInv'
<1>1. /\ Consistent(schemas) /\ Given /\ Complete(parameters) /\ request.kind = "index" /\ Target = Schema
  BY DEF FetchCollection, TypeInv, Target
<1>2. Schema.name \in DOMAIN reg /\ reg[Schema.name] = Schema /\ Closed(reg)
  BY <1>1, TargetsAre, RegistryIsClosed
<1>3. PICK way \in Ways(Schema, parameters, db[Schema.name]) :
        LoadAnswer(Schema, Query(Schema, parameters, db[Schema.name], way), parameters, "loading")
  BY DEF FetchCollection
<1>. DEFINE s == Schema
            p == parameters
            next == "loading"
            answer == Query(s, p, db[s.name], way)
<1>4. ~ FieldsPanic(s, p.fields)
  <2>1. ParsedIs(p, request.query, s, reg)
    BY <1>1 DEF FieldsInv
  <2>2. Planned(p.fields, p.models, reg) /\ s.name \in p.models
    <3>. DEFINE query == request.query
    <3>. HIDE DEF s, p, query
    <3>. QED BY <1>2, <2>1, ParsedIsPlanned DEF query
  <2>. QED BY <1>2, <2>2 DEF Planned
<1>5. Bindable(p.filter, s)
  BY <1>1 DEF ServedInv, Underway
<1>6. QueryServed(answer, s, p)
  <2>. DEFINE table == db[s.name]
  <2>. HIDE DEF s, p, table
  <2>. QED BY <1>4, <1>5, QueryIsServed DEF answer
<1>7. LoadAnswer(s, answer, p, next) /\ answer = Query(s, p, db[s.name], way) /\ Complete(p)
  BY <1>1, <1>3
<1>8. CASE answer.error # "none"
  <2>. DEFINE error == answer.error
  <2>1. Refuse(error)
    BY <1>3, <1>8 DEF LoadAnswer
  <2>. HIDE DEF answer
  <2>2. Allowed(error)
    <3>1. parameters # <<>>
      <4>1. DOMAIN <<>> = {}
        OBVIOUS
      <4>. QED BY <1>1, <4>1 DEF Complete
    <3>. QED BY <1>1, <1>6, <1>8, <3>1 DEF QueryServed, Allowed, Answerable, NoColumnCalledId,
                                               MalformedSearch, Overflowing
  <2>. HIDE DEF error
  <2>. QED BY <2>1, <2>2, RefuseIsServed
<1>9. CASE answer.error = "none"
  <2>. HIDE DEF answer, next, s, p
  <2>1. /\ phase' = next
        /\ \E xs : Started(stack', cache', s, xs, p) /\ Len(xs) = Len(answer.rows)
    BY <1>1, <1>2, <1>7, <1>9, QueryStarts DEF s
  <2>2. PrimaryLoads(stack') /\ InOrderLoading(stack', cache')
    BY <1>1, <2>1 DEF PrimaryLoads, ToOne, Started
  <2>. QED BY <2>1, <2>2, LoadingIsServed DEF next
<1>. QED BY <1>8, <1>9

LEMMA FetchRecordServed ==
    ASSUME TypeInv, FieldsInv, ServedInv, UNCHANGED input, phase = "querying", FetchRecord
    PROVE  ServedInv'
<1>1. /\ Consistent(schemas) /\ Given /\ Complete(parameters) /\ request.kind = "show" /\ Target = Schema
  BY DEF FetchRecord, TypeInv, Target
<1>2. Schema.name \in DOMAIN reg /\ reg[Schema.name] = Schema /\ Closed(reg)
  BY <1>1, TargetsAre, RegistryIsClosed
<1>. DEFINE s == Schema
            p == parameters
            next == "loading"
            id == request.id
            fields == p.fields
            table == db[Schema.name]
            answer == Find(s, id, fields, table)
<1>3. LoadAnswer(s, answer, p, next)
  BY DEF FetchRecord
<1>4. ~ FieldsPanic(s, fields)
  <2>1. ParsedIs(p, request.query, s, reg)
    BY <1>1 DEF FieldsInv
  <2>2. Planned(p.fields, p.models, reg) /\ s.name \in p.models
    <3>. DEFINE query == request.query
    <3>. HIDE DEF s, p, query
    <3>. QED BY <1>2, <2>1, ParsedIsPlanned DEF query
  <2>. QED BY <1>2, <2>2 DEF Planned
<1>5. FindServed(answer, s) /\ AnswerIs(s, answer, fields)
  <2>. HIDE DEF s, id, fields, table
  <2>. QED BY <1>4, FindIsServed, FindIs
<1>6. CASE answer.error # "none"
  <2>. DEFINE error == answer.error
  <2>1. Refuse(error)
    BY <1>3, <1>6 DEF LoadAnswer
  <2>. HIDE DEF answer
  <2>2. Allowed(error)
    BY <1>1, <1>5, <1>6 DEF FindServed, Allowed, Answerable, NoColumnCalledId
  <2>. HIDE DEF error
  <2>. QED BY <2>1, <2>2, RefuseIsServed
<1>7. CASE answer.error = "none"
  <2>. HIDE DEF answer, next
  <2>1. PICK rows : rows \in Seq(ToSet(rows)) /\ answer.rows = Selected(rows, ColumnsFor(s, fields))
    BY <1>5, <1>7 DEF AnswerIs
  <2>2. phase' = next /\ Started(stack', cache', s, Reads(s, rows, fields), p)
    BY <1>3, <1>7, <2>1, AnswerStarts
  <2>3. PrimaryLoads(stack') /\ InOrderLoading(stack', cache')
    BY <1>1, <2>2 DEF PrimaryLoads, ToOne, Started
  <2>. QED BY <2>2, <2>3, LoadingIsServed DEF next
<1>. QED BY <1>6, <1>7

\* What the fetch of related records relies on.
Fetchable(p) ==
  /\ Complete(p) /\ SortedBy(p.sort, Target) /\ ~ FieldsPanic(Target, p.fields)
  /\ Bindable(p.filter, Target)
  /\ p = parameters \/ (p.page = <<>> /\ p.search = <<>>)
  /\ request.kind = "linkage" => RelationshipsToLoad(Target, p.fields, p.include) = <<>>

LEMMA ScopedIsFetchable ==
    ASSUME NEW p, Fetchable(p), NEW column \in Columns(Target), NEW value, NEW q, q = Scoped(p, column, value)
    PROVE  /\ Complete(q) /\ SortedBy(q.sort, Target) /\ ~ FieldsPanic(Target, q.fields)
           /\ Bindable(q.filter, Target)
           /\ q.search = p.search /\ (Overflows(q) <=> Overflows(p))
           /\ request.kind = "linkage" => RelationshipsToLoad(Target, q.fields, q.include) = <<>>
<1>. DEFINE was == p.filter
            others == IF column \in DOMAIN was THEN was[column] ELSE {}
            mine == [op |-> "eq", operand |-> {value}]
            conditions == others \cup {mine}
            filter == Put(was, column, conditions)
<1>1. Bindable(was, Target)
  BY DEF Fetchable
<1>2. Bindable(filter, Target)
  <2>1. Fits(others)
    <3>. HIDE DEF was
    <3>. QED BY <1>1 DEF Bindable, Fits
  <2>2. Fits({mine})
    <3>1. ~ Cardinality({value}) > Variables
      BY SingleFits
    <3>2. mine.operand = {value}
      OBVIOUS
    <3>. HIDE DEF mine
    <3>. QED BY <3>1, <3>2 DEF Fits
  <2>. HIDE DEF was, others, mine
  <2>3. Fits(conditions)
    BY <2>1, <2>2 DEF Fits
  <2>. HIDE DEF conditions
  <2>. QED BY <1>1, <2>3, PutIsBindable
<1>3. q = [p EXCEPT !.filter = filter]
  BY DEF Scoped
<1>. HIDE DEF filter
<1>4. /\ Complete(q) /\ q.filter = filter /\ q.sort = p.sort /\ q.fields = p.fields /\ q.include = p.include
      /\ q.search = p.search /\ q.page = p.page
  BY <1>3 DEF Fetchable, Complete
<1>. QED BY <1>2, <1>4 DEF Fetchable, Overflows

LEMMA FetchRelatedServed ==
    ASSUME TypeInv, TruthInv, ServedInv, UNCHANGED input, phase = "querying",
           request.kind \in {"related", "linkage"}, NEW p, Fetchable(p), NEW way, FetchedBy(p, way)
    PROVE  ServedInv'
<1>1. /\ Consistent(schemas) /\ Given /\ Closed(reg) /\ Target = reg[Descriptor.resource]
      /\ Descriptor \in Relationships(Schema) /\ Schema.name \in DOMAIN reg /\ reg[Schema.name] = Schema
      /\ Target.name \in DOMAIN reg /\ reg[Target.name] = Target
  <2>1. Consistent(schemas) /\ Given
    BY DEF TypeInv
  <2>. QED BY <2>1, RegistryIsClosed, TargetsAre DEF Target
<1>2. /\ Descriptor.related \in Columns(Target)
      /\ ~ ToMany => Descriptor.related \in Unique(Target, reg)
  <2>. DEFINE r == Descriptor
              m == Schema.name
  <2>1. m \in DOMAIN reg /\ r \in Relationships(reg[m])
    BY <1>1
  <2>. HIDE DEF r, m
  <2>2. r.related \in Columns(reg[r.resource]) /\ (r.kind # "has_many" => r.related \in Unique(reg[r.resource], reg))
    BY <1>1, <2>1, OwnIsColumn
  <2>. QED BY <1>1, <2>2 DEF r, ToMany
<1>3. CASE ~ Has(Schema, parent, Descriptor.own)
  <2>. DEFINE error == "UnloadedAttributeAccess"
  <2>1. Refuse(error)
    BY <1>3 DEF FetchedBy
  <2>2. Allowed(error)
    BY <1>3 DEF ServedInv, Underway, OwnKeyRead, Allowed
  <2>. HIDE DEF error
  <2>. QED BY <2>1, <2>2, RefuseIsServed
<1>4. CASE Has(Schema, parent, Descriptor.own)
  <2>. DEFINE value == Owned(Schema, parent, Descriptor.own)
              column == Descriptor.related
              s == Target
              q == Scoped(p, column, value)
              table == db[s.name]
              answer == Query(s, q, table, way)
              next == "loading"
  <2>1. CASE value = Null
    <3>1. phase' = "done" /\ reply' = Document(<<>>, {})
      BY <1>4, <2>1 DEF FetchedBy, Respond
    <3>2. reply'.error = "none"
      BY <3>1 DEF Document
    <3>. QED BY <3>1, <3>2, AnswerIsServed
  <2>2. CASE value # Null
    <3>1. LoadAnswer(s, answer, q, next)
      BY <1>4, <2>2 DEF FetchedBy
    <3>. HIDE DEF value, column
    <3>2. /\ Complete(q) /\ SortedBy(q.sort, s) /\ ~ FieldsPanic(s, q.fields)
          /\ Bindable(q.filter, s)
          /\ q.search = p.search /\ (Overflows(q) <=> Overflows(p))
          /\ request.kind = "linkage" => RelationshipsToLoad(s, q.fields, q.include) = <<>>
      BY <1>2, ScopedIsFetchable DEF column
    <3>. HIDE DEF q
    <3>3. QueryServed(answer, s, q)
      <4>. HIDE DEF s, table
      <4>. QED BY <3>2, QueryIsServed
    <3>4. CASE answer.error # "none"
      <4>. DEFINE error == answer.error
      <4>1. Refuse(error)
        BY <3>1, <3>4 DEF LoadAnswer
      <4>. HIDE DEF answer
      <4>2. Allowed(error)
        <5>1. parameters # <<>>
          <6>1. DOMAIN <<>> = {} /\ Complete(parameters)
            BY DEF TypeInv
          <6>. QED BY <6>1 DEF Complete
        <5>2. p = parameters \/ (~ Overflows(p) /\ p.search = <<>>)
          BY DEF Fetchable, Overflows
        <5>. QED BY <3>2, <3>3, <3>4, <5>1, <5>2 DEF QueryServed, Allowed, Answerable, NoColumnCalledId,
                                                     MalformedSearch, Overflowing
      <4>. HIDE DEF error
      <4>. QED BY <4>1, <4>2, RefuseIsServed
    <3>5. CASE answer.error = "none"
      <4>1. ASSUME ~ ToMany PROVE Len(answer.rows) <= 1
        <5>1. KeptAll(reg, db)
          BY <1>1, <4>1 DEF TruthInv
        <5>2. Complete(p) /\ SortedBy(p.sort, s)
          BY DEF Fetchable
        <5>. DEFINE m == s.name
        <5>3. /\ m \in DOMAIN reg /\ column \in Unique(reg[m], reg) /\ SortedBy(p.sort, reg[m])
              /\ answer = Query(reg[m], q, db[m], way)
          BY <1>1, <1>2, <4>1, <5>2 DEF column
        <5>. HIDE DEF m, answer
        <5>4. q = Scoped(p, column, value)
          BY DEF q
        <5>. QED BY <1>1, <2>2, <3>5, <5>1, <5>2, <5>3, <5>4, OneRowAtMost
      <4>2. /\ phase' = next
            /\ \E xs : Started(stack', cache', s, xs, q) /\ Len(xs) = Len(answer.rows)
        <5>1. answer = Query(s, q, db[s.name], way) /\ s.name \in DOMAIN reg /\ reg[s.name] = s
          BY <1>1
        <5>. HIDE DEF answer, s, next
        <5>. QED BY <1>1, <3>1, <3>2, <3>5, <5>1, QueryStarts
      <4>. HIDE DEF answer, s
      <4>3. PrimaryLoads(stack') /\ InOrderLoading(stack', cache')
        BY <3>2, <4>1, <4>2 DEF PrimaryLoads, ToOne, Started
      <4>. QED BY <4>2, <4>3, LoadingIsServed
    <3>. QED BY <3>4, <3>5
  <2>. QED BY <2>1, <2>2
<1>. QED BY <1>3, <1>4

\* The columns of a row are those that were sent.
LEMMA RowIsSent ==
    ASSUME NEW x, NEW setter \in Setters(Schema, x)
    PROVE  DOMAIN RowOfDraft(Schema, x, setter) = SentColumns(x)
<1>. DEFINE s == Schema
            columns == Over(Attached(x, setter), x.columns)
<1>1. DOMAIN columns = {r.own : r \in LinkedBy(s, x)} \cup DOMAIN x.columns
  BY DEF Over, Attached, Setters
<1>2. IF x.id = Null THEN RowOfDraft(s, x, setter) = columns
      ELSE RowOfDraft(s, x, setter) = Put(columns, s.key.name, x.id)
  BY DEF RowOfDraft
<1>. HIDE DEF columns
<1>3. DOMAIN Put(columns, s.key.name, x.id) = DOMAIN columns \cup {s.key.name}
  BY DEF Put
<1>. QED BY <1>1, <1>2, <1>3 DEF SentColumns

\* What SQLite says of a batch.
LEMMA FaultIs ==
    ASSUME NEW s, NEW rows, NEW fields, NEW byName, NEW tables, NEW fault,
           fault = InsertFault(s, rows, fields, byName, tables), ~ FieldsPanic(s, fields)
    PROVE  \/ fault \in {"none", "InvalidOperation", "ConstraintViolation", "ForeignKeyViolation"}
           \/ fault = "SqlFailure" /\ \E i \in DOMAIN rows :
                \/ DOMAIN rows[i] = {}
                \/ Len(rows) * Cardinality(DOMAIN rows[i]) > Variables
<1>. DEFINE stored == Completed(s, tables[s.name], rows)
            after == [tables EXCEPT ![s.name] = @ \cup ToSet(stored)]
            taken(i, column) ==
              \/ \E row \in tables[s.name] : row[column] = stored[i][column]
              \/ \E j \in DOMAIN stored : j # i /\ stored[j][column] = stored[i][column]
            violated == \E i \in DOMAIN stored : \E column \in Unique(s, byName) :
                          stored[i][column] # Null /\ taken(i, column)
            dangling == \E i \in DOMAIN stored : ~ Resolves(s, stored[i], byName, after)
            uneven == \E i, j \in DOMAIN rows : DOMAIN rows[i] # DOMAIN rows[j]
            unfit == \E i \in DOMAIN rows : \/ DOMAIN rows[i] = {}
                                            \/ Len(rows) * Cardinality(DOMAIN rows[i]) > Variables
<1>1. fault = IF uneven THEN "InvalidOperation"
              ELSE IF FieldsPanic(s, fields) THEN "Panic"
              ELSE IF unfit THEN "SqlFailure"
              ELSE IF violated THEN "ConstraintViolation"
              ELSE IF dangling THEN "ForeignKeyViolation"
              ELSE "none"
  BY DEF InsertFault
<1>. HIDE DEF violated, dangling, uneven
<1>. QED BY <1>1

LEMMA RejectionIsAllowed ==
    ASSUME Given, Consistent(schemas), request.kind = "create", ~ FieldsPanic(Schema, parameters.fields),
           NEW setters \in AllSetters(Schema, request.batch),
           NEW fault, fault = InsertFault(Schema, RowsOf(Schema, request.batch, setters), parameters.fields, reg, db),
           fault # "none"
    PROVE  Allowed(Mapped(fault))
<1>. DEFINE batch == request.batch
            rows == RowsOf(Schema, batch, setters)
            fields == parameters.fields
            s == Schema
<1>1. \/ fault \in {"none", "InvalidOperation", "ConstraintViolation", "ForeignKeyViolation"}
      \/ fault = "SqlFailure" /\ \E i \in DOMAIN rows :
           \/ DOMAIN rows[i] = {}
           \/ Len(rows) * Cardinality(DOMAIN rows[i]) > Variables
  <2>1. fault = InsertFault(s, rows, fields, reg, db) /\ ~ FieldsPanic(s, fields)
    OBVIOUS
  <2>. HIDE DEF s, rows, fields
  <2>. QED BY <2>1, FaultIs
<1>2. DOMAIN rows = DOMAIN batch /\ Len(rows) = Len(batch)
  BY RowsAreSent DEF RowsOf
<1>3. ASSUME NEW i \in DOMAIN batch PROVE DOMAIN rows[i] = SentColumns(batch[i])
  <2>1. setters[i] \in Setters(s, batch[i]) /\ rows[i] = RowOfDraft(s, batch[i], setters[i])
    BY DEF AllSetters, RowsOf, RowOfDraft
  <2>. DEFINE x == batch[i]
              setter == setters[i]
  <2>2. setter \in Setters(s, x)
    BY <2>1
  <2>. HIDE DEF x, setter
  <2>3. DOMAIN RowOfDraft(s, x, setter) = SentColumns(x)
    BY <2>2, RowIsSent
  <2>. QED BY <2>1, <2>3 DEF x, setter
<1>. HIDE DEF rows
<1>4. fault = "SqlFailure" => SendsNothing \/ BeyondVariables
  BY <1>1, <1>2, <1>3 DEF SendsNothing, BeyondVariables
<1>. QED BY <1>1, <1>4 DEF Allowed, Mapped, Answerable

\* What was sent has an id at most for each relationship.
LEMMA DraftIsInOrder ==
    ASSUME NEW s, NEW x, Drafted(x, s)
    PROVE  InOrder(x)
<1>1. ASSUME NEW name \in DOMAIN x.relationships PROVE Rising(x.relationships[name])
  <2>. DEFINE ids == x.relationships[name]
  <2>1. ids \in Seq(Nat \ {0}) /\ Len(ids) <= 1
    BY DEF Drafted
  <2>. SUFFICES Rising(ids)
    OBVIOUS
  <2>. HIDE DEF ids
  <2>2. CASE ids = <<>>
    BY <2>2 DEF Rising
  <2>3. CASE ids # <<>>
    <3>1. ids = <<ids[1]>> /\ ids[1] \in Nat
      BY <2>1, <2>3, OneAtMost
    <3>. DEFINE id == ids[1]
    <3>2. id \in Nat /\ ids = <<id>>
      BY <3>1
    <3>. HIDE DEF id
    <3>3. <<id>> \in Seq(Nat) /\ Len(<<id>>) = 1
      BY <3>2
    <3>4. ids \in Seq(Nat) /\ Len(ids) = 1
      BY <3>2, <3>3
    <3>. QED BY <3>4 DEF Rising
  <2>. QED BY <2>2, <2>3
<1>. QED BY <1>1 DEF InOrder

LEMMA CreateServed ==
    ASSUME TypeInv, FieldsInv, TruthInv, ServedInv, UNCHANGED input, phase = "querying", CreateCollection
    PROVE  ServedInv'
<1>1. /\ Given /\ Consistent(schemas) /\ Closed(reg) /\ KeptAll(reg, db) /\ request.kind = "create"
      /\ Target = Schema
  BY RegistryIsClosed DEF TypeInv, TruthInv, CreateCollection, Target
<1>2. Schema.name \in DOMAIN reg /\ reg[Schema.name] = Schema
  BY <1>1, TargetsAre
<1>3. ~ FieldsPanic(Schema, parameters.fields)
  <2>. DEFINE p == parameters
              s == Schema
              query == request.query
  <2>1. ParsedIs(p, query, s, reg)
    BY <1>1 DEF FieldsInv
  <2>2. Planned(p.fields, p.models, reg) /\ s.name \in p.models
    <3>. HIDE DEF s, p, query
    <3>. QED BY <1>1, <2>1, ParsedIsPlanned
  <2>. QED BY <1>2, <2>2 DEF Planned
<1>4. CASE FailsToAttach /\ Refuse("RelatedRecordNotFound")
  <2>1. Allowed("RelatedRecordNotFound")
    BY DEF Allowed, Answerable
  <2>. QED BY <1>4, <2>1, RefuseIsServed
<1>5. CASE \E setters \in AllSetters(Schema, request.batch) : Rejects(setters)
  <2>1. PICK setters \in AllSetters(Schema, request.batch) : Rejects(setters)
    BY <1>5
  <2>. DEFINE fault == InsertFault(Schema, RowsOf(Schema, request.batch, setters), parameters.fields, reg, db)
              error == Mapped(fault)
  <2>2. fault # "none" /\ Refuse(error)
    BY <2>1 DEF Rejects
  <2>3. Allowed(error)
    BY <1>1, <1>3, <2>2, RejectionIsAllowed
  <2>. HIDE DEF error
  <2>. QED BY <2>2, <2>3, RefuseIsServed
<1>6. CASE ~ FailsToAttach /\ \E setters \in AllSetters(Schema, request.batch) : Stores(setters)
  <2>1. PICK setters \in AllSetters(Schema, request.batch) : Stores(setters)
    BY <1>6
  <2>. DEFINE stored == Completed(Schema, db[Schema.name], RowsOf(Schema, request.batch, setters))
              batch == request.batch
              columns == ColumnsFor(Schema, parameters.fields)
              xs == Refreshed(Schema, batch, Selected(stored, columns))
  <2>2. Creates(stored, Schema.name, db') /\ stored \in Seq(ToSet(stored)) /\ Len(stored) = Len(batch)
    BY <1>1, <1>6, <2>1, StoresIs DEF Stores
  <2>. HIDE DEF stored
  <2>3. Len(stack') = 1 /\ stack'[1].records = xs /\ cache' = <<>> /\ phase' = "loading"
    BY <2>2 DEF Creates
  <2>4. AllInOrder(xs)
    <3>1. ASSUME NEW i \in 1..Len(stored) PROVE InOrder(xs[i])
      <4>1. InOrder(batch[i])
        <5>1. i \in DOMAIN batch
          BY <1>1, <2>2, SequenceIs DEF Given
        <5>. QED BY <1>1, <5>1, BatchIsDrafted, DraftIsInOrder
      <4>2. xs[i].relationships = batch[i].relationships
        <5>1. xs[i] = [FromRow(Schema, Restrict(stored[i], columns)) EXCEPT !.relationships = batch[i].relationships]
          <6>. HIDE DEF batch, columns
          <6>. QED BY <2>2, RefreshedIs
        <5>. QED BY <5>1 DEF FromRow
      <4>. QED BY <4>1, <4>2 DEF InOrder
    <3>2. Len(xs) = Len(stored)
      <4>. HIDE DEF batch, columns
      <4>. QED BY <2>2, RefreshedIs
    <3>. QED BY <3>1, <3>2 DEF AllInOrder
  <2>. HIDE DEF xs
  <2>5. InOrderLoading(stack', cache') /\ PrimaryLoads(stack')
    BY <1>1, <2>3, <2>4 DEF InOrderLoading, CacheInOrder, PrimaryLoads, ToOne
  <2>. QED BY <2>3, <2>5, LoadingIsServed
<1>. QED BY <1>1, <1>4, <1>5, <1>6, CreateIs

LEMMA FetchServed == ASSUME TypeInv, FieldsInv, TruthInv, ServedInv, Fetch PROVE ServedInv'
<1>1. UNCHANGED input /\ phase = "querying" /\ Consistent(schemas) /\ Given /\ Complete(parameters)
  BY DEF Fetch, TypeInv
<1>2. Target.name \in DOMAIN reg /\ reg[Target.name] = Target /\ Closed(reg)
  BY <1>1, TargetsAre, RegistryIsClosed
<1>3. CASE FetchCollection
  BY <1>1, <1>3, FetchCollectionServed
<1>4. CASE FetchRecord
  BY <1>1, <1>4, FetchRecordServed
<1>5. CASE FetchRelatedRecords
  <2>. DEFINE p == parameters
              s == Target
              query == request.query
  <2>1. request.kind = "related" /\ \E way : FetchedBy(p, way)
    BY <1>5, FetchedIs DEF FetchRelatedRecords
  <2>2. ParsedIs(p, query, s, reg)
    BY <1>1, <2>1 DEF FieldsInv
  <2>3. Planned(p.fields, p.models, reg) /\ s.name \in p.models
    <3>. HIDE DEF p, s, query
    <3>. QED BY <1>2, <2>2, ParsedIsPlanned
  <2>4. ~ FieldsPanic(s, p.fields) /\ SortedBy(p.sort, s)
    BY <1>2, <2>2, <2>3 DEF Planned, ParsedIs, Reading
  <2>5. Fetchable(p)
    BY <1>1, <2>1, <2>4 DEF Fetchable, ServedInv, Underway
  <2>. QED BY <1>1, <2>1, <2>5, FetchRelatedServed
<1>6. CASE PeekRelated
  <2>. DEFINE s == Target
              fields == Put(<<>>, s.name, {})
              p == Asking(s, reg, fields)
              toLoad == RelationshipsToLoad(s, fields, {})
  <2>1. request.kind = "linkage" /\ \E way : FetchedBy(p, way)
    BY <1>6, FetchedIs DEF PeekRelated
  <2>2. /\ Complete(p) /\ p.sort = <<>> /\ p.filter = <<>> /\ p.search = <<>> /\ p.page = <<>>
        /\ p.fields = fields /\ p.include = {}
    <3>. HIDE DEF fields
    <3>. QED BY DEF Asking, New, Blank, Complete, PageIs
  <2>3. ~ FieldsPanic(s, fields) /\ DOMAIN fields = {s.name} /\ fields[s.name] = {}
    <3>. DEFINE none == {}
    <3>1. none \in SUBSET Columns(s) /\ fields = Put(<<>>, s.name, none)
      OBVIOUS
    <3>. HIDE DEF fields, s, none
    <3>2. ~ FieldsPanic(s, fields) /\ DOMAIN fields = {s.name} /\ fields[s.name] = none
      BY <3>1, NarrowFields
    <3>. QED BY <3>2 DEF none
  <2>4. toLoad = <<>>
    <3>. HIDE DEF fields, s
    <3>1. Declarable(s)
      BY <1>2 DEF Closed, s
    <3>. DEFINE none == {}
    <3>2. fields[s.name] = none
      BY <2>3
    <3>3. toLoad = RelationshipsToLoad(s, fields, {})
      OBVIOUS
    <3>. HIDE DEF toLoad, none
    <3>4. toLoad # <<>> => \E r \in Relationships(s) : r.name \in none
      BY <2>3, <3>1, <3>2, <3>3, NarrowLoads
    <3>. QED BY <3>4 DEF none
  <2>5. Bindable(p.filter, s) /\ SortedBy(p.sort, s)
    BY <2>2 DEF SortedBy, Bindable
  <2>. HIDE DEF p, fields, toLoad
  <2>6. Fetchable(p)
    BY <2>2, <2>3, <2>4, <2>5 DEF Fetchable, toLoad
  <2>. QED BY <1>1, <2>1, <2>6, FetchRelatedServed
<1>7. CASE CreateCollection
  BY <1>1, <1>7, CreateServed
<1>. QED BY <1>1, <1>3, <1>4, <1>5, <1>6, <1>7 DEF Fetch

LEMMA LoadedKeeps ==
    ASSUME NEW m, NEW records, Records(records, m), NEW s, NEW target, NEW r, NEW fields,
           NEW loaded, LoadedFrom(loaded, s, target, r, records, fields), loaded.error = "none"
    PROVE  /\ Len(loaded.records) = Len(records)
           /\ \A i \in 1..Len(records) : loaded.records[i].columns = records[i].columns
<1>1. CASE ~ IsRequested(fields, s.name, r.name)
  <2>1. loaded.records = records
    BY <1>1 DEF LoadedFrom
  <2>. QED BY <2>1
<1>2. CASE IsRequested(fields, s.name, r.name)
  <2>1. PICK ids : loaded.records = Linked(records, r, ids)
    BY <1>2 DEF LoadedFrom
  <2>. QED BY <2>1, LinkedIs
<1>. QED BY <1>1, <1>2

LEMMA ReadyTail ==
    ASSUME NEW R, NEW pending, pending \in Seq(R), pending # <<>>, NEW fields, NEW byName, Ready(pending, fields, byName)
    PROVE  /\ Ready(Tail(pending), fields, byName)
           /\ ~ FieldsPanic(byName[Head(pending).resource], fields)
           /\ Head(pending).related \in fields[Head(pending).resource]
<1>1. /\ Len(pending) \in Nat /\ Len(pending) > 0 /\ Head(pending) = pending[1]
      /\ Len(Tail(pending)) = Len(pending) - 1
      /\ \A i \in 1..Len(Tail(pending)) : Tail(pending)[i] = pending[i + 1]
  BY HeadTailProperties
<1>2. 1 \in 1..Len(pending) /\ \A i \in 1..Len(Tail(pending)) : i + 1 \in 1..Len(pending)
  BY <1>1
<1>. QED BY <1>1, <1>2 DEF Ready

\* A relationship that is loaded has its join key among the fields, unless it is
\* the one that asking for its key asked for.
LEMMA NextIsReady ==
    ASSUME TypeInv, FieldsInv, ServedInv, Loading, Top.pending # <<>>, NEW r, r = Head(Top.pending)
    PROVE  \/ /\ ~ FieldsPanic(reg[r.resource], parameters.fields)
              /\ r.related \in parameters.fields[r.resource]
           \/ NamedLikeItsKey
<1>1. /\ IsFrame(Top) /\ Len(stack) \in Nat /\ Len(stack) > 0 /\ Consistent(schemas) /\ Closed(reg)
  BY TopIs
<1>2. Top = stack[Len(stack)] /\ Len(stack) \in 1..Len(stack)
  BY <1>1 DEF Top
<1>. DEFINE fields == parameters.fields
            pending == Top.pending
            m == Top.schema
<1>3. pending \in Seq(Relationships(reg[m])) /\ pending # <<>> /\ r = Head(pending)
  BY <1>1 DEF IsFrame
<1>4. CASE phase = "loading parent"
  <2>1. ParentLoads(stack, fields)
    BY <1>4 DEF ServedInv, Underway
  <2>2. Top = stack[1]
    BY <1>2, <2>1 DEF ParentLoads
  <2>3. Ready(pending, fields, reg) \/ NamedLikeItsKey
    BY <2>1, <2>2 DEF ParentLoads
  <2>4. Ready(pending, fields, reg) => ~ FieldsPanic(reg[r.resource], fields) /\ r.related \in fields[r.resource]
    <3>. HIDE DEF pending, fields, m
    <3>. QED BY <1>3, ReadyTail
  <2>. QED BY <2>3, <2>4
<1>5. CASE phase = "loading"
  <2>1. PrimaryLoads(stack)
    BY <1>5 DEF ServedInv, Underway
  <2>2. request.kind # "linkage"
    <3>. SUFFICES ASSUME request.kind = "linkage" PROVE FALSE
      OBVIOUS
    <3>1. Len(stack) = 1 /\ stack[1].pending = <<>>
      BY <2>1 DEF PrimaryLoads
    <3>. QED BY <1>2, <1>3, <3>1
  <2>3. ParsedIs(parameters, request.query, Target, reg) /\ FrameHonest(Top, parameters, reg, Sent)
    BY <1>2, <1>5, <2>2 DEF FieldsInv, HonestLoading
  <2>. DEFINE p == parameters
              query == request.query
              models == p.models
              s == Target
  <2>4. m \in models
    BY <2>3 DEF FrameHonest
  <2>5. Planned(fields, models, reg)
    <3>1. ParsedIs(p, query, s, reg)
      BY <2>3
    <3>. HIDE DEF p, query, s
    <3>. QED BY <1>1, <3>1, ParsedIsPlanned DEF p
  <2>6. r \in Relationships(reg[m])
    <3>. HIDE DEF pending, m
    <3>. QED BY <1>3, HeadTailProperties
  <2>. HIDE DEF models, fields, m
  <2>. QED BY <2>4, <2>5, <2>6 DEF Planned, fields
<1>. QED BY <1>4, <1>5 DEF Loading

LEMMA LoadRelationshipServed ==
    ASSUME TypeInv, FieldsInv, TruthInv, ServedInv, LoadRelationship PROVE ServedInv'
<1>. DEFINE m == Top.schema
            s == reg[m]
            r == Head(Top.pending)
            target == reg[r.resource]
            records == Top.records
            fields == parameters.fields
            recurse == IsIncluded(Top.include, r.name)
            loaded == LoadRelated(s, target, r, records, fields, recurse, db[target.name])
            here == [Top EXCEPT !.records = loaded.records, !.pending = Tail(@)]
            below == Frame(target, loaded.related, fields, Derive(Top.include, r.name))
            conflict == MergeConflicts(cache, loaded.related)
            replaced == [stack EXCEPT ![Len(stack)] = here]
            spared == IF Len(stack) = 1 THEN Unattached ELSE {}
<1>1. /\ Loading /\ Top.pending # <<>> /\ UNCHANGED input
      /\ IF loaded.error # "none" THEN Refuse(loaded.error)
         ELSE IF recurse
         THEN /\ stack' = Append(replaced, below)
              /\ UNCHANGED <<db, phase, parameters, cache, included, parent, reply>>
         ELSE IF conflict THEN Refuse("DataLoadingError")
         ELSE /\ cache' = MergeAll(cache, loaded.related)
              /\ stack' = replaced
              /\ UNCHANGED <<db, phase, parameters, included, parent, reply>>
  BY DEF LoadRelationship, Keep
<1>2. /\ IsFrame(Top) /\ Len(stack) \in Nat /\ Len(stack) > 0 /\ Top = stack[Len(stack)]
      /\ Consistent(schemas) /\ Closed(reg) /\ Registered(reg, schemas)
  BY <1>1, TopIs DEF Top
<1>3. /\ r \in Relationships(s) /\ r.resource \in DOMAIN reg /\ target.name = r.resource /\ reg[target.name] = target
      /\ m \in DOMAIN reg /\ Records(records, m) /\ s.name = m /\ Top.pending \in Seq(Relationships(s))
  <2>1. Top.pending \in Seq(Relationships(s))
    BY <1>2 DEF IsFrame
  <2>2. r \in Relationships(s)
    BY <1>1, <2>1, HeadTailProperties
  <2>. QED BY <1>2, <2>1, <2>2 DEF IsFrame, Closed
<1>4. LoadedFrom(loaded, s, target, r, records, fields)
  <2>1. IsFiniteSet(db[target.name])
    BY <1>2, <1>3 DEF TypeInv, Stored, Registered
  <2>. HIDE DEF recurse, s, r, target, records, fields
  <2>. QED BY <2>1, LoadRelatedIs
<1>5. /\ KeptAll(reg, db) /\ TrueLoading(stack, cache, Unattached, reg, db) /\ FrameTrue(Top, spared, reg, db)
      /\ Underway /\ InOrderLoading(stack, cache) /\ AllInOrder(records)
  <2>1. Len(stack) \in 1..Len(stack)
    BY <1>2
  <2>. QED BY <1>1, <1>2, <2>1 DEF TruthInv, TrueLoading, ServedInv, Underway, InOrderLoading
<1>. HIDE DEF spared
<1>6. Loads(loaded, records, m, r, fields, reg, db)
  <2>. DEFINE k == r.resource
  <2>1. loaded = LoadRelated(reg[m], reg[k], r, records, fields, recurse, db[k]) /\ r \in Relationships(reg[m])
    BY <1>3
  <2>2. AllFaithfulBut(records, spared, reg, db)
    BY <1>5 DEF FrameTrue
  <2>. HIDE DEF k, r, m, records, fields, recurse, loaded
  <2>3. k = r.resource
    BY DEF k
  <2>. QED BY <1>2, <1>3, <1>5, <2>1, <2>2, <2>3, SparedLoads
<1>7. CASE loaded.error # "none"
  <2>. DEFINE error == loaded.error
  <2>1. Refuse(error)
    BY <1>1, <1>7
  <2>2. (~ FieldsPanic(reg[r.resource], fields) /\ r.related \in fields[r.resource]) \/ NamedLikeItsKey
    BY <1>1, NextIsReady
  <2>3. \/ NamedLikeItsKey /\ error \in {"Panic", "DataLoadingError"}
        \/ Cardinality(db[m]) > Variables /\ error = "SqlFailure"
    <3>. HIDE DEF loaded, fields, r, records, m
    <3>. QED BY <1>6, <1>7, <2>2 DEF Loads
  <2>4. m \in DOMAIN db
    BY <1>3, <1>5 DEF KeptAll
  <2>. HIDE DEF error, m
  <2>5. Allowed(error)
    BY <2>3, <2>4 DEF Allowed, BeyondVariables
  <2>. QED BY <1>1, <2>1, <2>5, RefuseIsServed
<1>8. CASE loaded.error = "none"
  <2>0. IsFrame(here) /\ Records(loaded.related, target.name)
    BY <1>1, <1>3, <1>4, <1>8, LoadedTypes
  <2>1. /\ here.schema = Top.schema /\ here.records = loaded.records /\ here.include = Top.include
        /\ here.pending = Tail(Top.pending)
    BY <1>2 DEF IsFrame
  <2>2. /\ Len(loaded.records) = Len(records)
        /\ \A i \in 1..Len(records) : loaded.records[i].columns = records[i].columns
    <3>. HIDE DEF m, records, s, target, r, fields, loaded
    <3>. QED BY <1>3, <1>4, <1>8, LoadedKeeps
  <2>14. Len(records) = 1 => loaded.records[1].columns = records[1].columns
    <3>. HIDE DEF records, loaded
    <3>1. 1 \in 1..1
      OBVIOUS
    <3>. QED BY <2>2, <3>1
  <2>3. AllFaithful(loaded.related, reg, db)
    <3>. DEFINE k == r.resource
    <3>1. loaded = LoadRelated(reg[m], reg[k], r, records, fields, recurse, db[k]) /\ r \in Relationships(reg[m])
      BY <1>3
    <3>2. AllFaithfulBut(records, spared, reg, db) /\ Distinct(records)
      BY <1>5 DEF FrameTrue
    <3>. HIDE DEF k, r, m, records, fields, recurse, loaded
    <3>3. k = r.resource
      BY DEF k
    <3>4. loaded = LoadRelated(reg[m], reg[r.resource], r, records, fields, recurse, db[r.resource])
      BY <3>1, <3>3
    <3>5. LoadedTrueBut(loaded, records, spared, reg, db)
      BY <1>2, <1>3, <1>5, <1>8, <3>1, <3>2, <3>4, SparedTrue
    <3>. QED BY <3>5 DEF LoadedTrueBut
  <2>4. AllInOrder(loaded.records) /\ AllInOrder(loaded.related)
    <3>. HIDE DEF loaded, records, m, r, fields
    <3>1. Fresh(loaded.related) /\ AllInOrder(loaded.records)
      BY <1>5, <1>6, <1>8 DEF Loads
    <3>. QED BY <3>1, FreshIsInOrder
  <2>. HIDE DEF loaded, conflict
  <2>. HIDE DEF here
  <2>5. /\ Frames(replaced) /\ Len(replaced) = Len(stack) /\ replaced[Len(stack)] = here
        /\ \A i \in 1..Len(stack) : i # Len(stack) => replaced[i] = stack[i]
    <3>1. Len(stack) \in 1..Len(stack)
      BY <1>2
    <3>2. Frames(stack)
      BY DEF TypeInv
    <3>. QED BY <2>0, <3>1, <3>2, FramesReplaced
  <2>6. \A i \in 1..Len(replaced) : AllInOrder(replaced[i].records)
    BY <1>5, <2>1, <2>4, <2>5 DEF InOrderLoading
  <2>7. /\ Len(stack) = 1 => replaced[1] = here /\ Top = stack[1]
        /\ Len(replaced[1].records) = Len(stack[1].records)
    <3>1. CASE Len(stack) = 1
      BY <1>2, <2>1, <2>2, <2>5, <3>1
    <3>2. CASE Len(stack) # 1
      <4>1. 1 \in 1..Len(stack)
        BY <1>2
      <4>. QED BY <2>5, <3>2, <4>1
    <3>. QED BY <3>1, <3>2
  <2>8. phase = "loading" => request.kind # "linkage"
    BY <1>1, <1>5, <2>7 DEF Underway, PrimaryLoads
  <2>9. phase = "loading parent" => ~ recurse /\ ParentLoads(replaced, fields)
    <3>. SUFFICES ASSUME phase = "loading parent" PROVE ~ recurse /\ ParentLoads(replaced, fields)
      OBVIOUS
    <3>1. ParentLoads(stack, fields)
      BY <1>5 DEF Underway
    <3>2. Top = stack[1] /\ replaced[1] = here /\ Len(replaced) = 1 /\ Top.include = {} /\ Len(records) = 1
      BY <2>5, <2>7, <3>1 DEF ParentLoads
    <3>3. ~ recurse
      BY <3>2 DEF IsIncluded
    <3>4. OwnKeyRead(loaded.records[1])
      <4>1. loaded.records[1].columns = records[1].columns
        BY <2>14, <3>2
      <4>2. OwnKeyRead(records[1])
        BY <3>1, <3>2 DEF ParentLoads
      <4>. QED BY <4>1, <4>2 DEF OwnKeyRead, Has
    <3>5. Ready(Tail(Top.pending), fields, reg) \/ NamedLikeItsKey
      <4>1. Ready(Top.pending, fields, reg) \/ NamedLikeItsKey
        BY <3>1, <3>2 DEF ParentLoads
      <4>. DEFINE pending == Top.pending
      <4>2. Ready(pending, fields, reg) => Ready(Tail(pending), fields, reg)
        <5>1. pending \in Seq(Relationships(s)) /\ pending # <<>>
          BY <1>1, <1>3
        <5>. HIDE DEF pending, fields, s
        <5>. QED BY <5>1, ReadyTail
      <4>. QED BY <4>1, <4>2
    <3>. QED BY <2>1, <2>2, <3>2, <3>3, <3>4, <3>5 DEF ParentLoads
  <2>10. phase = "loading" => (ToOne => Len(replaced[1].records) <= 1)
    BY <1>5, <2>7 DEF Underway, PrimaryLoads
  <2>. HIDE DEF replaced
  <2>11. UNCHANGED <<request, reg, ToOne, NamedLikeItsKey>> /\ \A x : OwnKeyRead(x)' <=> OwnKeyRead(x)
    BY <1>1, InputStays, InputOperatorsStay
  <2>12. CASE recurse
    <3>1. stack' = Append(replaced, below) /\ UNCHANGED <<phase, cache>>
      BY <1>1, <1>8, <2>12
    <3>2. /\ Len(stack') = Len(replaced) + 1 /\ stack'[Len(replaced) + 1] = below /\ Len(replaced) \in Nat
          /\ \A i \in 1..Len(replaced) : stack'[i] = replaced[i]
      BY <2>5, <3>1, AppendIs, SequenceIs DEF Frames
    <3>3. below.records = loaded.related
      BY DEF Frame
    <3>. HIDE DEF below
    <3>4. InOrderLoading(stack', cache')
      <4>1. \A i \in 1..Len(stack') : i = Len(replaced) + 1 \/ i \in 1..Len(replaced)
        BY <3>2
      <4>. QED BY <1>5, <2>4, <2>6, <3>1, <3>2, <3>3, <4>1 DEF InOrderLoading
    <3>5. stack'[1] = replaced[1]
      <4>1. 1 \in 1..Len(replaced)
        BY <1>2, <2>5
      <4>. QED BY <3>2, <4>1
    <3>6. CASE phase = "loading"
      <4>1. PrimaryLoads(stack')
        BY <2>8, <2>10, <3>5, <3>6 DEF PrimaryLoads
      <4>. QED BY <1>1, <3>1, <3>4, <3>6, <4>1, LoadingIsServed
    <3>7. CASE phase = "loading parent"
      <4>1. FALSE
        BY <2>9, <2>12, <3>7
      <4>. QED BY <4>1
    <3>. QED BY <1>1, <3>6, <3>7 DEF Loading
  <2>13. CASE ~ recurse
    <3>1. ~ conflict /\ CacheInOrder(MergeAll(cache, loaded.related))
      <4>1. Keyed(cache) /\ CacheTrue(cache, reg, db) /\ CacheInOrder(cache)
        BY <1>5 DEF TypeInv, TrueLoading, InOrderLoading
      <4>. QED BY <1>2, <1>5, <2>0, <2>3, <2>4, <4>1, MergesInOrder DEF conflict
    <3>2. CASE conflict
      BY <3>1, <3>2
    <3>3. CASE ~ conflict
      <4>1. cache' = MergeAll(cache, loaded.related) /\ stack' = replaced /\ UNCHANGED <<phase, parameters>>
        BY <1>1, <1>8, <2>13, <3>3
      <4>2. InOrderLoading(stack', cache')
        BY <2>6, <3>1, <4>1 DEF InOrderLoading
      <4>3. CASE phase = "loading"
        <5>1. PrimaryLoads(stack')
          BY <2>8, <2>10, <4>1, <4>3 DEF PrimaryLoads
        <5>. QED BY <1>1, <4>1, <4>2, <4>3, <5>1, LoadingIsServed
      <4>4. CASE phase = "loading parent"
        <5>1. ParentLoads(stack, parameters.fields)'
          BY <2>9, <2>11, <4>1, <4>4 DEF ParentLoads
        <5>2. InOrderLoading(stack, cache)'
          BY <4>2 DEF InOrderLoading
        <5>3. Underway'
          BY <1>5, <2>11, <4>1, <4>4, <5>1, <5>2 DEF Underway
        <5>. QED BY <1>1, <4>1, <4>4, <5>3, StepIsServed
      <4>. QED BY <1>1, <4>3, <4>4 DEF Loading
    <3>. QED BY <3>2, <3>3
  <2>. QED BY <2>12, <2>13
<1>. QED BY <1>7, <1>8

LEMMA ReturnServed == ASSUME TypeInv, TruthInv, ServedInv, Return PROVE ServedInv'
<1>1. Loading /\ Len(stack) > 1 /\ UNCHANGED input
  BY DEF Return
<1>2. IsFrame(Top) /\ Len(stack) \in Nat /\ Consistent(schemas) /\ Closed(reg)
  BY <1>1, TopIs
<1>. DEFINE f == Top
<1>3. /\ Underway /\ KeptAll(reg, db)
      /\ AllFaithful(f.records, reg, db) /\ AllInOrder(f.records)
      /\ CacheTrue(cache, reg, db) /\ InOrderLoading(stack, cache)
  <2>1. Len(stack) \in 1..Len(stack) /\ Len(stack) # 1
    <3>1. \A n \in Nat : n > 1 => n \in 1..n /\ n # 1
      OBVIOUS
    <3>. QED BY <1>1, <1>2, <3>1
  <2>2. AllFaithfulBut(f.records, {}, reg, db) /\ CacheTrue(cache, reg, db)
    BY <1>1, <1>2, <2>1 DEF TruthInv, TrueLoading, FrameTrue, Top
  <2>. QED BY <1>1, <1>2, <2>1, <2>2, NothingSpared DEF TruthInv, ServedInv, Underway, InOrderLoading, Top
<1>4. Records(f.records, f.schema) /\ Keyed(cache)
  BY <1>2 DEF TypeInv, IsFrame
<1>5. ~ MergeConflicts(cache, f.records) /\ CacheInOrder(MergeAll(cache, f.records))
  <2>1. CacheInOrder(cache)
    BY <1>3 DEF InOrderLoading
  <2>. HIDE DEF f
  <2>. QED BY <1>2, <1>3, <1>4, <2>1, MergesInOrder
<1>6. CASE MergeConflicts(cache, Top.records)
  BY <1>5, <1>6
<1>7. CASE ~ MergeConflicts(cache, Top.records)
  <2>1. /\ cache' = MergeAll(cache, f.records)
        /\ stack' = SubSeq(stack, 1, Len(stack) - 1)
        /\ UNCHANGED phase
    BY <1>7 DEF Return, Keep
  <2>2. /\ Len(stack') = Len(stack) - 1
        /\ \A i \in 1..(Len(stack) - 1) : stack'[i] = stack[i]
    <3>1. stack \in Seq(ToSet(stack))
      BY DEF TypeInv, Frames
    <3>2. Len(stack) > 0
      BY <1>1, <1>2
    <3>. QED BY <2>1, <3>1, <3>2, FrontIs
  <2>. HIDE DEF f
  <2>3. InOrderLoading(stack', cache')
    <3>1. \A i \in 1..Len(stack') : i \in 1..(Len(stack) - 1) /\ i \in 1..Len(stack)
      BY <1>2, <2>2
    <3>. QED BY <1>3, <1>5, <2>1, <2>2, <3>1 DEF InOrderLoading
  <2>4. stack'[1] = stack[1]
    <3>1. 1 \in 1..(Len(stack) - 1)
      BY <1>1, <1>2
    <3>. QED BY <2>2, <3>1
  <2>5. phase = "loading" /\ PrimaryLoads(stack')
    <3>1. Len(stack) # 1
      <4>1. Len(stack) \in Nat /\ Len(stack) > 1
        BY <1>1, <1>2
      <4>2. \A n \in Nat : n > 1 => n # 1
        OBVIOUS
      <4>. QED BY <4>1, <4>2
    <3>. QED BY <1>1, <1>3, <2>4, <3>1 DEF Underway, ParentLoads, PrimaryLoads, Loading
  <2>. QED BY <1>1, <2>1, <2>3, <2>5, LoadingIsServed
<1>. QED BY <1>6, <1>7

LEMMA FinishParentServed == ASSUME TypeInv, ServedInv, FinishParent PROVE ServedInv'
<1>. DEFINE xs == Top.records
<1>1. /\ UNCHANGED input /\ Loading /\ Len(stack) = 1 /\ phase = "loading parent"
      /\ parent' = Head(xs) /\ phase' = IF request.kind = "linkage" THEN "querying" ELSE "parsing"
  BY DEF FinishParent, CollectionLoaded
<1>2. Top = stack[1] /\ Records(xs, Top.schema)
  <2>1. IsFrame(Top)
    BY <1>1, TopIs
  <2>. QED BY <1>1, <2>1 DEF Top, IsFrame
<1>3. OwnKeyRead(parent') /\ request.kind \in {"related", "linkage"}
  <2>. SUFFICES OwnKeyRead(Head(xs)) /\ request.kind \in {"related", "linkage"}
    BY <1>1
  <2>1. ParentLoads(stack, parameters.fields) /\ request.kind \in {"related", "linkage"}
    BY <1>1 DEF ServedInv, Underway
  <2>2. Len(xs) = 1 /\ OwnKeyRead(xs[1])
    BY <1>2, <2>1 DEF ParentLoads
  <2>3. xs \in Seq(ToSet(xs))
    BY <1>2 DEF Records
  <2>. HIDE DEF xs
  <2>4. Head(xs) = xs[1]
    BY <2>2, <2>3
  <2>. QED BY <2>1, <2>2, <2>4
<1>4. Underway'
  <2>1. UNCHANGED request /\ \A x : OwnKeyRead(x)' <=> OwnKeyRead(x)
    BY <1>1, InputStays, InputOperatorsStay
  <2>2. OwnKeyRead(parent)'
    BY <1>1, <1>3, InputStays, InputOperatorsStay DEF OwnKeyRead
  <2>. QED BY <1>1, <2>1, <2>2 DEF Underway, Loading
<1>. QED BY <1>1, <1>4, StepIsServed

LEMMA FinishServed == ASSUME TypeInv, ServedInv, Finish PROVE ServedInv'
<1>1. UNCHANGED input /\ phase = "loading" /\ Len(stack) = 1
  BY DEF Finish, CollectionLoaded
<1>2. ~ TooMany
  <2>. SUFFICES ASSUME TooMany PROVE FALSE
    OBVIOUS
  <2>1. Top = stack[1]
    BY <1>1 DEF Top
  <2>2. Len(Top.records) <= 1 /\ Len(Top.records) > 1
    BY <1>1, <2>1 DEF ServedInv, Underway, PrimaryLoads, TooMany, ToOne
  <2>3. Len(Top.records) \in Nat
    <3>1. IsFrame(Top)
      BY <1>1, TopIs DEF Loading
    <3>2. Top.records \in Seq(ToSet(Top.records))
      BY <3>1 DEF IsFrame, Records
    <3>. QED BY <3>2
  <2>. QED BY <2>2, <2>3
<1>3. CASE TooMany
  BY <1>2, <1>3
<1>4. CASE ~ TooMany
  <2>1. phase' = "done" /\ reply'.error = "none"
    <3>1. PICK primary, others : phase' = "done" /\ reply' = Document(primary, others)
      BY <1>4 DEF Finish, Respond
    <3>. QED BY <3>1 DEF Document
  <2>. QED BY <1>1, <2>1, AnswerIsServed
<1>. QED BY <1>3, <1>4

LEMMA IdleIsServed == ASSUME ServedInv, UNCHANGED vars PROVE ServedInv'
<1>1. UNCHANGED <<db, phase, parameters, stack, cache, parent, reply>> /\ UNCHANGED input
  BY DEF vars, input
<1>2. /\ UNCHANGED <<schemas, request, reg, Schema, Descriptor, Target>>
      /\ UNCHANGED <<ToMany, ToOne, NamedLikeItsKey, NamedLikeAnotherKey>>
      /\ \A x : OwnKeyRead(x)' <=> OwnKeyRead(x)
  BY <1>1, InputStays, InputOperatorsStay
<1>3. UNCHANGED <<Loading, Overflowing, NoColumnCalledId, MalformedSearch, SendsNothing, BeyondVariables>>
  BY <1>1, <1>2
     DEF Loading, Overflowing, NoColumnCalledId, MalformedSearch, SendsNothing, BeyondVariables, SentColumns, LinkedBy
<1>4. OwnKeyRead(parent) => OwnKeyRead(parent)'
  BY <1>1, <1>2 DEF OwnKeyRead
<1>5. ParentLoads(stack, parameters.fields) => ParentLoads(stack, parameters.fields)'
  BY <1>1, <1>2 DEF ParentLoads
<1>6. /\ PrimaryLoads(stack) => PrimaryLoads(stack)'
      /\ InOrderLoading(stack, cache) => InOrderLoading(stack, cache)'
  BY <1>1, <1>2 DEF PrimaryLoads, InOrderLoading
<1>7. Underway => Underway'
  BY <1>1, <1>2, <1>3, <1>4, <1>5, <1>6 DEF Underway
<1>8. AcceptedQueriesAreServed => AcceptedQueriesAreServed'
  BY <1>1, <1>2, <1>3 DEF AcceptedQueriesAreServed, Answerable
<1>. QED BY <1>1, <1>7, <1>8 DEF ServedInv

LEMMA ServedNext == TypeInv /\ FieldsInv /\ TruthInv /\ ServedInv /\ [Next]_vars => ServedInv'
<1>. SUFFICES ASSUME TypeInv, FieldsInv, TruthInv, ServedInv, [Next]_vars PROVE ServedInv'
  OBVIOUS
<1>1. CASE TryBuild
  BY <1>1, TryBuildServed
<1>2. CASE FetchParent
  BY <1>2, FetchParentServed
<1>3. CASE ParseQuery
  BY <1>3, ParseQueryServed
<1>4. CASE Fetch
  BY <1>4, FetchServed
<1>5. CASE LoadRelationship
  BY <1>5, LoadRelationshipServed
<1>6. CASE Return
  BY <1>6, ReturnServed
<1>7. CASE FinishParent
  BY <1>7, FinishParentServed
<1>8. CASE Finish
  BY <1>8, FinishServed
<1>9. CASE UNCHANGED vars
  BY <1>9, IdleIsServed
<1>. QED BY <1>1, <1>2, <1>3, <1>4, <1>5, <1>6, <1>7, <1>8, <1>9 DEF Next

\* A declaration that try_build accepted and a query that parse accepted are
\* answered (database/query_parameters.rs, database/data_loader/mod.rs): none of
\* the expects and "is not loaded" on the way is ever hit, whatever is declared,
\* stored, asked, included and created, but in the cases that the property lists.
THEOREM ReadsAreServed == Spec => []AcceptedQueriesAreServed
<1>1. Init => TypeInv /\ FieldsInv /\ TruthInv /\ ServedInv
  BY TypeInit, InitHonest, InitTrue, InitServed
<1>2. TypeInv /\ FieldsInv /\ TruthInv /\ ServedInv /\ [Next]_vars
        => (TypeInv /\ FieldsInv /\ TruthInv /\ ServedInv)'
  BY TypeNext, FieldsNext, TruthNext, ServedNext
<1>3. TypeInv /\ FieldsInv /\ TruthInv /\ ServedInv => AcceptedQueriesAreServed
  BY DEF ServedInv
<1>. QED BY <1>1, <1>2, <1>3, PTL DEF Spec

-----------------------------------------------------------------------------
(* What a step of the loader does to the stack. *)

\* One relationship of the innermost collection is loaded: the frames with its
\* linkage, and one more or the cache for what was read.
Descends(loaded, fs) ==
  LET r == Head(Top.pending)
      recurse == IsIncluded(Top.include, r.name)
      n == Len(stack)
  IN /\ loaded = LoadRelated(reg[Top.schema], reg[r.resource], r, Top.records, parameters.fields, recurse,
                             db[r.resource])
     /\ loaded.error = "none" /\ r \in Relationships(reg[Top.schema])
     /\ Records(loaded.records, Top.schema) /\ Records(loaded.related, r.resource)
     /\ Len(fs) = n /\ \A i \in 1..n : i # n => fs[i] = stack[i]
     /\ fs[n].schema = Top.schema /\ fs[n].include = Top.include /\ fs[n].records = loaded.records
     /\ recurse =>
          /\ Len(stack') = n + 1 /\ \A i \in 1..n : stack'[i] = fs[i]
          /\ stack'[n + 1].schema = r.resource /\ stack'[n + 1].include = Derive(Top.include, r.name)
          /\ stack'[n + 1].records = loaded.related /\ cache' = cache
     /\ ~ recurse => stack' = fs /\ cache' = MergeAll(cache, loaded.related)
     /\ UNCHANGED <<db, phase, parameters, included, parent, reply>>

LEMMA DescendsIs ==
    ASSUME TypeInv, LoadRelationship, phase' # "done"
    PROVE  \E loaded, fs : Descends(loaded, fs)
<1>. DEFINE r == Head(Top.pending)
            s == reg[Top.schema]
            target == reg[r.resource]
            fields == parameters.fields
            recurse == IsIncluded(Top.include, r.name)
            loaded == LoadRelated(s, target, r, Top.records, fields, recurse, db[target.name])
            here == [Top EXCEPT !.records = loaded.records, !.pending = Tail(@)]
            below == Frame(target, loaded.related, fields, Derive(Top.include, r.name))
            fs == [stack EXCEPT ![Len(stack)] = here]
<1>1. /\ Loading /\ Top.pending # <<>>
      /\ IF loaded.error # "none" THEN Refuse(loaded.error)
         ELSE IF recurse
         THEN /\ stack' = Append(fs, below)
              /\ UNCHANGED <<db, phase, parameters, cache, included, parent, reply>>
         ELSE IF MergeConflicts(cache, loaded.related) THEN Refuse("DataLoadingError")
         ELSE /\ cache' = MergeAll(cache, loaded.related)
              /\ stack' = fs
              /\ UNCHANGED <<db, phase, parameters, included, parent, reply>>
  BY DEF LoadRelationship, Keep
<1>2. /\ IsFrame(Top) /\ Len(stack) \in Nat /\ Len(stack) > 0
      /\ Consistent(schemas) /\ Closed(reg) /\ Registered(reg, schemas)
  BY <1>1, TopIs
<1>3. r \in Relationships(s) /\ r.resource \in DOMAIN reg /\ target.name = r.resource /\ s.name = Top.schema
  <2>1. Top.pending \in Seq(Relationships(s))
    BY <1>2 DEF IsFrame
  <2>2. r \in Relationships(s)
    BY <1>1, <2>1, HeadTailProperties
  <2>. QED BY <1>2, <2>2 DEF IsFrame, Closed
<1>4. LoadedFrom(loaded, s, target, r, Top.records, fields)
  <2>1. IsFiniteSet(db[target.name])
    BY <1>2, <1>3 DEF TypeInv, Stored, Registered
  <2>. HIDE DEF recurse, s, r, target, fields
  <2>. QED BY <2>1, LoadRelatedIs
<1>5. \A error : Refuse(error) => phase' = "done"
  BY DEF Refuse
<1>6. loaded.error = "none"
  <2>. HIDE DEF loaded, fs, below
  <2>. QED BY <1>1, <1>5
<1>7. IsFrame(here) /\ Records(loaded.related, r.resource)
  BY <1>1, <1>3, <1>4, <1>6, LoadedTypes
<1>8. here.schema = Top.schema /\ here.records = loaded.records /\ here.include = Top.include
  BY <1>2 DEF IsFrame
<1>9. loaded = LoadRelated(s, target, r, Top.records, fields, recurse, db[r.resource])
  BY <1>3
<1>10. below.schema = r.resource /\ below.include = Derive(Top.include, r.name) /\ below.records = loaded.related
  BY <1>3 DEF Frame
<1>. HIDE DEF loaded, here, below
<1>11. /\ Frames(fs) /\ Len(fs) = Len(stack) /\ fs[Len(stack)] = here
       /\ \A i \in 1..Len(stack) : i # Len(stack) => fs[i] = stack[i]
  <2>1. Len(stack) \in 1..Len(stack)
    BY <1>2
  <2>2. Frames(stack)
    BY DEF TypeInv
  <2>. QED BY <1>7, <2>1, <2>2, FramesReplaced
<1>12. Records(loaded.records, Top.schema)
  BY <1>7, <1>8 DEF IsFrame
<1>. HIDE DEF fs
<1>13. CASE recurse
  <2>1. stack' = Append(fs, below) /\ UNCHANGED <<db, phase, parameters, cache, included, parent, reply>>
    BY <1>1, <1>6, <1>13
  <2>2. /\ Len(stack') = Len(fs) + 1 /\ stack'[Len(fs) + 1] = below
        /\ \A i \in 1..Len(fs) : stack'[i] = fs[i]
    BY <1>11, <2>1, AppendIs, SequenceIs DEF Frames
  <2>3. Descends(loaded, fs)
    BY <1>3, <1>6, <1>7, <1>8, <1>9, <1>10, <1>11, <1>12, <1>13, <2>1, <2>2 DEF Descends
  <2>. QED BY <2>3
<1>14. CASE ~ recurse
  <2>1. /\ cache' = MergeAll(cache, loaded.related) /\ stack' = fs
        /\ UNCHANGED <<db, phase, parameters, included, parent, reply>>
    <3>. HIDE DEF recurse
    <3>. QED BY <1>1, <1>5, <1>6, <1>14
  <2>2. Descends(loaded, fs)
    BY <1>3, <1>6, <1>7, <1>8, <1>9, <1>11, <1>12, <1>14, <2>1 DEF Descends
  <2>. QED BY <2>2
<1>. QED BY <1>13, <1>14

\* An included collection is left.
Ascends ==
  LET n == Len(stack) IN
  /\ n > 1
  /\ Len(stack') = n - 1 /\ \A i \in 1..(n - 1) : stack'[i] = stack[i]
  /\ cache' = MergeAll(cache, Top.records)
  /\ included' = included \cup Identifiers(Top.records)
  /\ UNCHANGED <<db, phase, parameters, parent, reply>>

LEMMA AscendsIs ==
    ASSUME TypeInv, Return, phase' # "done"
    PROVE  Ascends
<1>1. Loading /\ Len(stack) > 1
  BY DEF Return
<1>2. ~ MergeConflicts(cache, Top.records)
  BY DEF Return, Refuse
<1>3. /\ cache' = MergeAll(cache, Top.records)
      /\ included' = included \cup Identifiers(Top.records)
      /\ stack' = SubSeq(stack, 1, Len(stack) - 1)
      /\ UNCHANGED <<db, phase, parameters, parent, reply>>
  BY <1>2 DEF Return, Keep, Identifiers
<1>4. Len(stack') = Len(stack) - 1 /\ \A i \in 1..(Len(stack) - 1) : stack'[i] = stack[i]
  <2>1. stack \in Seq(ToSet(stack))
    BY DEF TypeInv, Frames
  <2>2. Len(stack) > 0
    BY <1>1, TopIs
  <2>. QED BY <1>3, <2>1, <2>2, FrontIs
<1>. QED BY <1>1, <1>3, <1>4 DEF Ascends

\* The primary collection keeps its records while anything is loaded for them.
LEMMA FirstStays ==
    ASSUME TypeInv, LoadRelationship \/ Return, phase' # "done"
    PROVE  /\ Same(stack'[1].records, stack[1].records)
           /\ UNCHANGED <<input, db, phase, parameters, parent, reply>>
<1>1. Loading /\ Len(stack) \in Nat /\ Len(stack) > 0 /\ IsFrame(Top) /\ UNCHANGED input
  BY TopIs DEF LoadRelationship, Return
<1>2. \A xs : Same(xs, xs)
  BY DEF Same
<1>3. CASE LoadRelationship
  <2>1. PICK loaded, fs : Descends(loaded, fs)
    BY <1>3, DescendsIs
  <2>2. Same(loaded.records, Top.records)
    <3>. DEFINE r == Head(Top.pending)
                m == Top.schema
                s == reg[m]
                target == reg[r.resource]
                records == Top.records
                fields == parameters.fields
                recurse == IsIncluded(Top.include, r.name)
                table == db[r.resource]
                other == LoadRelated(s, target, r, Bared(records), fields, recurse, table)
    <3>1. /\ loaded = LoadRelated(s, target, r, records, fields, recurse, table)
          /\ loaded.error = "none" /\ Records(loaded.records, m) /\ Records(records, m)
      BY <1>1, <2>1 DEF Descends, IsFrame
    <3>. HIDE DEF r, m, s, target, records, fields, recurse, table
    <3>2. other = LoadRelated(s, target, r, Bared(records), fields, recurse, table)
      OBVIOUS
    <3>. HIDE DEF other
    <3>3. Adds(loaded, other, records, r)
      BY <3>1, <3>2, LoadAdds
    <3>4. Len(loaded.records) = Len(records) /\ \A i \in 1..Len(records) : loaded.records[i].id = records[i].id
      BY <3>1, <3>3 DEF Adds
    <3>5. Same(loaded.records, records)
      BY <3>1, <3>4, SameIs
    <3>. QED BY <3>5 DEF records
  <2>3. Same(fs[1].records, stack[1].records)
    <3>1. 1 \in 1..Len(stack)
      BY <1>1
    <3>2. CASE Len(stack) = 1
      BY <2>1, <2>2, <3>2 DEF Descends, Top
    <3>3. CASE Len(stack) # 1
      BY <1>2, <2>1, <3>1, <3>3 DEF Descends
    <3>. QED BY <3>2, <3>3
  <2>4. stack'[1] = fs[1]
    <3>1. 1 \in 1..Len(stack)
      BY <1>1
    <3>. QED BY <2>1, <3>1 DEF Descends
  <2>. QED BY <1>1, <2>1, <2>3, <2>4 DEF Descends
<1>4. CASE Return
  <2>1. Ascends
    BY <1>4, AscendsIs
  <2>2. 1 \in 1..(Len(stack) - 1)
    BY <1>1, <2>1 DEF Ascends
  <2>. QED BY <1>1, <1>2, <2>1, <2>2 DEF Ascends
<1>. QED BY <1>3, <1>4

-----------------------------------------------------------------------------
(* A batch leaves as it was sent. *)

\* What a record to create left in its row.
AsSent(row, x) ==
  /\ x.id # Null => row[Schema.key.name] = x.id
  /\ \A a \in DOMAIN x.columns : row[a] = x.columns[a]
  /\ Attachable(Schema, x) =>
       \A name \in DOMAIN x.relationships :
         RelatedIds(row, Relationship(Schema, name)) = ToSet(x.relationships[name])

\* The records of a create, in the order in which they were sent.
RowBehind(row, y, x) ==
  y.kind = Schema.name /\ row[Schema.key.name] = y.id /\ AsSent(row, x)
Paired(ys) ==
  /\ Len(ys) = Len(request.batch)
  /\ \A i \in DOMAIN request.batch : \E row \in db[Schema.name] : RowBehind(row, ys[i], request.batch[i])

PairsInv ==
  /\ request.kind = "create" /\ phase = "loading" => Paired(stack[1].records)
  /\ BatchPairsRowsWithRecords

LEMMA PairedStays ==
    ASSUME UNCHANGED input, UNCHANGED db, NEW xs, NEW ys, Same(ys, xs), DOMAIN request.batch = 1..Len(request.batch),
           Paired(xs)
    PROVE  Paired(ys)'
<1>1. UNCHANGED <<request, reg, Schema, db>>
  BY InputStays
<1>2. ASSUME NEW r, NEW ids PROVE TargetRows(r, ids)' = TargetRows(r, ids)
  BY <1>1 DEF TargetRows
<1>3. ASSUME NEW s, NEW x PROVE Attachable(s, x)' <=> Attachable(s, x)
  BY <1>1, <1>2 DEF Attachable
<1>4. ASSUME NEW row, NEW r PROVE RelatedIds(row, r)' = RelatedIds(row, r)
  BY <1>1 DEF RelatedIds
<1>5. ASSUME NEW row, NEW x PROVE AsSent(row, x)' <=> AsSent(row, x)
  BY <1>1, <1>3, <1>4 DEF AsSent
<1>6. Len(ys) = Len(request.batch)
  BY DEF Same, Paired
<1>7. ASSUME NEW i \in DOMAIN request.batch
      PROVE  \E row \in db[Schema.name] : RowBehind(row, ys[i], request.batch[i])'
  <2>1. PICK row \in db[Schema.name] : RowBehind(row, xs[i], request.batch[i])
    BY DEF Paired
  <2>2. ys[i].kind = xs[i].kind /\ ys[i].id = xs[i].id
    BY DEF Same, Paired
  <2>. QED BY <1>1, <1>5, <2>1, <2>2 DEF RowBehind
<1>. QED BY <1>1, <1>6, <1>7 DEF Paired

LEMMA CreatePairs ==
    ASSUME TypeInv, TruthInv, UNCHANGED input, phase = "querying", CreateCollection, phase' # "done",
           NEW ys, ys = stack'[1].records
    PROVE  Paired(ys)'
<1>1. Given /\ Consistent(schemas) /\ Closed(reg) /\ KeptAll(reg, db) /\ request.kind = "create"
  BY RegistryIsClosed DEF TypeInv, TruthInv, CreateCollection
<1>2. PICK setters \in AllSetters(Schema, request.batch) : ~ FailsToAttach /\ Stores(setters)
  <2>1. \A error : Refuse(error) => phase' = "done"
    BY DEF Refuse
  <2>. QED BY <1>1, <2>1, CreateIs DEF Rejects
<1>. DEFINE m == Schema.name
            s == Schema
            batch == request.batch
            fields == parameters.fields
            after == db'
<1>3. PICK stored : Wrote(stored, batch, s, fields, reg, db, after) /\ Creates(stored, m, after)
  BY <1>1, <1>2, CreateWrites, StoresIs
<1>. DEFINE xs == Refreshed(s, batch, Selected(stored, ColumnsFor(s, fields)))
<1>4. m \in DOMAIN reg /\ s = reg[m] /\ UNCHANGED <<request, reg, Schema>>
  BY <1>1, TargetsAre, InputStays
<1>5. ys = xs /\ Grown(stored, m, reg, db, after)
  BY <1>3 DEF Creates
<1>6. /\ stored \in Seq(ToSet(stored)) /\ Len(stored) = Len(batch) /\ DOMAIN batch = 1..Len(batch)
      /\ \A i \in 1..Len(batch) : Drafted(batch[i], s) /\ StoredAs(stored[i], batch[i], s, reg, db)
  BY <1>3 DEF Wrote
<1>7. /\ KeptAll(reg, after) /\ (\A k \in DOMAIN reg : db[k] \subseteq after[k])
      /\ \A i \in 1..Len(stored) : stored[i] \in after[m]
  BY <1>5 DEF Grown
<1>8. Len(xs) = Len(batch) /\ \A i \in 1..Len(batch) : xs[i].kind = m /\ xs[i].id = stored[i][s.key.name]
  <2>. DEFINE spared == {r.name : r \in Relationships(s)}
  <2>1. \A i \in 1..Len(batch) : Settled(batch[i], s, spared, reg, after)
    BY DEF Settled, LinkedBy
  <2>. HIDE DEF m, s, batch, fields, after, spared
  <2>2. xs = Refreshed(s, batch, Selected(stored, ColumnsFor(s, fields)))
    BY DEF xs
  <2>. HIDE DEF xs
  <2>3. /\ Records(xs, m) /\ Len(xs) = Len(batch)
        /\ \A i \in 1..Len(batch) : xs[i].id = stored[i][s.key.name]
    BY <1>1, <1>3, <1>4, <2>1, <2>2, CreatedIsTrue
  <2>. QED BY <2>3 DEF Records, IsRecord
<1>. HIDE DEF xs
<1>13. Len(ys) = Len(batch) /\ \A i \in 1..Len(batch) : ys[i].kind = m /\ ys[i].id = stored[i][s.key.name]
  BY <1>5, <1>8
<1>. HIDE DEF m, s, batch, fields, after
<1>9. ASSUME NEW i \in 1..Len(batch), NEW x, x = batch[i], NEW row, row = stored[i], Attachable(Schema, x)',
             NEW name \in DOMAIN x.relationships
      PROVE  RelatedIds(row, Relationship(Schema, name))' = ToSet(x.relationships[name])
  <2>1. Settled(x, s, {}, reg, after)
    <3>1. ASSUME NEW r \in LinkedBy(s, x)
          PROVE  /\ \A q \in LinkedBy(s, x) : q.own = r.own => q = r
                 /\ \A t \in after[r.resource] :
                      t[reg[r.resource].key.name] \in ToSet(x.relationships[r.name]) => t[r.related] # Null
      <4>1. /\ \A q \in LinkedBy(s, x) : q.own = r.own => q = r
            /\ \A t \in TargetRows(r, x.relationships[r.name])' : t[r.related] # Null
        BY <1>4, <1>9 DEF Attachable, s
      <4>2. TargetRows(r, x.relationships[r.name])'
              = {t \in after[r.resource] : t[reg[r.resource].key.name] \in ToSet(x.relationships[r.name])}
        BY <1>4 DEF TargetRows, after
      <4>. QED BY <4>1, <4>2
    <3>. QED BY <3>1 DEF Settled
  <2>2. row \in after[m] /\ Drafted(x, s) /\ StoredAs(row, x, s, reg, db) /\ name \in DOMAIN x.relationships \ {}
    BY <1>6, <1>7, <1>9
  <2>3. Exactly(x.relationships[name], Leads(row, Relationship(s, name), reg, after))
    <3>. DEFINE spared == {}
    <3>1. Settled(x, s, spared, reg, after) /\ name \in DOMAIN x.relationships \ spared
      BY <2>1, <2>2
    <3>. HIDE DEF spared
    <3>. QED BY <1>1, <1>4, <1>7, <2>2, <3>1, SettledLeads
  <2>. DEFINE r == Relationship(Schema, name)
  <2>4. r' = r
    BY <1>4
  <2>5. RelatedIds(row, r)' = Leads(row, r, reg, after)
    BY <1>4, <2>4 DEF RelatedIds, Leads, after
  <2>. QED BY <2>3, <2>5 DEF Exactly, s
<1>10. ASSUME NEW i \in 1..Len(batch), NEW x, x = batch[i], NEW row, row = stored[i]
       PROVE  RowBehind(row, ys[i], x)'
  <2>1. x.id # Null => row[s.key.name] = x.id
    BY <1>6, <1>10 DEF StoredAs
  <2>2. \A a \in DOMAIN x.columns : row[a] = x.columns[a]
    BY <1>6, <1>10 DEF StoredAs
  <2>3. Attachable(Schema, x)' => \A name \in DOMAIN x.relationships :
          RelatedIds(row, Relationship(Schema, name))' = ToSet(x.relationships[name])
    BY <1>9, <1>10
  <2>4. ys[i].kind = m /\ row[s.key.name] = ys[i].id
    BY <1>10, <1>13
  <2>5. AsSent(row, x)'
    BY <1>4, <2>1, <2>2, <2>3 DEF AsSent, s, batch
  <2>. QED BY <1>4, <2>4, <2>5 DEF RowBehind, s, m, batch
<1>11. Len(ys) = Len(batch) /\ \A i \in DOMAIN batch : stored[i] \in after[m]
  BY <1>6, <1>7, <1>13
<1>. QED
  BY <1>4, <1>6, <1>10, <1>11 DEF Paired, batch, after, m

\* A request is answered when its collection is loaded, or when its parent
\* leads to nothing.
AnsweredEarly ==
  request.kind \in {"related", "linkage"} /\ reply'.primary = <<>> /\ reply'.included = {}

LEMMA RefusedIs ==
    ASSUME NEW error, error # "none", Refuse(error)
    PROVE  ~ Answered'
<1>1. reply'.error = error
  BY DEF Refuse, Unanswered
<1>. QED BY <1>1 DEF Answered

LEMMA LoadAnswerIs ==
    ASSUME NEW s, NEW answer, NEW p, NEW next, next # "done", LoadAnswer(s, answer, p, next)
    PROVE  ~ Answered'
<1>1. CASE answer.error # "none"
  BY <1>1, RefusedIs DEF LoadAnswer
<1>2. CASE answer.error = "none"
  BY <1>2 DEF LoadAnswer, Answered
<1>. QED BY <1>1, <1>2

LEMMA FetchAnswers ==
    ASSUME TypeInv, Fetch, Answered'
    PROVE  AnsweredEarly
<1>1. Given /\ "UnloadedAttributeAccess" # "none" /\ "RelatedRecordNotFound" # "none" /\ "loading" # "done"
  BY DEF TypeInv
<1>2. CASE FetchCollection \/ FetchRecord
  BY <1>1, <1>2, LoadAnswerIs DEF FetchCollection, FetchRecord
<1>3. ASSUME NEW p, NEW way, FetchedBy(p, way), request.kind \in {"related", "linkage"} PROVE AnsweredEarly
  <2>. DEFINE value == Owned(Schema, parent, Descriptor.own)
              scoped == Scoped(p, Descriptor.related, value)
              answer == Query(Target, scoped, db[Target.name], way)
  <2>1. CASE ~ Has(Schema, parent, Descriptor.own)
    BY <1>1, <1>3, <2>1, RefusedIs DEF FetchedBy
  <2>2. CASE Has(Schema, parent, Descriptor.own) /\ value = Null
    BY <1>3, <2>2 DEF FetchedBy, Respond, Document, AnsweredEarly
  <2>3. CASE Has(Schema, parent, Descriptor.own) /\ value # Null
    <3>1. LoadAnswer(Target, answer, scoped, "loading")
      BY <1>3, <2>3 DEF FetchedBy
    <3>. HIDE DEF answer, scoped
    <3>. QED BY <1>1, <3>1, LoadAnswerIs
  <2>. QED BY <2>1, <2>2, <2>3
<1>4. CASE FetchRelatedRecords \/ PeekRelated
  <2>. DEFINE peeked == Asking(Target, reg, Put(<<>>, Target.name, {}))
  <2>1. \E p \in {parameters, peeked} : FetchRelated(p)
    BY <1>4 DEF FetchRelatedRecords, PeekRelated
  <2>2. request.kind \in {"related", "linkage"}
    BY <1>4 DEF FetchRelatedRecords, PeekRelated
  <2>. HIDE DEF peeked
  <2>. QED BY <1>3, <2>1, <2>2, FetchedIs
<1>5. CASE CreateCollection
  <2>1. ASSUME NEW setters, Rejects(setters) PROVE FALSE
    <3>. DEFINE fault == InsertFault(Schema, RowsOf(Schema, request.batch, setters), parameters.fields, reg, db)
    <3>1. fault # "none" /\ Refuse(Mapped(fault))
      BY <2>1 DEF Rejects
    <3>. HIDE DEF fault
    <3>2. Mapped(fault) # "none"
      BY <3>1 DEF Mapped
    <3>. QED BY <3>1, <3>2, RefusedIs
  <2>2. ASSUME NEW setters, Stores(setters) PROVE FALSE
    BY <2>2 DEF Stores, Answered
  <2>. QED BY <1>1, <1>5, <2>1, <2>2, CreateIs, RefusedIs
<1>. QED BY <1>2, <1>4, <1>5 DEF Fetch

LEMMA AnswersAre ==
    ASSUME TypeInv, Next, ~ Finish, Answered'
    PROVE  AnsweredEarly
<1>1. phase' = "done"
  BY DEF Answered
<1>2. "InconsistentSchema" # "none" /\ "DataLoadingError" # "none" /\ "loading parent" # "done"
  OBVIOUS
<1>3. CASE TryBuild
  BY <1>1, <1>2, <1>3, RefusedIs DEF TryBuild
<1>4. CASE FetchParent
  BY <1>2, <1>4, LoadAnswerIs DEF FetchParent
<1>5. CASE ParseQuery
  <2>. DEFINE p == Parse(request.query, Target, reg)
  <2>1. p.error # "none" /\ Refuse(p.error)
    BY <1>1, <1>5 DEF ParseQuery
  <2>. HIDE DEF p
  <2>. QED BY <2>1, RefusedIs
<1>6. CASE Fetch
  BY <1>6, FetchAnswers
<1>7. CASE LoadRelationship
  <2>. DEFINE r == Head(Top.pending)
              target == reg[r.resource]
              loaded == LoadRelated(reg[Top.schema], target, r, Top.records, parameters.fields,
                                    IsIncluded(Top.include, r.name), db[target.name])
  <2>1. \/ loaded.error # "none" /\ Refuse(loaded.error)
        \/ Refuse("DataLoadingError")
        \/ UNCHANGED phase
    BY <1>7 DEF LoadRelationship
  <2>2. phase # "done"
    BY <1>7 DEF LoadRelationship, Loading
  <2>. HIDE DEF loaded
  <2>. QED BY <1>1, <1>2, <2>1, <2>2, RefusedIs
<1>8. CASE Return
  <2>1. Refuse("DataLoadingError") \/ UNCHANGED phase
    BY <1>8 DEF Return
  <2>2. phase # "done"
    BY <1>8 DEF Return, Loading
  <2>. QED BY <1>1, <1>2, <2>1, <2>2, RefusedIs
<1>9. CASE FinishParent
  BY <1>1, <1>9 DEF FinishParent
<1>. QED BY <1>3, <1>4, <1>5, <1>6, <1>7, <1>8, <1>9 DEF Next

LEMMA FinishPairs == ASSUME TypeInv, TruthInv, PairsInv, Finish PROVE BatchPairsRowsWithRecords'
<1>1. UNCHANGED input /\ phase = "loading" /\ Loading /\ Len(stack) = 1 /\ Consistent(schemas) /\ Given
  BY DEF Finish, CollectionLoaded, TypeInv, Loading
<1>2. UNCHANGED <<request, reg, Schema>>
  BY <1>1, InputStays
<1>3. SUFFICES ASSUME Answered', request.kind = "create" PROVE BatchPairsRowsWithRecords'
  BY <1>2 DEF BatchPairsRowsWithRecords
<1>. DEFINE xs == Top.records
            ys == reply'.primary
<1>4. ys = [i \in DOMAIN xs |-> Resource(xs[i])] /\ UNCHANGED db
  <2>1. ~ TooMany
    BY <1>3 DEF TooMany
  <2>. QED BY <1>3, <2>1 DEF Finish, Respond, Document
<1>5. Paired(xs) /\ xs \in Seq(ToSet(xs)) /\ Closed(reg) /\ KeptAll(reg, db)
  <2>1. Top = stack[1] /\ IsFrame(Top) /\ Closed(reg)
    BY <1>1, TopIs DEF Top
  <2>. QED BY <1>1, <1>3, <2>1 DEF PairsInv, TruthInv, IsFrame, Records
<1>6. Len(ys) = Len(xs) /\ \A i \in 1..Len(xs) : ys[i].kind = xs[i].kind /\ ys[i].id = xs[i].id
  <2>1. DOMAIN xs = 1..Len(xs) /\ Len(xs) \in Nat
    BY <1>5
  <2>2. \A i \in 1..Len(xs) : ys[i] = Resource(xs[i])
    BY <1>4, <2>1
  <2>3. Len(ys) = Len(xs)
    BY <1>4, <2>1
  <2>4. \A x : Resource(x).kind = x.kind /\ Resource(x).id = x.id
    BY DEF Resource
  <2>. HIDE DEF xs, ys
  <2>. QED BY <2>2, <2>3, <2>4
<1>7. DOMAIN request.batch = 1..Len(request.batch)
  BY <1>1 DEF Given
<1>. HIDE DEF xs, ys
<1>8. Schema.name \in DOMAIN reg /\ reg[Schema.name] = Schema
  BY <1>1, TargetsAre
<1>9. ASSUME NEW r, NEW ids PROVE TargetRows(r, ids)' = TargetRows(r, ids)
  BY <1>2, <1>4 DEF TargetRows
<1>10. ASSUME NEW s, NEW x PROVE Attachable(s, x)' <=> Attachable(s, x)
  BY <1>2, <1>9 DEF Attachable
<1>11. ASSUME NEW row, NEW r PROVE RelatedIds(row, r)' = RelatedIds(row, r)
  BY <1>2, <1>4 DEF RelatedIds
<1>12. ASSUME NEW y PROVE RowOf(y)' = RowOf(y)
  BY <1>2, <1>4 DEF RowOf, RowsWithId
<1>13. ASSUME NEW i \in DOMAIN request.batch, NEW x, x = request.batch[i]
       PROVE  RowOf(ys[i]) \in db[Schema.name] /\ RowBehind(RowOf(ys[i]), ys[i], x)
  <2>1. PICK row \in db[Schema.name] : RowBehind(row, xs[i], x)
    BY <1>5, <1>13 DEF Paired
  <2>2. i \in 1..Len(xs)
    BY <1>5, <1>7 DEF Paired
  <2>3. ys[i].kind = Schema.name /\ row[Schema.key.name] = ys[i].id
    BY <1>6, <2>1, <2>2 DEF RowBehind
  <2>4. RowsWithId(ys[i].kind, ys[i].id) = {row}
    BY <1>5, <1>8, <2>3, RowIsFound
  <2>5. RowOf(ys[i]) = row
    BY <2>4 DEF RowOf
  <2>. QED BY <2>1, <2>3, <2>5 DEF RowBehind
<1>14. ASSUME NEW i \in DOMAIN request.batch
       PROVE  LET x == request.batch[i]
                  row == RowOf(ys[i])
              IN /\ x.id # Null => ys[i].id = x.id
                 /\ \A a \in DOMAIN x.columns : row[a] = x.columns[a]
                 /\ Attachable(Schema, x) => \A name \in DOMAIN x.relationships :
                      RelatedIds(row, Relationship(Schema, name)) = ToSet(x.relationships[name])
  BY <1>13 DEF RowBehind, AsSent
<1>15. Len(ys) = Len(request.batch)
  BY <1>5, <1>6 DEF Paired
<1>. QED BY <1>2, <1>10, <1>11, <1>12, <1>14, <1>15 DEF BatchPairsRowsWithRecords, ys

LEMMA PairsNext == TypeInv /\ TruthInv /\ PairsInv /\ [Next]_vars => PairsInv'
<1>. SUFFICES ASSUME TypeInv, TruthInv, PairsInv, [Next]_vars PROVE PairsInv'
  OBVIOUS
<1>1. CASE UNCHANGED vars
  <2>1. UNCHANGED <<db, phase, stack, reply>> /\ UNCHANGED input
    BY <1>1 DEF vars, input
  <2>2. UNCHANGED <<request, reg, Schema>>
    BY <2>1, InputStays
  <2>3. ASSUME NEW r, NEW ids PROVE TargetRows(r, ids)' = TargetRows(r, ids)
    BY <2>1, <2>2 DEF TargetRows
  <2>4. ASSUME NEW s, NEW x PROVE Attachable(s, x)' <=> Attachable(s, x)
    BY <2>2, <2>3 DEF Attachable
  <2>5. ASSUME NEW row, NEW r PROVE RelatedIds(row, r)' = RelatedIds(row, r)
    BY <2>1, <2>2 DEF RelatedIds
  <2>6. ASSUME NEW y PROVE RowOf(y)' = RowOf(y)
    BY <2>1, <2>2 DEF RowOf, RowsWithId
  <2>7. BatchPairsRowsWithRecords'
    BY <2>1, <2>2, <2>4, <2>5, <2>6 DEF PairsInv, BatchPairsRowsWithRecords, Answered
  <2>8. Paired(stack[1].records) => Paired(stack[1].records)'
    BY <2>1, <2>2, <2>4, <2>5 DEF Paired, RowBehind, AsSent
  <2>. QED BY <2>1, <2>2, <2>7, <2>8 DEF PairsInv
<1>2. CASE Next
  <2>1. UNCHANGED input
    BY <1>2 DEF Next, TryBuild, FetchParent, ParseQuery, Fetch, LoadRelationship, Return, FinishParent, Finish
  <2>2. UNCHANGED request /\ Given
    BY <2>1, InputStays DEF TypeInv
  <2>3. CASE request.kind # "create"
    BY <2>2, <2>3 DEF PairsInv, BatchPairsRowsWithRecords
  <2>4. CASE request.kind = "create"
    <3>1. BatchPairsRowsWithRecords'
      <4>1. CASE Finish
        BY <4>1, FinishPairs
      <4>2. CASE ~ Finish
        <5>1. ~ Answered'
          BY <1>2, <2>4, <4>2, AnswersAre DEF AnsweredEarly
        <5>. QED BY <5>1 DEF BatchPairsRowsWithRecords
      <4>. QED BY <4>1, <4>2
    <3>2. ASSUME phase' = "loading", NEW ys, ys = stack'[1].records PROVE Paired(ys)'
      <4>1. CASE LoadRelationship \/ Return
        <5>. DEFINE xs == stack[1].records
        <5>1. Same(ys, xs) /\ UNCHANGED <<db, phase>>
          BY <3>2, <4>1, FirstStays
        <5>2. Paired(xs)
          BY <2>4, <3>2, <5>1 DEF PairsInv
        <5>3. DOMAIN request.batch = 1..Len(request.batch)
          BY <2>2 DEF Given
        <5>4. PICK zs : zs = xs
          OBVIOUS
        <5>. HIDE DEF xs
        <5>. QED BY <2>1, <5>1, <5>2, <5>3, <5>4, PairedStays
      <4>2. CASE Fetch
        <5>1. phase = "querying" /\ CreateCollection
          BY <2>4, <4>2 DEF Fetch, FetchCollection, FetchRecord, FetchRelatedRecords, PeekRelated
        <5>. QED BY <2>1, <3>2, <5>1, CreatePairs
      <4>3. CASE ~ (LoadRelationship \/ Return \/ Fetch)
        <5>1. TryBuild \/ FetchParent \/ ParseQuery \/ FinishParent \/ Finish
          BY <1>2, <4>3 DEF Next
        <5>2. FALSE
          BY <3>2, <5>1 DEF TryBuild, FetchParent, ParseQuery, FinishParent, Finish, LoadAnswer, Refuse, Respond
        <5>. QED BY <5>2
      <4>. QED BY <4>1, <4>2, <4>3
    <3>3. phase' = "loading" => Paired(stack[1].records)'
      <4>1. ASSUME phase' = "loading" PROVE Paired(stack[1].records)'
        <5>1. PICK ys : ys = stack'[1].records
          OBVIOUS
        <5>2. Paired(ys)'
          BY <3>2, <4>1, <5>1
        <5>. QED BY <5>1, <5>2 DEF Paired
      <4>. QED BY <4>1
    <3>. QED BY <2>2, <3>1, <3>3 DEF PairsInv
  <2>. QED BY <2>3, <2>4
<1>. QED BY <1>1, <1>2

\* A record of a batch is answered with its own row, for any batch, tables and
\* declarations: what insert_batch pairs by position belongs together.
THEOREM BatchesArePaired == Spec => []BatchPairsRowsWithRecords
<1>1. Init => TypeInv /\ FieldsInv /\ TruthInv /\ PairsInv
  <2>1. Init => PairsInv
    BY DEF Init, PairsInv, BatchPairsRowsWithRecords, Answered
  <2>. QED BY <2>1, TypeInit, InitHonest, InitTrue
<1>2. TypeInv /\ FieldsInv /\ TruthInv /\ PairsInv /\ [Next]_vars
        => (TypeInv /\ FieldsInv /\ TruthInv /\ PairsInv)'
  BY TypeNext, FieldsNext, TruthNext, PairsNext
<1>3. TypeInv /\ FieldsInv /\ TruthInv /\ PairsInv => BatchPairsRowsWithRecords
  BY DEF PairsInv
<1>. QED BY <1>1, <1>2, <1>3, PTL DEF Spec

-----------------------------------------------------------------------------
(* Full linkage. *)

Linkable == request.kind # "linkage" /\ HidesNothing

\* An answer is tied to its primary data.
LinksTold ==
  WithRecords /\ HidesNothing =>
    /\ IsFiniteSet(ShownResources)
    /\ Tied({Identifier(x) : x \in ToSet(reply.primary)}, ShownResources, reg, db)

LinksInv ==
  /\ phase = "loading" /\ Linkable =>
       LinksLoading(stack, cache, included, parameters.fields, reg, db)
  /\ LinksTold

LEMMA SameIdentifiers ==
    ASSUME NEW xs, NEW ys, NEW m, Records(xs, m), Records(ys, m), Same(ys, xs)
    PROVE  Identifiers(ys) = Identifiers(xs)
<1>1. /\ ToSet(xs) = {xs[i] : i \in 1..Len(xs)} /\ ToSet(ys) = {ys[i] : i \in 1..Len(ys)}
  BY SequenceIs DEF Records, ToSet
<1>2. Len(ys) = Len(xs) /\ \A i \in 1..Len(xs) : Identifier(ys[i]) = Identifier(xs[i])
  BY DEF Same, Identifier
<1>. QED BY <1>1, <1>2 DEF Identifiers

LEMMA HeldIs ==
    ASSUME NEW fs, Len(fs) \in Nat, Len(fs) > 0, NEW c, NEW keys, NEW low, low = Stacked(fs, Len(fs) - 1)
    PROVE  Held(fs, c, keys) = low \cup ToSet(fs[Len(fs)].records) \cup Shelved(c, keys)
BY StackedIs DEF Held

\* What a step on the loader relies on.
LEMMA LinksAreLoading ==
    ASSUME TypeInv, FieldsInv, TruthInv, LinksInv, phase = "loading", Linkable
    PROVE  /\ Loading /\ Closed(reg) /\ KeptAll(reg, db) /\ Keyed(cache) /\ CacheTrue(cache, reg, db)
           /\ Len(stack) \in Nat /\ Len(stack) > 0 /\ Top = stack[Len(stack)]
           /\ Top.schema \in DOMAIN reg /\ Records(Top.records, Top.schema)
           /\ FrameTrue(Top, IF Len(stack) = 1 THEN Unattached ELSE {}, reg, db)
           /\ FrameHonest(Top, parameters, reg, Sent)
           /\ CacheHonest(cache, parameters.fields, reg, Sent)
           /\ included \subseteq DOMAIN cache
           /\ LinksLoading(stack, cache, included, parameters.fields, reg, db)
<1>1. Loading
  BY DEF Loading
<1>2. /\ IsFrame(Top) /\ Len(stack) \in Nat /\ Len(stack) > 0 /\ Consistent(schemas) /\ Closed(reg)
  BY <1>1, TopIs
<1>3. KeptAll(reg, db) /\ TrueLoading(stack, cache, Unattached, reg, db)
  BY <1>1, <1>2 DEF TruthInv
<1>4. HonestLoading(stack, cache, included, parameters, reg, Sent)
  BY DEF FieldsInv, Linkable
<1>5. Len(stack) \in 1..Len(stack) /\ Top = stack[Len(stack)]
  BY <1>2 DEF Top
<1>6. FrameTrue(Top, IF Len(stack) = 1 THEN Unattached ELSE {}, reg, db) /\ CacheTrue(cache, reg, db)
  BY <1>3, <1>5 DEF TrueLoading
<1>7. FrameHonest(Top, parameters, reg, Sent) /\ CacheHonest(cache, parameters.fields, reg, Sent)
  BY <1>4, <1>5 DEF HonestLoading
<1>8. Keyed(cache) /\ included \subseteq DOMAIN cache
  BY DEF TypeInv
<1>9. LinksLoading(stack, cache, included, parameters.fields, reg, db)
  BY DEF LinksInv
<1>. QED BY <1>1, <1>2, <1>3, <1>5, <1>6, <1>7, <1>8, <1>9 DEF IsFrame

LEMMA DescendLinks ==
    ASSUME TypeInv, FieldsInv, TruthInv, LinksInv, phase = "loading", Linkable,
           NEW loaded, NEW fs, Descends(loaded, fs),
           NEW ss, ss = stack', NEW d, d = cache', NEW keys, keys = included',
           Identifiers(ss[1].records) = Identifiers(stack[1].records)
    PROVE  LinksLoading(ss, d, keys, parameters.fields, reg, db)
<1>. DEFINE r == Head(Top.pending)
            m == Top.schema
            records == Top.records
            fields == parameters.fields
            recurse == IsIncluded(Top.include, r.name)
            n == Len(stack)
            low == Stacked(stack, n - 1)
            T == ToSet(records)
            T2 == ToSet(loaded.records)
            C == Shelved(cache, keys)
            C2 == Shelved(d, keys)
            R == IF recurse THEN ToSet(loaded.related) ELSE {}
            X == Held(stack, cache, keys)
            Y == Held(ss, d, keys)
<1>1. /\ Loading /\ Closed(reg) /\ KeptAll(reg, db) /\ Keyed(cache) /\ CacheTrue(cache, reg, db)
      /\ n \in Nat /\ n > 0 /\ Top = stack[n]
      /\ m \in DOMAIN reg /\ Records(records, m)
      /\ FrameTrue(Top, IF n = 1 THEN Unattached ELSE {}, reg, db)
      /\ FrameHonest(Top, parameters, reg, Sent)
      /\ CacheHonest(cache, fields, reg, Sent)
      /\ included \subseteq DOMAIN cache
      /\ LinksLoading(stack, cache, included, fields, reg, db)
  BY LinksAreLoading
<1>2. /\ loaded = LoadRelated(reg[m], reg[r.resource], r, records, fields, recurse, db[r.resource])
      /\ loaded.error = "none" /\ r \in Relationships(reg[m])
      /\ Records(loaded.records, m) /\ Records(loaded.related, r.resource)
      /\ Len(fs) = n /\ \A i \in 1..n : i # n => fs[i] = stack[i]
      /\ fs[n].schema = m /\ fs[n].include = Top.include /\ fs[n].records = loaded.records
      /\ recurse =>
           /\ Len(ss) = n + 1 /\ \A i \in 1..n : ss[i] = fs[i]
           /\ ss[n + 1].schema = r.resource /\ ss[n + 1].include = Derive(Top.include, r.name)
           /\ ss[n + 1].records = loaded.related /\ d = cache
      /\ ~ recurse => ss = fs /\ d = MergeAll(cache, loaded.related)
      /\ keys = included
  BY DEF Descends
<1>3. IsFiniteSet(keys) /\ AllRequesting(stack, fields, reg) /\ Tied(Identifiers(stack[1].records), X, reg, db)
  BY <1>1, <1>2 DEF LinksLoading
<1>4. Requesting(Top.include, m, fields, reg)
  BY <1>1, <1>3 DEF AllRequesting
<1>5. LoadHolds(loaded, records, recurse, reg, db)
  <2>. DEFINE spared == IF n = 1 THEN Unattached ELSE {}
  <2>1. AllFaithfulBut(records, spared, reg, db) /\ Distinct(records)
    BY <1>1 DEF FrameTrue
  <2>2. recurse => IsRequested(fields, m, r.name)
    BY <1>1, <1>4, IncludedIsRequested
  <2>. HIDE DEF spared, r, m, records, fields, recurse
  <2>. QED BY <1>1, <1>2, <2>1, <2>2, LoadHoldsOn
<1>6. AllRequesting(ss, fields, reg)
  <2>1. \A i \in 1..n : Requesting(fs[i].include, fs[i].schema, fields, reg)
    BY <1>2, <1>3, <1>4 DEF AllRequesting
  <2>2. CASE recurse
    <3>1. Requesting(Derive(Top.include, r.name), r.resource, fields, reg)
      <4>1. PathsIn(Top.include, reg[m], reg, parameters.models)
        BY <1>1 DEF FrameHonest
      <4>. HIDE DEF r, m, fields
      <4>. QED BY <1>1, <1>2, <1>4, <4>1, DeriveRequests
    <3>2. \A i \in 1..(n + 1) : i = n + 1 \/ i \in 1..n
      BY <1>1
    <3>. QED BY <1>2, <2>1, <2>2, <3>1, <3>2 DEF AllRequesting
  <2>3. CASE ~ recurse
    BY <1>2, <2>1, <2>3 DEF AllRequesting
  <2>. QED BY <2>2, <2>3
<1>7. Covers(C2, C, reg, db) /\ Alike(C2, C)
  <2>1. CASE recurse
    <3>1. C2 = C
      BY <1>2, <2>1
    <3>. HIDE DEF C, C2
    <3>. QED BY <3>1 DEF Covers, ToldBy, Alike
  <2>2. CASE ~ recurse
    <3>1. d = MergeAll(cache, loaded.related) /\ keys \in SUBSET DOMAIN cache
      BY <1>1, <1>2, <2>2
    <3>2. AllFaithful(loaded.related, reg, db)
      BY <1>5 DEF LoadHolds
    <3>3. CacheTrue(d, reg, db) /\ Keyed(d)
      BY <1>1, <1>2, <3>1, <3>2, MergeAllIsTrue, MergeAllIs
    <3>4. AllHonest(loaded.related, fields, reg, Sent)
      <4>. DEFINE target == reg[r.resource]
                  s == reg[m]
      <4>1. target.name = r.resource /\ r.resource \in DOMAIN reg /\ reg[target.name] = target
        BY <1>1, <1>2 DEF Closed
      <4>2. IsFiniteSet(db[r.resource])
        BY <1>1, <4>1, RowsAre
      <4>3. LoadedFrom(loaded, s, target, r, records, fields)
        <5>. DEFINE table == db[r.resource]
        <5>1. loaded = LoadRelated(s, target, r, records, fields, recurse, table) /\ IsFiniteSet(table)
          BY <1>2, <4>2
        <5>. HIDE DEF s, target, table, r, records, fields, recurse
        <5>. QED BY <5>1, LoadRelatedIs
      <4>4. CollectionIs(target, loaded.related, fields)
        BY <1>2, <4>3 DEF LoadedFrom
      <4>. HIDE DEF target, fields
      <4>. QED BY <4>1, <4>4, ReadsAreHonest
    <3>. HIDE DEF fields, r
    <3>. QED BY <1>1, <1>2, <3>1, <3>3, <3>4, MergeCovers
  <2>. QED BY <2>1, <2>2
<1>8. X = low \cup T \cup C
  BY <1>1, HeldIs
<1>9. Y = low \cup T2 \cup R \cup C2
  <2>1. Stacked(fs, n - 1) = low
    <3>1. n - 1 \in Nat /\ \A i \in 1..(n - 1) : i \in 1..n /\ i # n
      BY <1>1
    <3>2. \A i \in 1..(n - 1) : fs[i] = stack[i]
      BY <1>2, <3>1
    <3>. HIDE DEF n
    <3>. QED BY <3>1, <3>2, StackedAlike
  <2>2. Stacked(fs, n) = low \cup T2
    <3>1. Stacked(fs, n) = Stacked(fs, n - 1) \cup ToSet(fs[n].records)
      BY <1>1, StackedIs
    <3>. QED BY <1>2, <2>1, <3>1
  <2>3. CASE recurse
    <3>1. Stacked(ss, n) = low \cup T2
      <4>1. n \in Nat /\ \A i \in 1..n : ss[i] = fs[i]
        BY <1>1, <1>2, <2>3
      <4>2. Stacked(ss, n) = Stacked(fs, n)
        <5>. HIDE DEF n
        <5>. QED BY <4>1, StackedAlike
      <4>. QED BY <2>2, <4>2
    <3>2. n + 1 \in Nat /\ n + 1 > 0 /\ (n + 1) - 1 = n
      BY <1>1
    <3>3. Stacked(ss, n + 1) = Stacked(ss, n) \cup ToSet(ss[n + 1].records)
      BY <3>2, StackedIs
    <3>4. Len(ss) = n + 1 /\ ss[n + 1].records = loaded.related
      BY <1>2, <2>3
    <3>5. R = ToSet(loaded.related)
      BY <2>3
    <3>. HIDE DEF R, T2, low, C2
    <3>. QED BY <3>1, <3>3, <3>4, <3>5 DEF Held, C2
  <2>4. CASE ~ recurse
    <3>1. ss = fs /\ Len(fs) = n /\ R = {}
      BY <1>2, <2>4
    <3>. HIDE DEF R, T2, low
    <3>. QED BY <2>2, <3>1 DEF Held
  <2>. QED BY <2>3, <2>4
<1>10. \A y \in R : LinkedTo(y, T, T2, reg, db)
  BY <1>5 DEF LoadHolds
<1>11. Covers(T2, T, reg, db) /\ Alike(T2, T)
  BY <1>5 DEF LoadHolds
<1>. HIDE DEF X, Y, T, T2, R, C, C2, low
<1>12. Grows(Y, X, reg, db)
  BY <1>7, <1>8, <1>9, <1>10, <1>11, LoadGrows
<1>13. Tied(Identifiers(stack[1].records), Y, reg, db)
  BY <1>3, <1>12, TiedGrows
<1>. QED BY <1>3, <1>6, <1>13 DEF LinksLoading, Y

LEMMA AscendLinks ==
    ASSUME TypeInv, FieldsInv, TruthInv, LinksInv, phase = "loading", Linkable, Ascends,
           NEW ss, ss = stack', NEW d, d = cache', NEW keys, keys = included',
           Identifiers(ss[1].records) = Identifiers(stack[1].records)
    PROVE  LinksLoading(ss, d, keys, parameters.fields, reg, db)
<1>. DEFINE m == Top.schema
            records == Top.records
            fields == parameters.fields
            n == Len(stack)
            low == Stacked(stack, n - 1)
            T == ToSet(records)
            C == Shelved(cache, included)
            C2 == Shelved(d, keys)
            X == Held(stack, cache, included)
            Y == Held(ss, d, keys)
<1>1. /\ Loading /\ Closed(reg) /\ KeptAll(reg, db) /\ Keyed(cache) /\ CacheTrue(cache, reg, db)
      /\ n \in Nat /\ n > 0 /\ Top = stack[n]
      /\ m \in DOMAIN reg /\ Records(records, m)
      /\ FrameTrue(Top, IF n = 1 THEN Unattached ELSE {}, reg, db)
      /\ FrameHonest(Top, parameters, reg, Sent)
      /\ CacheHonest(cache, fields, reg, Sent)
      /\ included \subseteq DOMAIN cache
      /\ LinksLoading(stack, cache, included, fields, reg, db)
  BY LinksAreLoading
<1>2. /\ n > 1 /\ Len(ss) = n - 1 /\ \A i \in 1..(n - 1) : ss[i] = stack[i]
      /\ d = MergeAll(cache, records) /\ keys = included \cup Identifiers(records)
  BY DEF Ascends
<1>3. IsFiniteSet(included) /\ AllRequesting(stack, fields, reg) /\ Tied(Identifiers(stack[1].records), X, reg, db)
  BY <1>1 DEF LinksLoading
<1>4. IsFiniteSet(keys)
  <2>1. IsFiniteSet(ToSet(records))
    BY <1>1, ElementsAreFinite DEF Records
  <2>2. IsFiniteSet(Identifiers(records))
    <3>. DEFINE S == ToSet(records)
                f == [x \in S |-> Identifier(x)]
    <3>1. DOMAIN f = S /\ f = [x \in S |-> f[x]]
      OBVIOUS
    <3>2. {f[x] : x \in S} = Identifiers(records)
      BY DEF Identifiers
    <3>. HIDE DEF f, S
    <3>3. IsFiniteSet({f[x] : x \in S})
      BY <2>1, <3>1, ImageIsFinite DEF S
    <3>. QED BY <3>2, <3>3
  <2>. DEFINE more == Identifiers(records)
  <2>3. keys = included \cup more /\ IsFiniteSet(included) /\ IsFiniteSet(more)
    BY <1>2, <1>3, <2>2
  <2>. HIDE DEF more
  <2>. QED BY <2>3, FS_Union
<1>5. AllRequesting(ss, fields, reg)
  <2>1. \A i \in 1..(n - 1) : i \in 1..n
    BY <1>1
  <2>. QED BY <1>2, <1>3, <2>1 DEF AllRequesting
<1>6. AllFaithful(records, reg, db)
  <2>1. AllFaithfulBut(records, {}, reg, db)
    BY <1>1, <1>2 DEF FrameTrue
  <2>. QED BY <2>1, NothingSpared
<1>7. CacheTrue(d, reg, db) /\ Keyed(d)
  BY <1>1, <1>2, <1>6, MergeAllIsTrue, MergeAllIs
<1>8. AllHonest(records, fields, reg, Sent)
  BY <1>1 DEF FrameHonest
<1>9. /\ Covers(Shelved(d, included), C, reg, db) /\ Alike(Shelved(d, included), C)
      /\ Covers(Shelved(d, Identifiers(records)), T, reg, db) /\ Alike(Shelved(d, Identifiers(records)), T)
  <2>1. included \in SUBSET DOMAIN cache
    BY <1>1
  <2>. HIDE DEF fields, records, m
  <2>. QED BY <1>1, <1>2, <1>7, <1>8, <2>1, MergeCovers
<1>10. C2 = Shelved(d, included) \cup Shelved(d, Identifiers(records))
  BY <1>2 DEF Shelved
<1>11. X = low \cup T \cup C
  BY <1>1, HeldIs
<1>12. Y = low \cup C2
  <2>1. n - 1 \in Nat /\ Stacked(ss, n - 1) = low
    <3>1. n - 1 \in Nat /\ \A i \in 1..(n - 1) : ss[i] = stack[i]
      BY <1>1, <1>2
    <3>. HIDE DEF n
    <3>. QED BY <3>1, StackedAlike
  <2>. QED BY <1>2, <2>1 DEF Held
<1>. HIDE DEF X, Y, T, C, C2, low
<1>13. Covers(C2, C, reg, db) /\ Covers(C2, T, reg, db)
  <2>. DEFINE A == Shelved(d, included)
              B == Shelved(d, Identifiers(records))
  <2>1. A \subseteq C2 /\ B \subseteq C2 /\ Covers(A, C, reg, db) /\ Covers(B, T, reg, db)
    BY <1>9, <1>10
  <2>. HIDE DEF A, B
  <2>. QED BY <2>1, ToldByMore DEF Covers
<1>14. Alike(C2, T \cup C)
  <2>. DEFINE A == Shelved(d, included)
              B == Shelved(d, Identifiers(records))
  <2>1. C2 = A \cup B /\ Alike(A, C) /\ Alike(B, T)
    BY <1>9, <1>10
  <2>. HIDE DEF A, B
  <2>. QED BY <2>1 DEF Alike
<1>15. Grows(Y, X, reg, db)
  BY <1>11, <1>12, <1>13, <1>14, ReturnGrows
<1>16. Tied(Identifiers(stack[1].records), Y, reg, db)
  BY <1>3, <1>15, TiedGrows
<1>. QED BY <1>4, <1>5, <1>16 DEF LinksLoading, Y

-----------------------------------------------------------------------------
(* The first collection. *)

LEMMA StartLinks ==
    ASSUME NEW byName, NEW tables, NEW s, NEW records, NEW p, StartLoading(s, records, p),
           Requesting(p.include, s.name, p.fields, byName)
    PROVE  LinksLoading(stack', cache', included', p.fields, byName, tables)
<1>. DEFINE first == Frame(s, records, p.fields, p.include)
            f == IF records = <<>> THEN [first EXCEPT !.pending = <<>>] ELSE first
            fs == <<f>>
<1>1. stack' = fs /\ cache' = <<>> /\ included' = {}
  BY DEF StartLoading
<1>2. f.schema = s.name /\ f.include = p.include /\ f.records = records
  BY DEF Frame
<1>. HIDE DEF f
<1>3. Len(fs) = 1 /\ fs[1] = f
  OBVIOUS
<1>. HIDE DEF fs
<1>4. AllRequesting(fs, p.fields, byName)
  <2>1. \A i \in 1..1 : i = 1
    OBVIOUS
  <2>. QED BY <1>2, <1>3, <2>1 DEF AllRequesting
<1>5. Held(fs, <<>>, {}) = ToSet(records)
  <2>1. Stacked(fs, 1) = Stacked(fs, 0) \cup ToSet(fs[1].records)
    BY StackedIs
  <2>2. 1..0 = {}
    OBVIOUS
  <2>3. Stacked(fs, 0) = {}
    BY <2>2 DEF Stacked
  <2>. QED BY <1>2, <1>3, <2>1, <2>3 DEF Held, Shelved
<1>6. Tied(Identifiers(fs[1].records), Held(fs, <<>>, {}), byName, tables)
  BY <1>2, <1>3, <1>5 DEF Tied, Identifiers
<1>7. IsFiniteSet({})
  BY FS_EmptySet
<1>8. LinksLoading(fs, <<>>, {}, p.fields, byName, tables)
  BY <1>4, <1>6, <1>7 DEF LinksLoading
<1>. QED BY <1>1, <1>8

\* What the client's fieldsets do to the parameters that are fetched by.
LEMMA AskedOfTarget ==
    ASSUME UNCHANGED input, Given, Consistent(schemas), HidesNothing'
    PROVE  Requesting(parameters'.include, Target.name, parameters'.fields, reg)
<1>1. UNCHANGED <<Target, reg>> /\ reg[Target.name] = Target
  BY InputStays, TargetsAre
<1>2. \A path \in parameters'.include :
        path[Len(path)] \in FieldsOf(parameters'.fields, Walk(path, Target, reg)[Len(path) - 1])
  BY <1>1 DEF HidesNothing
<1>. QED BY <1>1, <1>2 DEF Requesting

LEMMA AnswerLinks ==
    ASSUME UNCHANGED input, Given, Consistent(schemas), HidesNothing', phase' = "loading",
           NEW answer, NEW p, NEW next, LoadAnswer(Target, answer, p, next), NEW tables
    PROVE  LinksLoading(stack', cache', included', parameters'.fields, reg, tables)
<1>1. CASE answer.error # "none"
  BY <1>1 DEF LoadAnswer, Refuse
<1>2. CASE answer.error = "none"
  <2>1. parameters' = p
    BY <1>2 DEF LoadAnswer
  <2>2. PICK xs : StartLoading(Target, xs, p)
    BY <1>2 DEF LoadAnswer
  <2>. QED BY <2>1, <2>2, AskedOfTarget, StartLinks
<1>. QED BY <1>1, <1>2

LEMMA FetchLinks ==
    ASSUME TypeInv, Fetch, phase' = "loading", HidesNothing', request.kind # "linkage", NEW tables
    PROVE  LinksLoading(stack', cache', included', parameters'.fields, reg, tables)
<1>1. UNCHANGED input /\ phase = "querying" /\ Consistent(schemas) /\ Given
  BY DEF Fetch, TypeInv
<1>2. CASE FetchCollection
  <2>1. PICK way \in Ways(Schema, parameters, db[Schema.name]) :
          LoadAnswer(Schema, Query(Schema, parameters, db[Schema.name], way), parameters, "loading")
    BY <1>2 DEF FetchCollection
  <2>. DEFINE answer == Query(Schema, parameters, db[Schema.name], way)
  <2>2. LoadAnswer(Target, answer, parameters, "loading")
    BY <1>2, <2>1 DEF FetchCollection, Target
  <2>. HIDE DEF answer
  <2>. QED BY <1>1, <2>2, AnswerLinks
<1>3. CASE FetchRecord
  <2>. DEFINE answer == Find(Schema, request.id, parameters.fields, db[Schema.name])
  <2>1. LoadAnswer(Target, answer, parameters, "loading")
    BY <1>3 DEF FetchRecord, Target
  <2>. HIDE DEF answer
  <2>. QED BY <1>1, <2>1, AnswerLinks
<1>4. CASE FetchRelatedRecords
  <2>1. PICK way : FetchedBy(parameters, way)
    BY <1>4, FetchedIs DEF FetchRelatedRecords
  <2>. DEFINE value == Owned(Schema, parent, Descriptor.own)
              scoped == Scoped(parameters, Descriptor.related, value)
              answer == Query(Target, scoped, db[Target.name], way)
  <2>2. LoadAnswer(Target, answer, scoped, "loading")
    BY <2>1 DEF FetchedBy, Refuse, Respond
  <2>. HIDE DEF answer, scoped
  <2>. QED BY <1>1, <2>2, AnswerLinks
<1>5. CASE PeekRelated
  BY <1>5 DEF PeekRelated
<1>6. CASE CreateCollection
  <2>1. request.kind = "create" /\ Target = Schema
    BY <1>6 DEF CreateCollection, Target
  <2>2. \E setters \in AllSetters(Schema, request.batch) : Stores(setters)
    BY <1>1, <1>6, CreateIs DEF Rejects, Refuse
  <2>3. PICK setters \in AllSetters(Schema, request.batch) : Stores(setters)
    BY <2>2
  <2>4. parameters' = parameters /\ \E xs : StartLoading(Schema, xs, parameters)
    BY <2>3 DEF Stores
  <2>5. PICK xs : StartLoading(Schema, xs, parameters)
    BY <2>4
  <2>. QED BY <1>1, <2>1, <2>4, <2>5, AskedOfTarget, StartLinks
<1>. QED BY <1>2, <1>3, <1>4, <1>5, <1>6 DEF Fetch

-----------------------------------------------------------------------------
(* The document. *)

\* A resource shows the linkage of its record.
LEMMA TiedResources ==
    ASSUME NEW P, NEW M, Tied(P, M, reg, db), NEW R, R = {Resource(x) : x \in M}
    PROVE  Tied(P, R, reg, db)
<1>. SUFFICES ASSUME NEW K, P \subseteq K, Follows(K, R, reg, db)
              PROVE  \A y \in R : Identifier(y) \in K
  BY DEF Tied
<1>1. \A x : /\ Resource(x).kind = x.kind /\ Resource(x).id = x.id
             /\ Resource(x).relationships = x.relationships
  BY DEF Resource
<1>2. Follows(K, M, reg, db)
  <2>1. SUFFICES ASSUME NEW x \in M, NEW name \in DOMAIN x.relationships, Identifier(x) \in K,
                        Tells(x, name, reg, db)
                 PROVE  Kin(x.kind, x.id, name, reg, db) \subseteq K
    BY DEF Follows
  <2>2. PICK y \in R : y = Resource(x)
    OBVIOUS
  <2>3. y.kind = x.kind /\ y.id = x.id /\ y.relationships = x.relationships
    BY <1>1, <2>2
  <2>4. Identifier(y) \in K /\ Tells(y, name, reg, db) /\ name \in DOMAIN y.relationships
    BY <2>1, <2>3 DEF Identifier, Tells
  <2>5. Kin(y.kind, y.id, name, reg, db) \subseteq K
    BY <2>4 DEF Follows
  <2>. QED BY <2>3, <2>5
<1>3. \A x \in M : Identifier(x) \in K
  BY <1>2 DEF Tied
<1>4. \A x : Identifier(Resource(x)) = Identifier(x)
  BY <1>1 DEF Identifier
<1>. QED BY <1>3, <1>4

LEMMA TiedAreLinked ==
    ASSUME NEW R, IsFiniteSet(R), NEW P, Tied(P, R, reg, db)
    PROVE  \A y \in R : Identifier(y) \in LinkedFrom(P, R)
<1>. DEFINE K == LinkedFrom(P, R)
<1>1. P \subseteq K /\ \A x \in R : Identifier(x) \in K => LinksOf(x) \subseteq K
  BY LinkedFromSettles
<1>. HIDE DEF K
<1>2. Follows(K, R, reg, db)
  <2>1. SUFFICES ASSUME NEW x \in R, NEW name \in DOMAIN x.relationships, Identifier(x) \in K,
                        Tells(x, name, reg, db)
                 PROVE  Kin(x.kind, x.id, name, reg, db) \subseteq K
    BY DEF Follows
  <2>2. {<<Relationship(reg[x.kind], name).resource, id>> : id \in ToSet(x.relationships[name])} \subseteq LinksOf(x)
    BY DEF LinksOf
  <2>3. Kin(x.kind, x.id, name, reg, db)
          \subseteq {<<Relationship(reg[x.kind], name).resource, id>> : id \in ToSet(x.relationships[name])}
    BY <2>1 DEF Tells
  <2>. QED BY <1>1, <2>1, <2>2, <2>3
<1>3. \A y \in R : Identifier(y) \in K
  BY <1>1, <1>2 DEF Tied
<1>. QED BY <1>3 DEF K

LEMMA ToldIsLinked == ASSUME LinksTold PROVE FullLinkage
<1>. SUFFICES ASSUME WithRecords, HidesNothing, NEW x \in reply.included
              PROVE  Identifier(x) \in LinkedFrom({Identifier(y) : y \in ToSet(reply.primary)}, ShownResources)
  BY DEF FullLinkage
<1>. DEFINE R == ShownResources
            P == {Identifier(y) : y \in ToSet(reply.primary)}
<1>1. IsFiniteSet(R) /\ Tied(P, R, reg, db) /\ x \in R
  BY DEF LinksTold, ShownResources
<1>. HIDE DEF R, P
<1>2. Identifier(x) \in LinkedFrom(P, R)
  BY <1>1, TiedAreLinked
<1>. QED BY <1>2 DEF P, R

LEMMA FinishTold == ASSUME TypeInv, FieldsInv, TruthInv, LinksInv, Finish PROVE LinksTold'
<1>1. UNCHANGED input /\ phase = "loading" /\ Loading /\ Len(stack) = 1 /\ Consistent(schemas) /\ Given
  BY DEF Finish, CollectionLoaded, TypeInv, Loading
<1>2. UNCHANGED <<request, reg, Target>>
  BY <1>1, InputStays
<1>3. SUFFICES ASSUME Answered', request.kind # "linkage", HidesNothing'
               PROVE  /\ IsFiniteSet(ShownResources')
                      /\ Tied({Identifier(x) : x \in ToSet(reply'.primary)}, ShownResources', reg, db')
  BY <1>2 DEF LinksTold, WithRecords
<1>. DEFINE xs == Top.records
            M == ToSet(xs) \cup Shelved(cache, included)
            R == {Resource(x) : x \in M}
<1>4. /\ reply' = Document([i \in DOMAIN xs |-> Resource(xs[i])], {Resource(x) : x \in Included})
      /\ UNCHANGED <<db, parameters>>
  <2>1. ~ TooMany
    <3>1. TooMany => Refuse("UnexpectedCollection")
      BY DEF Finish
    <3>2. "UnexpectedCollection" # "none"
      OBVIOUS
    <3>. QED BY <1>3, <3>1, <3>2, RefusedIs
  <2>. QED BY <1>3, <2>1 DEF Finish, Respond
<1>5. Linkable
  BY <1>2, <1>3, <1>4 DEF Linkable, HidesNothing
<1>6. /\ Top = stack[1] /\ Records(xs, Top.schema) /\ included \subseteq DOMAIN cache
      /\ LinksLoading(stack, cache, included, parameters.fields, reg, db)
  BY <1>1, <1>5, LinksAreLoading
<1>7. IsFiniteSet(M)
  <2>1. IsFiniteSet(ToSet(xs)) /\ IsFiniteSet(included)
    BY <1>6, ElementsAreFinite DEF Records, LinksLoading
  <2>2. IsFiniteSet(Shelved(cache, included))
    <3>. DEFINE f == [key \in included |-> cache[key]]
    <3>1. DOMAIN f = included /\ {f[key] : key \in included} = Shelved(cache, included)
      BY DEF Shelved
    <3>2. f = [key \in included |-> f[key]]
      OBVIOUS
    <3>. HIDE DEF f
    <3>3. IsFiniteSet({f[key] : key \in included})
      BY <2>1, <3>1, <3>2, ImageIsFinite
    <3>. QED BY <3>1, <3>3
  <2>. DEFINE A == ToSet(xs)
              B == Shelved(cache, included)
  <2>3. IsFiniteSet(A) /\ IsFiniteSet(B) /\ M = A \cup B
    BY <2>1, <2>2
  <2>. HIDE DEF A, B, M
  <2>. QED BY <2>3, FS_Union
<1>8. M = Held(stack, cache, included)
  <2>1. Stacked(stack, 1) = Stacked(stack, 0) \cup ToSet(stack[1].records)
    BY StackedIs
  <2>2. 1..0 = {}
    OBVIOUS
  <2>3. Stacked(stack, 0) = {}
    BY <2>2 DEF Stacked
  <2>. QED BY <1>1, <1>6, <2>1, <2>3 DEF Held
<1>9. Included = Shelved(cache, included)
  <2>1. included \cap DOMAIN cache = included
    BY <1>6
  <2>. QED BY <2>1 DEF Included, Shelved
<1>10. ToSet(reply'.primary) = {Resource(x) : x \in ToSet(xs)} /\ reply'.included = {Resource(x) : x \in Included}
  BY <1>4 DEF Document, ToSet
<1>11. ShownResources' = R
  BY <1>9, <1>10 DEF ShownResources
<1>12. {Identifier(x) : x \in ToSet(reply'.primary)} = Identifiers(stack[1].records)
  <2>1. \A x : Identifier(Resource(x)) = Identifier(x)
    BY DEF Resource, Identifier
  <2>. QED BY <1>6, <1>10, <2>1 DEF Identifiers
<1>13. Tied(Identifiers(stack[1].records), M, reg, db)
  BY <1>6, <1>8 DEF LinksLoading
<1>14. IsFiniteSet(R)
  <2>. DEFINE f == [x \in M |-> Resource(x)]
  <2>1. DOMAIN f = M /\ {f[x] : x \in M} = R /\ f = [x \in M |-> f[x]]
    OBVIOUS
  <2>. HIDE DEF f, M, R
  <2>2. IsFiniteSet({f[x] : x \in M})
    BY <1>7, <2>1, ImageIsFinite
  <2>. QED BY <2>1, <2>2
<1>15. Tied(Identifiers(stack[1].records), R, reg, db)
  <2>. HIDE DEF M
  <2>. QED BY <1>13, TiedResources
<1>. HIDE DEF R
<1>. QED BY <1>4, <1>11, <1>12, <1>14, <1>15

LEMMA LoadsLinks ==
    ASSUME TypeInv, FieldsInv, TruthInv, LinksInv, LoadRelationship \/ Return, phase' = "loading", Linkable
    PROVE  LinksLoading(stack', cache', included', parameters.fields, reg, db)
<1>1. phase' # "done" /\ TypeInv'
  <2>1. Next
    BY DEF Next
  <2>. QED BY <2>1, TypeNext
<1>2. Same(stack'[1].records, stack[1].records) /\ UNCHANGED <<input, db, phase, parameters>>
  BY <1>1, FirstStays
<1>3. phase = "loading"
  BY <1>2
<1>4. PICK ss, d, keys : ss = stack' /\ d = cache' /\ keys = included'
  OBVIOUS
<1>5. Identifiers(ss[1].records) = Identifiers(stack[1].records)
  <2>. DEFINE xs == stack[1].records
              ys == ss[1].records
  <2>1. \E m : Records(xs, m)
    <3>1. Loading /\ Len(stack) \in Nat /\ Len(stack) > 0
      BY <1>3, TopIs DEF Loading
    <3>2. 1 \in 1..Len(stack)
      BY <3>1
    <3>. QED BY <3>2 DEF TypeInv, Frames, IsFrame
  <2>2. \E m : Records(ys, m)
    <3>1. Frames(stack)' /\ (Loading <=> stack # <<>> /\ phase # "done")'
      BY <1>1 DEF TypeInv
    <3>2. ss # <<>> /\ ss \in Seq(ToSet(ss)) /\ \A i \in 1..Len(ss) : \E m : Records(ss[i].records, m)
      BY <1>4, <3>1 DEF Loading, Frames, IsFrame
    <3>3. 1 \in 1..Len(ss)
      BY <3>2
    <3>. QED BY <3>2, <3>3
  <2>3. Same(ys, xs)
    BY <1>2, <1>4
  <2>4. \A m, n : Records(xs, m) /\ Records(ys, n) => Records(ys, m) \/ xs = <<>>
    BY <2>3 DEF Same, Records, IsRecord
  <2>. HIDE DEF xs, ys
  <2>5. PICK m : Records(xs, m)
    BY <2>1
  <2>6. PICK n : Records(ys, n)
    BY <2>2
  <2>7. CASE Records(ys, m)
    BY <2>3, <2>5, <2>7, SameIdentifiers DEF xs, ys
  <2>8. CASE xs = <<>>
    <3>1. Len(xs) = 0 /\ Len(ys) = 0
      BY <2>3, <2>8 DEF Same
    <3>2. ToSet(xs) = {} /\ ToSet(ys) = {}
      BY <2>5, <2>6, <3>1, SequenceIs DEF Records, ToSet
    <3>. QED BY <3>2 DEF Identifiers, xs, ys
  <2>. QED BY <2>4, <2>5, <2>6, <2>7, <2>8
<1>6. CASE LoadRelationship
  <2>1. PICK loaded, fs : Descends(loaded, fs)
    BY <1>1, <1>6, DescendsIs
  <2>2. LinksLoading(ss, d, keys, parameters.fields, reg, db)
    BY <1>3, <1>4, <1>5, <2>1, DescendLinks
  <2>. QED BY <1>4, <2>2
<1>7. CASE Return
  <2>1. Ascends
    BY <1>1, <1>7, AscendsIs
  <2>2. LinksLoading(ss, d, keys, parameters.fields, reg, db)
    BY <1>3, <1>4, <1>5, <2>1, AscendLinks
  <2>. QED BY <1>4, <2>2
<1>. QED BY <1>6, <1>7

LEMMA LinksNext == TypeInv /\ FieldsInv /\ TruthInv /\ LinksInv /\ [Next]_vars => LinksInv'
<1>. SUFFICES ASSUME TypeInv, FieldsInv, TruthInv, LinksInv, [Next]_vars PROVE LinksInv'
  OBVIOUS
<1>1. UNCHANGED input
  BY DEF vars, input, Next, TryBuild, FetchParent, ParseQuery, Fetch, LoadRelationship, Return, FinishParent, Finish
<1>2. UNCHANGED <<request, reg, Target>> /\ Given
  BY <1>1, InputStays DEF TypeInv
<1>3. UNCHANGED parameters => (HidesNothing' <=> HidesNothing) /\ (Linkable' <=> Linkable)
  BY <1>2 DEF Linkable, HidesNothing
<1>4. CASE UNCHANGED vars
  <2>1. UNCHANGED <<db, phase, stack, cache, included, parameters, reply>>
    BY <1>4 DEF vars
  <2>2. WithRecords' <=> WithRecords
    BY <1>2, <2>1 DEF WithRecords, Answered
  <2>3. LinksTold'
    BY <1>2, <1>3, <2>1, <2>2 DEF LinksInv, LinksTold, ShownResources
  <2>. QED BY <1>2, <1>3, <2>1, <2>3 DEF LinksInv
<1>5. CASE Next
  <2>1. LinksTold'
    <3>1. CASE Finish
      BY <3>1, FinishTold
    <3>2. CASE ~ Finish
      <4>1. SUFFICES ASSUME WithRecords'
                     PROVE  /\ IsFiniteSet(ShownResources')
                            /\ Tied({Identifier(x) : x \in ToSet(reply'.primary)}, ShownResources', reg', db')
        BY DEF LinksTold
      <4>2. reply'.primary = <<>> /\ reply'.included = {}
        BY <1>5, <3>2, <4>1, AnswersAre DEF WithRecords, AnsweredEarly
      <4>3. ToSet(<<>>) = {}
        BY DEF ToSet
      <4>4. ShownResources' = {}
        BY <4>2, <4>3 DEF ShownResources
      <4>. QED BY <4>4, FS_EmptySet DEF Tied
    <3>. QED BY <3>1, <3>2
  <2>2. ASSUME phase' = "loading", Linkable'
        PROVE  LinksLoading(stack', cache', included', parameters'.fields, reg', db')
    <3>1. CASE LoadRelationship \/ Return
      <4>1. UNCHANGED <<db, parameters>>
        BY <2>2, <3>1, FirstStays
      <4>2. LinksLoading(stack', cache', included', parameters.fields, reg, db)
        BY <1>3, <2>2, <3>1, <4>1, LoadsLinks
      <4>. QED BY <1>2, <4>1, <4>2
    <3>2. CASE Fetch
      <4>1. request.kind # "linkage" /\ HidesNothing'
        BY <1>2, <2>2 DEF Linkable
      <4>2. PICK tables : tables = db'
        OBVIOUS
      <4>3. LinksLoading(stack', cache', included', parameters'.fields, reg, tables)
        BY <2>2, <3>2, <4>1, FetchLinks
      <4>. QED BY <1>2, <4>2, <4>3
    <3>3. CASE ~ (LoadRelationship \/ Return \/ Fetch)
      <4>1. TryBuild \/ FetchParent \/ ParseQuery \/ FinishParent \/ Finish
        BY <1>5, <3>3 DEF Next
      <4>. QED BY <2>2, <4>1 DEF TryBuild, FetchParent, ParseQuery, FinishParent, Finish, LoadAnswer, Refuse, Respond
    <3>. QED BY <3>1, <3>2, <3>3
  <2>. QED BY <2>1, <2>2 DEF LinksInv
<1>. QED BY <1>4, <1>5

\* Unless the client's own fieldsets hid a relationship on the way, every
\* included record is linked from the primary data, through included records if
\* need be, for any include tree, schemas and rows: what the loader holds is
\* tied to the first collection by the linkage that the document will show.
THEOREM IncludedIsLinked == Spec => []FullLinkage
<1>1. Init => TypeInv /\ FieldsInv /\ TruthInv /\ LinksInv
  <2>1. Init => LinksInv
    BY DEF Init, LinksInv, LinksTold, WithRecords, Answered
  <2>. QED BY <2>1, TypeInit, InitHonest, InitTrue
<1>2. TypeInv /\ FieldsInv /\ TruthInv /\ LinksInv /\ [Next]_vars
        => (TypeInv /\ FieldsInv /\ TruthInv /\ LinksInv)'
  BY TypeNext, FieldsNext, TruthNext, LinksNext
<1>3. TypeInv /\ FieldsInv /\ TruthInv /\ LinksInv => FullLinkage
  BY ToldIsLinked DEF LinksInv
<1>. QED BY <1>1, <1>2, <1>3, PTL DEF Spec
=============================================================================
