------------------------------- MODULE Queries -------------------------------
(***************************************************************************)
(* A request that is answered with records: Store::fetch_record,           *)
(* fetch_collection, fetch_related_*, peek_related_* and create_collection *)
(* (database/store.rs) under the handlers index, show, related and linkage *)
(* (routing/controller), from the declaration of the schemas to the        *)
(* document that serialisation/factories.rs builds.                        *)
(*                                                                         *)
(* The loader recurses into the include tree; `stack` is that recursion,   *)
(* one frame per collection whose relationships are being loaded.  Each    *)
(* fetch runs in a transaction of its own and nothing else runs here: what *)
(* other requests do between the two fetches of `related` and `linkage` is *)
(* RelationshipStore's subject.                                            *)
(***************************************************************************)
EXTENDS DataLoader

CONSTANT Worlds \* the applications to try, each the schemas it declares with
                \* its databases, requests, query strings and batches to create

(***************************************************************************)
(* What an application can be: an IndexMap holds one relationship of a     *)
(* name, routes are mounted for the relationships of a schema, and SQLite  *)
(* keeps the tables.                                                       *)
(***************************************************************************)
Declarable(s) ==
  /\ {s.name, s.key.name} \cup Attributes(s) \cup ForeignKeys(s) \subseteq STRING
  /\ s.relationships \in Seq([name : STRING, kind : {"belongs_to", "has_one", "has_many"},
                              resource : STRING, own : STRING, related : STRING])
  /\ UniqueNames(s.relationships)

Requests == [kind : {"index", "show", "related", "linkage", "create"}, resource : STRING,
             id : Nat \cup {Null}, relationship : STRING \cup {Null}]
Mounted(r, parts) ==
  /\ r.kind \in {"index", "show", "related", "linkage", "create"}
  /\ \E s \in ToSet(parts) :
       /\ s.name = r.resource
       /\ r.kind \in {"related", "linkage"} => r.relationship \in RelationshipNames(s)

\* A query string is split into entries, and their values at the commas, paths
\* at the dots too.  A name with a bracket is that of a family.
Split(query) ==
  /\ query \in Seq(ToSet(query))
  /\ \A e \in ToSet(query) :
       /\ e.values \in Seq(ToSet(e.values))
       /\ e.key \in {"include", "search", "sort"} => e.on = ""
       /\ e.key = "include" => e.values \in Seq(Seq(STRING)) /\ <<>> \notin ToSet(e.values)

\* Rows have the columns declared, differ where a column is unique, and no
\* foreign key leads nowhere.
Kept(s, byName, tables) ==
  /\ IsFiniteSet(tables[s.name])
  /\ \A row \in tables[s.name] :
       /\ row \in [Columns(s) -> (Nat \ {0}) \cup {Null}]
       /\ row[s.key.name] # Null
       /\ Resolves(s, row, byName, tables)
  /\ \A column \in Unique(s, byName) : \A x, y \in tables[s.name] :
       x[column] = y[column] /\ x[column] # Null => x = y

\* What to_record makes of a resource to create: attributes of its schema, and
\* linkage of its belongs_to relationships, an id or none.
Drafted(draft, s) ==
  /\ draft = [id |-> draft.id, columns |-> draft.columns, relationships |-> draft.relationships]
  /\ draft.id \in (Nat \ {0}) \cup {Null}
  /\ DOMAIN draft.columns \subseteq Attributes(s)
  /\ \A a \in DOMAIN draft.columns : draft.columns[a] \in (Nat \ {0}) \cup {Null}
  /\ \A name \in DOMAIN draft.relationships :
       /\ \E r \in Relationships(s) : r.name = name /\ r.kind = "belongs_to"
       /\ draft.relationships[name] \in Seq(Nat \ {0})
       /\ Len(draft.relationships[name]) <= 1

ASSUME WorldsAssumption ==
  \A w \in DOMAIN Worlds :
    LET world == Worlds[w] IN
    /\ \A s \in ToSet(world.schemas) : Declarable(s)
    /\ Consistent(world.schemas) =>
         \A tables \in world.databases : \A s \in ToSet(world.schemas) :
           s.name \in DOMAIN tables /\ Kept(s, ByName(world.schemas), tables)
    /\ \A r \in ToSet(world.requests) : r \in Requests /\ Mounted(r, world.schemas)
    /\ \A query \in ToSet(world.queries) : Split(query)
    /\ \A batch \in ToSet(world.batches) :
         /\ batch \in Seq(ToSet(batch))
         /\ \A r \in ToSet(world.requests), s \in ToSet(world.schemas) :
              r.kind = "create" /\ s.name = r.resource =>
                \A draft \in ToSet(batch) : Drafted(draft, s)

VARIABLES
  schemas,    \* what the application declared, a sequence of schemas
  db,         \* the rows of each table
  request,    \* [kind, resource, id, relationship, query, batch]
  phase,      \* where the request is
  parameters, \* the QueryParameters of the current fetch, <<>> before the first
  stack,      \* the loader's recursion, the primary collection first
  cache,      \* DataLoader.cache
  included,   \* DataLoader.included_identifiers
  parent,     \* the record that `related` and `linkage` start from
  reply       \* the document, or the error

input == <<schemas, request>>
loader == <<stack, cache, included>>
vars == <<schemas, db, request, phase, parameters, stack, cache, included, parent, reply>>

reg == ByName(schemas)
Schema == reg[request.resource]
Descriptor == Relationship(Schema, request.relationship)
ToMany == Descriptor.kind = "has_many"

\* The schema of the primary data, whose parameters are parsed.
Target ==
  IF request.kind \in {"related", "linkage"} THEN reg[Descriptor.resource] ELSE Schema

Unanswered == [error |-> "none", primary |-> <<>>, included |-> {}]

\* A linkage endpoint reads no query, and only create has a batch.
Init ==
  \E w \in DOMAIN Worlds :
    LET world == Worlds[w] IN
    /\ schemas = world.schemas
    /\ db \in world.databases
    /\ \E r \in DOMAIN world.requests, q \in DOMAIN world.queries,
          b \in DOMAIN world.batches :
         /\ world.requests[r].kind = "linkage" => q = 1
         /\ world.requests[r].kind # "create" => b = 1
         /\ request = Over(world.requests[r],
                           [query |-> world.queries[q], batch |-> world.batches[b]])
    /\ phase = "declared"
    /\ parameters = <<>>
    /\ stack = <<>> /\ cache = <<>> /\ included = {}
    /\ parent = Null
    /\ reply = Unanswered

(***************************************************************************)
(* Outcomes of a step.                                                     *)
(***************************************************************************)
Refuse(error) ==
  /\ phase' = "done"
  /\ reply' = [Unanswered EXCEPT !.error = error]
  /\ UNCHANGED <<db, parameters, loader, parent>>

\* to_document and make_record_resource: foreign keys are left out, attributes
\* that were read for a join are not.
Resource(record) ==
  [kind |-> record.kind, id |-> record.id,
   attributes |-> Restrict(record.columns,
                           DOMAIN record.columns \cap Attributes(reg[record.kind])),
   relationships |-> record.relationships]

\* make_linkage_resource.
Bare(record) ==
  [kind |-> record.kind, id |-> record.id, attributes |-> <<>>, relationships |-> <<>>]

Document(primary, others) ==
  [error |-> "none", primary |-> primary, included |-> others]

Respond(primary, others) ==
  /\ phase' = "done"
  /\ reply' = Document(primary, others)

(***************************************************************************)
(* Registry::try_new, as the application starts.                           *)
(***************************************************************************)
TryBuild ==
  /\ phase = "declared"
  /\ IF ~ Consistent(schemas) THEN Refuse("InconsistentSchema")
     ELSE /\ phase' = IF request.kind \in {"related", "linkage"} THEN "parent"
                      ELSE "parsing"
          /\ UNCHANGED <<db, parameters, loader, parent, reply>>
  /\ UNCHANGED input

(***************************************************************************)
(* The loader starts on a collection.                                      *)
(***************************************************************************)
Frame(s, records, fields, include) ==
  [schema |-> s.name, include |-> include, records |-> records,
   pending |-> RelationshipsToLoad(s, fields, include)]

\* load_for_collection leaves an empty collection alone.
StartLoading(s, records, p) ==
  LET first == Frame(s, records, p.fields, p.include) IN
  /\ stack' = <<IF records = <<>> THEN [first EXCEPT !.pending = <<>>] ELSE first>>
  /\ cache' = <<>>
  /\ included' = {}

\* What a fetch answered is loaded, or refused.
LoadAnswer(s, answer, p, next) ==
  IF answer.error # "none" THEN Refuse(answer.error)
  ELSE /\ phase' = next
       /\ parameters' = p
       /\ StartLoading(s, FromRows(s, answer.rows), p)
       /\ UNCHANGED <<db, parent, reply>>

(***************************************************************************)
(* related and linkage read the parent first: the one with its join key    *)
(* only, the other with everything.                                        *)
(***************************************************************************)
FetchParent ==
  /\ phase = "parent"
  /\ LET p == IF request.kind = "linkage" THEN New(Schema, reg)
              ELSE Asking(Schema, reg, Put(<<>>, Schema.name, {Descriptor.own}))
         answer == Find(Schema, request.id, p.fields, db[Schema.name])
     IN LoadAnswer(Schema, answer, p, "loading parent")
  /\ UNCHANGED input

(***************************************************************************)
(* QueryParameters::parse, against the schema of the primary data.         *)
(***************************************************************************)
ParseQuery ==
  /\ phase = "parsing"
  /\ LET p == Parse(request.query, Target, reg) IN
     IF p.error # "none" THEN Refuse(p.error)
     ELSE /\ phase' = "querying"
          /\ parameters' = p
          /\ UNCHANGED <<db, loader, parent, reply>>
  /\ UNCHANGED input

(***************************************************************************)
(* The primary fetch.                                                      *)
(***************************************************************************)
FetchCollection ==
  /\ request.kind = "index"
  /\ \E way \in Ways(Schema, parameters, db[Schema.name]) :
       LoadAnswer(Schema, Query(Schema, parameters, db[Schema.name], way),
                  parameters, "loading")

FetchRecord ==
  /\ request.kind = "show"
  /\ LoadAnswer(Schema,
                Find(Schema, request.id, parameters.fields, db[Schema.name]),
                parameters, "loading")

\* fetch_related_collection: the query gets a condition on the join key.
\* require_owned refuses a parent that was read without its own key.
Scoped(p, column, value) ==
  LET others == IF column \in DOMAIN p.filter THEN p.filter[column] ELSE {}
      mine == [op |-> "eq", operand |-> {value}]
  IN [p EXCEPT !.filter = Put(@, column, others \cup {mine})]

FetchRelated(p) ==
  IF ~ Has(Schema, parent, Descriptor.own) THEN Refuse("UnloadedAttributeAccess")
  ELSE LET value == Owned(Schema, parent, Descriptor.own)
           scoped == Scoped(p, Descriptor.related, value)
       IN IF value = Null
          THEN /\ Respond(<<>>, {})
               /\ UNCHANGED <<db, parameters, loader, parent>>
          ELSE \E way \in Ways(Target, scoped, db[Target.name]) :
                 LoadAnswer(Target, Query(Target, scoped, db[Target.name], way),
                            scoped, "loading")

FetchRelatedRecords ==
  /\ request.kind = "related"
  /\ FetchRelated(parameters)

\* peek_related_record, peek_related_collection: only the ids.
PeekRelated ==
  /\ request.kind = "linkage"
  /\ FetchRelated(Asking(Target, reg, Put(<<>>, Target.name, {})))

(***************************************************************************)
(* create_collection, for records whose linkage is belongs_to: what        *)
(* attach_has_one_many does then is nothing.                               *)
(***************************************************************************)
\* attach_belongs_to: the row of the related record gives the foreign key.
TargetRows(r, ids) ==
  {row \in db[r.resource] : row[reg[r.resource].key.name] \in ToSet(ids)}

JoinValue(r, ids) ==
  IF ids = <<>> THEN Null
  ELSE IF r.related = reg[r.resource].key.name THEN ids[1]
  ELSE (CHOOSE row \in TargetRows(r, ids) : TRUE)[r.related]

\* The linkage comes out of a HashMap: of the relationships that share a foreign
\* key any may be the last to set it, but for those that are joined by an
\* attribute, which are attached after the others.
LinkedBy(s, record) == {r \in Relationships(s) : r.name \in DOMAIN record.relationships}

Setters(s, record) ==
  LET given == LinkedBy(s, record)
      Late(r) == r.related # reg[r.resource].key.name /\ record.relationships[r.name] # <<>>
  IN {setter \in [{r.own : r \in given} -> given] :
        \A column \in DOMAIN setter :
          /\ setter[column].own = column
          /\ Late(setter[column]) \/ \A r \in given : r.own = column => ~ Late(r)}

Attached(record, setter) ==
  [column \in DOMAIN setter |->
     JoinValue(setter[column], record.relationships[setter[column].name])]

AllSetters(s, records) ==
  {setters \in [DOMAIN records -> UNION {Setters(s, records[i]) : i \in DOMAIN records}] :
     \A i \in DOMAIN records : setters[i] \in Setters(s, records[i])}

AttachFails(s, record) ==
  \E r \in Relationships(s) :
    /\ r.name \in DOMAIN record.relationships
    /\ r.related # reg[r.resource].key.name
    /\ record.relationships[r.name] # <<>>
    /\ TargetRows(r, record.relationships[r.name]) = {}

\* The ids are taken out of the records and put into their rows.
RowsOf(s, records, setters) ==
  [i \in DOMAIN records |->
     LET columns == Over(Attached(records[i], setters[i]), records[i].columns)
     IN IF records[i].id = Null THEN columns
        ELSE Put(columns, s.key.name, records[i].id)]

\* Mutant: the rows are paired in the order of their keys.
RefreshedByKey(s, records, rows) ==
  LET sorted == SortSeq(rows, LAMBDA x, y : x[s.key.name] < y[s.key.name])
  IN [i \in DOMAIN rows |->
        [FromRow(s, sorted[i]) EXCEPT !.relationships = records[i].relationships]]

\* refresh_with: the rows come back in the order they went, and only the
\* linkage of the records stays.
Refreshed(s, records, rows) ==
  [i \in DOMAIN rows |->
     [FromRow(s, rows[i]) EXCEPT !.relationships = records[i].relationships]]

\* fk_violation_to_missing_reference.
Mapped(error) ==
  IF error = "ForeignKeyViolation" THEN "RelatedRecordNotFound" ELSE error

CreateCollection ==
  /\ request.kind = "create"
  /\ IF \E i \in DOMAIN request.batch : AttachFails(Schema, request.batch[i])
     THEN Refuse("RelatedRecordNotFound")
     ELSE \E setters \in AllSetters(Schema, request.batch) :
            LET written == InsertBatch(Schema, RowsOf(Schema, request.batch, setters),
                                       parameters.fields, reg, db)
            IN IF written.error # "none" THEN Refuse(Mapped(written.error))
               ELSE /\ phase' = "loading"
                    /\ db' = written.db
                    /\ StartLoading(Schema, Refreshed(Schema, request.batch, written.rows),
                                    parameters)
                    /\ UNCHANGED <<parameters, parent, reply>>

Fetch ==
  /\ phase = "querying"
  /\ \/ FetchCollection
     \/ FetchRecord
     \/ FetchRelatedRecords
     \/ PeekRelated
     \/ CreateCollection
  /\ UNCHANGED input

(***************************************************************************)
(* load_with_context: one relationship of the innermost collection, which  *)
(* recurses if the relationship is included.                               *)
(***************************************************************************)
Loading == phase \in {"loading", "loading parent"}
Top == stack[Len(stack)]

\* The tail of load_relationship: what was read goes to the cache.
Keep(records) == cache' = MergeAll(cache, records)

LoadRelationship ==
  /\ Loading
  /\ Top.pending # <<>>
  /\ LET s == reg[Top.schema]
         r == Head(Top.pending)
         target == reg[r.resource]
         recurse == IsIncluded(Top.include, r.name)
         loaded == LoadRelated(s, target, r, Top.records, parameters.fields,
                               recurse, db[target.name])
         here == [Top EXCEPT !.records = loaded.records, !.pending = Tail(@)]
         below == Frame(target, loaded.related, parameters.fields,
                        Derive(Top.include, r.name))
     IN IF loaded.error # "none" THEN Refuse(loaded.error)
        ELSE IF recurse
        THEN /\ stack' = Append([stack EXCEPT ![Len(stack)] = here], below)
             /\ UNCHANGED <<db, phase, parameters, cache, included, parent, reply>>
        ELSE IF MergeConflicts(cache, loaded.related) THEN Refuse("DataLoadingError")
        ELSE /\ Keep(loaded.related)
             /\ stack' = [stack EXCEPT ![Len(stack)] = here]
             /\ UNCHANGED <<db, phase, parameters, included, parent, reply>>
  /\ UNCHANGED input

\* Mutant: an included collection is remembered as included, but not cached.
ReturnUncached ==
  /\ Loading
  /\ Len(stack) > 1
  /\ Top.pending = <<>>
  /\ included' = included \cup {Identifier(x) : x \in ToSet(Top.records)}
  /\ stack' = SubSeq(stack, 1, Len(stack) - 1)
  /\ UNCHANGED <<input, db, phase, parameters, cache, parent, reply>>

\* An included collection is done: it is remembered as included, and cached.
Return ==
  /\ Loading
  /\ Len(stack) > 1
  /\ Top.pending = <<>>
  /\ IF MergeConflicts(cache, Top.records) THEN Refuse("DataLoadingError")
     ELSE /\ Keep(Top.records)
          /\ included' = included \cup {Identifier(x) : x \in ToSet(Top.records)}
          /\ stack' = SubSeq(stack, 1, Len(stack) - 1)
          /\ UNCHANGED <<db, phase, parameters, parent, reply>>
  /\ UNCHANGED input

CollectionLoaded == Loading /\ Len(stack) = 1 /\ Top.pending = <<>>

\* The parent is read; `related` parses its query only now.
FinishParent ==
  /\ CollectionLoaded
  /\ phase = "loading parent"
  /\ parent' = Head(Top.records)
  /\ phase' = IF request.kind = "linkage" THEN "querying" ELSE "parsing"
  /\ stack' = <<>> /\ cache' = <<>> /\ included' = {}
  /\ UNCHANGED <<input, db, parameters, reply>>

\* fetch_related_record takes one record at most.
TooMany ==
  /\ request.kind \in {"related", "linkage"}
  /\ ~ ToMany
  /\ Len(Top.records) > 1

\* What the cache holds and was included goes into the document, whether or
\* not the primary data has it too.
Included == {cache[key] : key \in included \cap DOMAIN cache}

Finish ==
  /\ CollectionLoaded
  /\ phase = "loading"
  /\ LET Shape(x) == IF request.kind = "linkage" THEN Bare(x) ELSE Resource(x)
         primary == [i \in DOMAIN Top.records |-> Shape(Top.records[i])]
     IN IF TooMany THEN Refuse("UnexpectedCollection")
        ELSE /\ Respond(primary, {Resource(x) : x \in Included})
             /\ UNCHANGED <<db, parameters, loader, parent>>
  /\ UNCHANGED input

Next ==
  \/ TryBuild \/ FetchParent \/ ParseQuery \/ Fetch
  \/ LoadRelationship \/ Return \/ FinishParent \/ Finish

Spec == Init /\ [][Next]_vars

(***************************************************************************)
(* Properties.                                                             *)
(***************************************************************************)
\* The recursion only ever holds records of the schema it loads, the cache is
\* keyed by what it holds, and what is marked as included is in it.
TypeOK ==
  /\ phase \in {"declared", "parent", "loading parent", "parsing", "querying",
               "loading", "done"}
  /\ \A i \in DOMAIN stack :
       /\ stack[i].schema \in DOMAIN reg
       /\ \A j \in DOMAIN stack[i].records : stack[i].records[j].kind = stack[i].schema
  /\ \A key \in DOMAIN cache : Identifier(cache[key]) = key
  /\ included \subseteq DOMAIN cache
  /\ Loading <=> stack # <<>> /\ phase # "done"
  /\ reply.error # "none" => reply = [Unanswered EXCEPT !.error = reply.error]

Answered == phase = "done" /\ reply.error = "none"
WithRecords == Answered /\ request.kind # "linkage"
ShownResources == ToSet(reply.primary) \cup reply.included

RowsWithId(kind, id) == {row \in db[kind] : row[reg[kind].key.name] = id}
RowOf(x) == CHOOSE row \in RowsWithId(x.kind, x.id) : TRUE

\* What the database relates a row to.
RelatedIds(row, r) ==
  IF row[r.own] = Null THEN {}
  ELSE {t[reg[r.resource].key.name] : t \in {u \in db[r.resource] : u[r.related] = row[r.own]}}

Exactly(ids, set) == ToSet(ids) = set /\ Len(ids) = Cardinality(set)

\* attach_belongs_to gives a record one value per foreign key, whatever
\* relationships share it, and takes NULL for the key of a related record.
Attachable(s, record) ==
  LET given == LinkedBy(s, record)
  IN \A r \in given :
       /\ \A other \in given : other.own = r.own => other = r
       /\ \A row \in TargetRows(r, record.relationships[r.name]) : row[r.related] # Null

Unattached ==
  IF request.kind # "create" THEN {}
  ELSE UNION {DOMAIN request.batch[i].relationships :
                i \in {j \in DOMAIN request.batch : ~ Attachable(Schema, request.batch[j])}}

\* `find` takes a foreign key called `id` for the primary key.
ForeignId == "id" \in ForeignKeys(Schema)

(***************************************************************************)
(* Whatever was read through whichever path, in whichever order, and       *)
(* merged from however many copies: an attribute or a linkage in a document*)
(* is what the database says, complete and without repetition.  Two copies *)
(* of a record can therefore not disagree.  The linkage that came with a   *)
(* create is answered as it was sent, also where it could not be attached. *)
(***************************************************************************)
LinkageIsTrue ==
  /\ WithRecords =>
       \A x \in ShownResources :
         /\ RowsWithId(x.kind, x.id) # {}
         /\ \A a \in DOMAIN x.attributes : x.attributes[a] = RowOf(x)[a]
         /\ \A name \in DOMAIN x.relationships :
              \/ x \in ToSet(reply.primary) /\ name \in Unattached
              \/ Exactly(x.relationships[name],
                         RelatedIds(RowOf(x), Relationship(reg[x.kind], name)))
  /\ Answered /\ request.kind = "linkage" /\ ~ ForeignId =>
       LET row == CHOOSE row \in RowsWithId(Schema.name, request.id) : TRUE
       IN Exactly([i \in DOMAIN reply.primary |-> reply.primary[i].id],
                  RelatedIds(row, Descriptor))

(***************************************************************************)
(* Full linkage: unless the client's own fieldsets hid a relationship on   *)
(* the way, every included record is linked from the primary data, through *)
(* included records if need be.                                            *)
(***************************************************************************)
LinksOf(x) ==
  UNION {{<<Relationship(reg[x.kind], name).resource, id>> :
            id \in ToSet(x.relationships[name])} : name \in DOMAIN x.relationships}

LinkedFrom(start, resources) ==
  LET Reach[n \in 0..Cardinality(resources)] ==
        IF n = 0 THEN start
        ELSE Reach[n - 1] \cup
               UNION {LinksOf(x) : x \in {y \in resources : Identifier(y) \in Reach[n - 1]}}
  IN Reach[Cardinality(resources)]

HidesNothing ==
  \A path \in parameters.include :
    path[Len(path)]
      \in FieldsOf(parameters.fields, Walk(path, Target, reg)[Len(path) - 1])

FullLinkage ==
  WithRecords /\ HidesNothing =>
    {Identifier(x) : x \in reply.included}
      \subseteq LinkedFrom({Identifier(x) : x \in ToSet(reply.primary)}, ShownResources)

(***************************************************************************)
(* A declaration that try_build accepted and a query that parse accepted   *)
(* are answered: every expect and every "is not loaded" on the way relies  *)
(* on what those two checked, and none is ever hit, whichever relationships*)
(* are requested, included or hidden.  The exceptions, each the code's own:*)
(*   - a page whose offset does not fit a u32 may panic;                   *)
(*   - `related` fails on a relationship that is named like its own key,   *)
(*     because the key it asks the parent for requests the relationship: it*)
(*     panics, or finds the related key not loaded if the type is its own; *)
(*   - a linkage endpoint fails on one that is named like another key,     *)
(*     which was read from the parent in the place of its own;             *)
(*   - find and the full-text join name a column `id`;                     *)
(*   - a search term goes to FTS5 as it came, which refuses what is no     *)
(*     query of its own language;                                          *)
(*   - the keys of a collection are one IN list and a batch is one INSERT, *)
(*     and SQLite binds so many values and no more;                        *)
(*   - an INSERT of no columns is no SQL.                                  *)
(***************************************************************************)
Answerable ==
  {"none", "InconsistentSchema", "UnknownSchema", "QueryValidationFailure",
   "ParseParameterFailure", "RecordNotFound", "RelatedRecordNotFound",
   "ConstraintViolation", "InvalidOperation"}

Overflowing == parameters # <<>> /\ Overflows(parameters)

NamedLikeItsKey ==
  /\ request.kind = "related"
  /\ \E r \in Relationships(Schema) : r.name = Descriptor.own

NamedLikeAnotherKey ==
  request.kind = "linkage" /\ Descriptor.name \in Columns(Schema) \ {Descriptor.own}

NoColumnCalledId ==
  \/ request.kind \in {"show", "related", "linkage"} /\ "id" \notin Columns(Schema)
  \/ parameters # <<>> /\ parameters.search # <<>> /\ "id" \notin Columns(Target)

MalformedSearch ==
  parameters # <<>> /\ parameters.search # <<>>
    /\ parameters.search[1] \cap Malformed # {}

\* The columns a record to create is inserted with.
SentColumns(record) ==
  DOMAIN record.columns \cup {r.own : r \in LinkedBy(Schema, record)}
    \cup (IF record.id = Null THEN {} ELSE {Schema.key.name})

SendsNothing ==
  request.kind = "create"
    /\ \E i \in DOMAIN request.batch : SentColumns(request.batch[i]) = {}

BeyondVariables ==
  \/ \E m \in DOMAIN db : Cardinality(db[m]) > Variables
  \/ request.kind = "create"
       /\ \E i \in DOMAIN request.batch :
            Len(request.batch) * Cardinality(SentColumns(request.batch[i])) > Variables

AcceptedQueriesAreServed ==
  phase = "done" =>
    \/ reply.error \in Answerable
    \/ reply.error = "Panic" /\ (Overflowing \/ NamedLikeItsKey)
    \/ reply.error = "DataLoadingError" /\ NamedLikeItsKey
    \/ reply.error = "UnloadedAttributeAccess" /\ NamedLikeAnotherKey
    \/ reply.error = "SqlFailure"
         /\ (NoColumnCalledId \/ MalformedSearch \/ SendsNothing \/ BeyondVariables)

(***************************************************************************)
(* Sparse fieldsets: a client that named the fields of a type gets these,  *)
(* and beyond them only columns that other models are joined by, a         *)
(* relationship that is named like one, and the linkage it sent itself;    *)
(* for the other types it gets everything.  The query builder takes a      *)
(* relationship that has the name of a column for that column: one whose   *)
(* own key is another is left out, and nothing says so.                    *)
(***************************************************************************)
Asked(s) ==
  UNION {ToSet(request.query[i].values) :
           i \in {j \in DOMAIN request.query :
                   request.query[j].key = "fields" /\ request.query[j].on = s.name}}

Pinned(s) ==
  \E i \in DOMAIN request.query :
    request.query[i].key = "fields" /\ request.query[i].on = s.name

JoinColumns(s) ==
  (UNION {{r.related : r \in {q \in Relationships(reg[m]) : q.resource = s.name}} :
            m \in DOMAIN reg})
    \cup {r.own : r \in {q \in Relationships(s) : q.name \in Asked(s)}}

TakenForColumn(s) ==
  {r.name : r \in {q \in Relationships(s) :
                     q.name \in Columns(s) /\ q.own \notin {q.name, s.key.name}}}

Sent ==
  IF request.kind # "create" THEN {}
  ELSE UNION {DOMAIN request.batch[i].relationships : i \in DOMAIN request.batch}

FieldsetsAreHonoured ==
  WithRecords =>
    \A x \in ShownResources :
      LET s == reg[x.kind]
          wanted == IF Pinned(s) THEN Asked(s) ELSE Fields(s)
      IN /\ wanted \ TakenForColumn(s)
              \subseteq DOMAIN x.attributes \cup DOMAIN x.relationships
         /\ DOMAIN x.attributes \subseteq wanted \cup JoinColumns(s)
         /\ DOMAIN x.relationships \subseteq wanted \cup JoinColumns(s) \cup Sent

(***************************************************************************)
(* tests/conformance/mandatory/sparse_fieldsets.rs:16-18: "If a client     *)
(* requests a restricted set of fields for a given resource type, an       *)
(* endpoint MUST NOT include additional fields in resource objects of that *)
(* type in its response."  The loader's join columns that are attributes   *)
(* are included all the same.                                              *)
(***************************************************************************)
NothingUnrequested ==
  WithRecords =>
    \A x \in ShownResources :
      Pinned(reg[x.kind]) =>
        DOMAIN x.attributes \cup DOMAIN x.relationships \subseteq Asked(reg[x.kind])

(***************************************************************************)
(* A batch is created as it was sent: the rows that come back are paired   *)
(* with the records by their position alone, and each record leaves with   *)
(* its own id, attributes and, if it could be attached, linkage.           *)
(***************************************************************************)
BatchPairsRowsWithRecords ==
  Answered /\ request.kind = "create" =>
    /\ Len(reply.primary) = Len(request.batch)
    /\ \A i \in DOMAIN request.batch :
         LET sent == request.batch[i]
             row == RowOf(reply.primary[i])
         IN /\ sent.id # Null => reply.primary[i].id = sent.id
            /\ \A a \in DOMAIN sent.columns : row[a] = sent.columns[a]
            /\ Attachable(Schema, sent) => \A name \in DOMAIN sent.relationships :
                 RelatedIds(row, Relationship(Schema, name))
                   = ToSet(sent.relationships[name])

(***************************************************************************)
(* The loader implements the abstract document: the page asked for, and    *)
(* what the include paths lead to.                                         *)
(***************************************************************************)
Outline ==
  IF ~ Answered THEN [given |-> FALSE, primary |-> <<>>, included |-> {}]
  ELSE [given |-> TRUE,
        primary |-> [i \in DOMAIN reply.primary |-> reply.primary[i].id],
        included |-> {Identifier(x) : x \in reply.included}]

Compound == INSTANCE CompoundDocument WITH shown <- Outline
ImplementsCompoundDocument == Compound!Spec

(***************************************************************************)
(* tests/conformance/validations.rs:358-359, of every document the crate   *)
(* answers with: "A compound document must not carry more than one resource*)
(* object per type+id, across primary data and `included`."                *)
(***************************************************************************)
OneObjectPerRecord ==
  WithRecords =>
    {Identifier(x) : x \in ToSet(reply.primary)}
      \cap {Identifier(x) : x \in reply.included} = {}
=============================================================================
