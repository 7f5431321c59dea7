# Verification of YAJAC

YAJAC is a Rust library for JSON:API servers. Schemas are collected in a registry, handlers of
resource controllers read and write records through a store, and the store runs SQL on pooled
SQLite connections. This directory holds TLA+ models of its parts, TLC configurations that check
them on small instances, and proofs for every instance.

Paths below are relative to the crate's `src/`; `sqlite/` is `database/adapters/sqlite/`.

## Inventory

| Part | State | Operations | Hard behaviour |
|---|---|---|---|
| Transactions, `sqlite/connection.rs` | nesting `depth`; SQLite's transaction, savepoints, snapshot, lock | `transaction` (begin, commit, rollback), `query`, `execute`, `drop` | nested levels, failing COMMIT, engine-side rollback, panics, a dirty handle back in the pool |
| Pool and connection manager, `sqlite/pool.rs`, `database/connection_manager.rs` | idle handles | `acquire`, drop | exhaustion, waiting for oneself, handle reuse |
| Store, `database/store.rs`, `database/table.rs` | the tables | record and collection create/update/delete, fetch/peek of related records, link/relink/unlink | multi-statement updates of one foreign key from two sides, constraints per statement, batches paired by position |
| Resource controller, `routing/controller/mod.rs` | one request | CRUD and relationship endpoints | load and serve in two transactions; rendering after the commit |
| Request context, `routing/context.rs` | lazy connection, body taken once | `connection`, `store`, `require_body`, `contains_body` | cached failure, probed body |
| Middleware and negotiation, `routing/middleware/` | none | negotiate, render errors, stamp headers | what gets in, what gets out, in which order |
| Error funnel, `*/error.rs` | none | status, code, source, redaction | one variant of many answered or redacted wrongly |
| Router and builders, `routing/router.rs`, `routing/builders.rs` | routes, mounts, claimed slots (construction) | verbs, scopes, middleware blocks, resources, relationships; match, dispatch, links | nested builders that absorb each other, first match, duplicate slots, links that lead nowhere |
| Registry and schemas, `database/schema/`, `database/registry.rs` | immutable after construction | `SchemaBuilder`, `try_build`, lookups | consistency across schemas that later code takes for granted |
| Query parameters, `database/query_parameters.rs` | none | parse, derive, fields of a type | sparse fieldsets against join keys, boundary arithmetic of pages |
| Query builder, `sqlite/query_builder/` | none | query, find, insert, update, delete | selections, conditions, offsets |
| Data loader, `database/data_loader/mod.rs` | record cache, included ids | `load_for_record`, `load_for_collection` | recursion along include paths, merging of copies |
| Records, attributes | a record's columns and linkage | from/refresh with a row, owned values | columns that were not selected |
| Migrator, `sqlite/migrator.rs` | `migrations` table, the scripts' effects | migrate/rollback one/all | racing processes, decisions outside the transaction, partial failure, death |
| Documents, serialisation, HTTP wrappers, indexing | none | conversion | none: sequential and pure |

They interact by calls on one thread per request; what requests share is the pool and the
database. A request's connection is used by one thread, so interleaving happens between
transactions, and between the statements of different connections. Rendering and include loading
read what a transaction returned. The migrator's processes share only the database.

What makes each part correct: a `transaction` is atomic at every depth and a handle rejoins the pool
clean; a relationship request reports what holds and moves only what it may, and a replacement is
exact; the database is at a version and scripts run once; a request reaches the
store only under headers JSON:API allows, a refusal wrote nothing, and everyone is answered; every
link rendered from a mount reaches its endpoint; a document says what the database says, and is
complete as JSON:API asks; and a registry that is accepted never makes a later `expect` fail.

## Modules

**Transactions**

- `AtomicTransactions`: what `Connection::transaction` promises: a stack of closures per
  connection, whose writes pass outwards on `Ok`, vanish on `Err` or panic, and become durable in
  one step at the outermost level.
- `Transaction`: the adapter's code over SQLite. `depth`, `frames`, `mode` and `result` are the Rust
  side: `frames` is the call stack of running closures. `levels`, `snapshot`, `writer` and
  `committed` are SQLite in WAL mode, as the pool's preamble sets it. `Begin` is
  `begin_transaction`; `CommitNested`, `CommitOutermost`, `CommitRefused` and `CommitAborts` are the
  outcomes of `commit_transaction`; `Rollback` is `rollback_transaction` with the case in which
  the engine no longer knows the level; `Release` is `Drop`. Two constants say who does what:
  `Recovering` are the connections whose application code may catch an `Err` and go on, `Fragile`
  those whose engine may end a transaction or refuse a COMMIT. It refines `AtomicTransactions` with
  `durable <- committed`.

**Store and migrator**

- `RelationshipStore`: two resources joined by one foreign key. `owner` and `holder` are the two
  tables; `request` is where each relationship request stands. One action is one
  `Connection::transaction` (which `Transaction` justifies), except `Peek` and `Unlink`, which are
  one transaction that reads and later writes: `outdated` says whether the engine still lets it.
  `Displaced` and `AfterAttach` are the three waves of `attach_has_one_many`. A key other than the
  id may be NULL: such a record has no members, and what it is given is detached from whoever had it.
  `Constrained` is what the engine refuses. A call that is answered with an error changes nothing and is a step only
  where a request waits for it.
- `Migrator`: processes with their own registries. `Decide` is everything a call does before its
  transaction, `RunMigration` and `RollbackMigration` are a script with its row, `Commit` and `Abort`
  end the transaction; `Abort` also stands for the process's death at that point. `effects` counts
  what the scripts did, `applied` is the `migrations` table; they are only tied by transactions.

**Request pipeline**

- `ErrorFunnel`: the status of every error variant of the three layers, what of the request it
  names, the split of JSON errors, and what redaction leaves. `Funnelled` is the chain of `From`s.
- `ContentNegotiation`: parsed `Content-Type` and `Accept` headers, and the fault each is refused
  with; instances and parameters in the order the code meets them.
- `RequestContext`: the body as bytes that can be taken once and a probe that puts its byte back,
  and the `require_*` family of `ResourceContext` as the fault each ends with.
- `RequestPipeline`: concurrent requests over one pool. `pc` is where a request's thread is,
  `context` its `PrimaryContext`, `lease` its handles, `idle` the pool. `Wrap` is a primary
  middleware of the application, which may drain or probe the body, force the request's connection
  or borrow one of its own; `Obtain` and `Expire` are `Pool::acquire`; `Enter` is the boundary on the
  way in; `Check` is a handler up to its first `store()`; `Load` is the first transaction of a
  relationship handler; `Commit` and `RollBack` are its store operation; `Render` is `to_document`;
  `Settle` and `Escape` are the two ways out. `rows` and `commits` stand for the database, whose
  inside `RelationshipStore` models.

**Routes**

- `Router`: a resolved router: match, dispatch, the tiers a match runs through, and the links that
  can be rendered from the mounts.
- `RouteBuilders`: the nested builders as a `stack`; each builder call is an action on the top,
  `Close` is a builder absorbing the one that was opened on it, `Resolve` is `Router::try_new`.
  `mark` is history that the properties use: which blocks were open at a declaration.
- `RouteTable`: what the nesting promises: one flat list in declaration order, judged by its first
  fault. `RouteBuilders` refines it.

**Queries**

- `Registry`: `SchemaBuilder`, `try_build` and what a `Schema` answers about its columns.
- `QueryParameters`: every parameter family with its validation, the include tree as a set of
  paths, and the fields each type is served with.
- `QueryBuilder`: tables as sets of rows, and what `query`, `find` and `insert_batch` answer, what
  SQLite refuses among it (`SqlRefuses`, `InsertFault`). `Ways` are the ways a query may run: with
  or without overflow checks, and with or without coming to the MATCH.
- `DataLoader`: records, the load of one relationship for a collection, the merge of two copies.
- `Queries`: a request from the declaration of the schemas to its document. `stack` is the recursion
  of `load_for_collection`, one frame per collection: `LoadRelationship` is one iteration of its
  loop, `Return` the end of one level. `cache` and `included` are the loader's fields.
- `CompoundDocument`: what the document must hold, said without a loader: the page of the rows, and
  what include paths lead to. `Queries` refines it with `shown <- Outline`.

**Instances and proofs.** `MCTransaction`, `MCRelationshipStore`, `MCMigrator`, `MCRequestPipeline`,
`MCRouteBuilders` and `MCQueries` are instances. `TransactionProofs`, `RelationshipStoreProofs`,
`MigratorProofs`, `RequestPipelineProofs`, `RouteBuilderProofs`, `QueryProofs` and `DocumentProofs`
hold the theorems; `SequenceLemmas` what several of them rest on. Definitions marked *Mutant* are
the plausible bugs each property has been tested against.

## Runs

| Run | Instance | Shows |
|---|---|---|
| `tx_atomic` | 2 connections, one recovering and one fragile; 3 writes, 3 levels | atomicity, clean handles, counter and stacks agree, refinement |
| `tx_lost_ok` | a connection that is both | finding: an `Ok` that `Drop` discards |
| `store_all` | 4 declarations, 2 owners, 2 members, 2 requests | replies are the membership, requests move only their members, replacement is exact |
| `store_batch` | 1 declaration, 1 request | finding: `update_collection` replaces only the last set |
| `store_moved_key` | has-many on a key that is not the id | finding: a POST of members that another record gets |
| `store_stale_owner` | belongs-to side | finding: a GET answered 200 with an emptiness that never was |
| `migrator` | 2 processes of a release, 1 of the one before; versions 2, 5, 6 | scripts run once; orderly usage stays at a version; *all* means all |
| `pipeline` | 2 requests, a pool of 1; one of 144 requests beside one of 3 | what reaches the store, what failures after a commit answer, no handle lost, everyone answered |
| `routes` | 4 builder calls, nested to 4; 2 kinds | links land, endpoints are linked, read-only kinds never write, middleware wraps its block, refinement |
| `queries` | 6 applications with all their databases, requests, query strings and batches; 10 misdeclared ones | documents are true, fully linked, as promised, sparse but for join keys; every failure is named |
| `queries_twice` | the blog | finding: a record both primary and included |
| `queries_sparse` | the catalogue | finding: an attribute that was not asked for |

Findings say what the code does beside what its comments, documents and tests promise:

- `tx_lost_ok` needs application code that catches the error of a `transaction` and goes on. The
  crate's own handlers never do, and `tx_atomic` shows them safe.
- `store_batch` needs one `update_collection` of two records with a to-many linkage.
- `store_moved_key`: a record is created with a key, its linkage endpoint gets a POST, which loads
  the record. Before `link_collection` runs, the key goes from that record to another one. The members are attached to
  the other one and the answer is 200.
- `store_stale_owner`: between the two transactions of a GET the record is related to another owner and
  the old one is deleted.
- `queries_twice` needs one GET whose include path leads back to where it started.
- `queries_sparse`: `GET variants?include=product&fields[products]=name`, where a variant refers to the
  code of its product, serves that code beside the name.

**Bounds.** `MaxDepth = 3` gives an outermost level, a savepoint and one in it, so that a level has
both an inner and an outer neighbour; store calls nest two deep. Two connections suffice for a
stale snapshot and a contended lock; three writes for one at every level, or two rounds. A write
identity returns to use once nothing can tell its last use (`Unused`), so runs are not bounded in
length. Two owners and two members are the least with a member to move, one to displace and one to
leave. The keys of the owners are the owners' ids in every instance, and NULL beside them where `byId` is
false and the key can move. Two requests give a race between relationship requests; further writers are the actions
themselves. In the migrator two scripts of a call can have one fail between them, an older release
makes versions unknown, and `ExtraDowns = 1` allows the one double rollback that matters.

`PoolSize = 1` is the tightest pool: a second handle is always waited for, also by the request that
holds the first. Requests vary one thing of a plain one at a time, because each check ends the
request. Two bytes are a body with something behind the probed one. Four builder calls are a
resource, a block in it and two declarations, or two resources with one each; `MaxDepth = 4` lets
each call open a block but the last. Each application of `queries` is there for a reason: a
blog for cycles of primary-key joins, a catalogue for joins on other columns, has-one and
self-reference, a stock of variants to be added to products with and without the code that joins them,
an atlas for a primary key of another name, a foreign key called `id` and a search of its text, freight for
relationships that are named like their own key and like another one, and a crowd of nine articles for what
SQLite binds at most; each of the ten faulty declarations breaks one check of `try_build`. Their
databases cover every assignment of the foreign keys, two or three rows a table. `Numbers = 32`
stands for the 2^32 of a u32, so that a page can lie beyond it, and `Variables = 8` for the 32,766
values SQLite binds in a statement, so that a collection and a batch can. What the conditions of a URL bind
stays far below: an `http::Uri` has at most 65,534 bytes. A search term is a word, and `Malformed` are
the words that stand for terms FTS5 cannot parse; the rest of its language (AND, NEAR, prefixes) is
in no instance, and no proof looks into what a term matches (`Mentions`).

`CHECK_DEADLOCK FALSE` is used where things end: an upgraded database, answered requests, a resolved
router, an answered query.

**Fairness.** Only the pipeline assumes any: `FairSpec` is weak fairness of `Advance(r)` for each
request. A request has a thread of its own, which runs until it returns; the one thing it waits for is
the pool, and r2d2 gives up after its timeout, so a step is always enabled until it is answered.
That is weaker than fairness of `Obtain`: a handle may always go to another. Arrivals are not fair.
`EveryRequestIsAnswered` needs the timeout: without `Expire` a middleware that borrows a handle of
its own from a pool of one waits for itself for ever.

**Usage of the migrator.** `Deployments` lists how it is used: any calls at any time, only upgrades
that may race (every instance of a service calls `migrate_all` when it starts), or one call at a
time. Racing rollbacks are outside `AtAVersion`: two processes may pick the same migration, and
its down script then runs twice, since deleting an absent row succeeds. No comment excludes that
use or promises anything for it. `GrowthAssumption` is that a release appends migrations:
a version that sorts below the current one is silently never run. `RegistryAssumption` leaves out
version 0, which the code takes for an empty table.

## Proofs

For every value of the constants, from the named assumptions of the modules:

- `TransactionProofs`: `TypeCorrect`, `HandlesRejoinClean`, `CounterCoversStacks`.
  None is inductive alone. `StackInv` is: it adds that closures run only
  while a request does, that only an open transaction has a snapshot and that only the holder of the lock
  has unpublished writes. The argument: a close
  that fails leaves `depth` where it is, so `depth` is always above the engine's stack, whose names
  increase; hence what a close names is the top level or absent, and `Drop`, which looks at `depth`
  only, rolls back whenever anything is open.
- `TransactionProofs`, second part: `TransactionsAreAtomic` and the refinement `SqlImplementsTransactions`, under
  `NobodyRecoversBlind`: no connection is both recovering and fragile. The finding
  `tx_lost_ok` shows that the assumption is needed. `AtomicInv` adds `MirrorInv` (while a closure
  may still commit, Rust's stack, the engine's and the counter agree level by level) and
  `Separate` (no write is in two places), so that a commit moves exactly the closure's writes and
  a rollback loses exactly them. Every action is then one abstract step or none.
- `RelationshipStoreProofs`: `StoreTyped`, `OnlyTheirMembersMove`,
  `IdRepliesAreRight`, `ReplacementsAreExact`: every property of `store_all`, for any number of
  records, keys and requests. `StoreInv` adds what requests remember: a peek is still the membership
  unless the database changed, and where the key is the id a loaded key is the record's for as long
  as it has a row. When the row is gone the constraint leaves its key without members, so the reply is
  still right. `OneEntryAfter` says what `attach_has_one_many` does to a batch of one entry;
  nothing of the kind holds for longer batches (`store_batch`).
- `MigratorProofs`: `ScriptsRunOnce` (any usage): no table, committed or draft, has a script run on
  top of itself, because the row's key refuses it. `DatabaseAtAVersion` and `AllIsAll` (orderly
  usage): `OrderlyInv` says that the plan of every call under way continues, or undoes, what its
  process finds in the database: below a planned migration everything of its registry is planned or
  applied, and a planned rollback is the upper end of what is applied. A racing upgrade can only
  grow what an older plan builds on; a plan that comes too late fails on the row's key.
- `RequestPipelineProofs`: for any pool, any number of requests and anything they send. `PipelineInv`
  says, per stage, which handles a request has, how often it has committed and what it may still be
  answered: it waits only for a handle it lacks, nothing is committed before `execute`, and from a
  commit on only the server's own faults are left, so that a 4xx cannot follow one. The pool's count
  is the last conjunct, by counting the handles that a step takes or returns.
- `RequestPipelineProofs`, second part: the rest of the pipeline's safety, which depends on what was sent. `BoundaryInv`
  adds that the context still holds the whole body unless a middleware took it, that past negotiation
  the headers conform, and that an error code says something true of the request. It rests on
  lemmas about the probe (any number of probes costs no byte) and about negotiation (no fault is
  returned only for headers that conform, whatever their length and order).
- `RouteBuilderProofs`: every property of `routes`, for any schemas, fragments, configurations, number
  of calls and depth: `RoutesTyped`, `ReadOnlyIsNeverWritten`, `SlotsAreLinked`,
  `MiddlewareStaysAround`, `LinksLand`, and the refinement `NestedCallsComeToOneTable`. The
  properties speak of a resolved router only, so none is inductive. `IInv` says of each open builder
  that its own list is `Sound`: a resource builder's entries all carry its kind, its read-only flag
  and the guards around them, and (`Linked`) its templates are the paths of the first entries of
  their slots; a primary builder's list is that for every kind mounted in it once. Soundness
  says nothing of the builder outside, so `Close` has only to merge two sound lists: the
  parent's entries come first and its templates win (`absorb_resource`), which is why a template
  stays that of the first route. `Nested` says how a builder inherits from the one below it on the stack;
  with it the guards of a chain are those of the blocks open around it. `LinksLand` then takes
  apart what is rendered: each segment of a link matches its segment of the template, and the
  endpoint's captures give back the id and the parameters. The refinement is by the flattened
  list: `Close` leaves it unchanged, a declaration appends to it.
- `QueryProofs`: `LoaderTyped`, for any schemas, databases, queries and batches. `TypeInv` adds to
  `TypeOK` that every frame of the recursion holds records of its model and relationships of its
  schema, that tables are finite, and that whatever is loaded was found in a consistent
  registry: `RegistryIsClosed` says what `try_build` guarantees (every relationship leads to a
  declared model, along columns that both sides have), and `ParseIs` what an accepted query is (its
  include tree stays within the models that are served, its page is a page, its fieldsets are the
  fields asked for). `Frames` is what the actions on the stack preserve.
  `FieldsetsHonoured`: `FieldsInv` says of every record the loader holds, in a frame
  or in the cache, that it is `Honest`: its columns are those its model's fieldset stands for and
  its linkage was requested or sent; and that it is `Owing` at most the relationships its frame has
  still to load. Copies merge to honest records (`MergeAllIsHonest`), so what is included
  is `Whole` when its frame returns. `ServedFields` says what `discover_fields` leaves for a served
  model: what was asked, or everything, and columns others join by.
- `QueryProofs`, last part: what one read of the store and one load of a relationship return. ORDER BY and
  LIMIT list rows of the table, each once, because the order is total (`SortIsTotal`,
  `OrderedLists`); what is loaded for a relationship is every row with one of the keys
  (`Collected`); grouping it by key gives each record what its row leads to (`GroupLeads`), for
  a belongs-to as for a has-many, because SQLite keeps the keys unique and resolved (`KeptAll`); and
  two copies of a record are of one row, so merging keeps the truth (`BothTrue`).
- `DocumentProofs`: `ReadsAreTrue` is `LinkageIsTrue` of every request. `TruthInv` says of every record in a
  frame or in the cache that some row has its id, its values and, for each linkage it has, exactly
  the related ids (`Faithful`), and of a linkage request whose record or whose ids the loader holds
  (`Linking`). A create is answered from the rows that became of what was sent (`StoredAs`): the key that
  a linkage gave a row leads to that linkage and nothing else, since the database kept the keys
  unique and resolved when it accepted the row (`GivenLeads`, `TablesAreKept`). What a record sent
  through a key that another of its relationships shares, or through one that has no value, is
  `Unattached`: the property spares it in the primary data, and so must the invariant in the
  bottom frame (`FaithfulBut`). A load reads columns and ids and never linkage, so that a record
  keeps what is spared to itself (`Bared`, `SparedTrue`).
  `ReadsAreServed` is `AcceptedQueriesAreServed` of every request: no `expect`, no
  conflict of two copies and no column that is not loaded is met on the way, but in the
  cases the property names. `ServedInv` carries it through the phases (`Underway`):
  the parent has the key it is followed by (`OwnKeyRead`) before anything is fetched through it, its
  relationship can be loaded with the fieldset that is its own (`ParentLoads`), a query filters by
  columns the target has, a to-one document has read one record at most (`PrimaryLoads`), and every
  copy of a record lists its linked ids in one order (`InOrderLoading`), which with `TruthInv` makes
  two copies equal where they overlap, so a merge finds no conflict (`MergesInOrder`). What a
  relationship's query needs is read because `ToLoadIs` and `ServedFields` agree: whatever is loaded
  or included is in the fieldset, and what is in the fieldset brings the keys of both sides with it.
  SQLite itself refuses a query for what the property names and nothing else:
  each term it is given was searched for, and each set of keys is no larger than a table (`KeysAreFew`).
  A batch is refused for what SQLite says of its rows, and an INSERT of no columns only
  when a record sent nothing (`EmptyRowIs`).
  `BatchesArePaired` is `BatchPairsRowsWithRecords`: while anything is loaded, the records of the bottom
  frame have in their order the ids of rows that are as sent (`Paired`). Loads and merges change neither
  their number nor their ids (`FirstStays`), so what leaves is still paired when the document is written.
  `IncludedIsLinked` is `FullLinkage`. `LinksInv` follows the recursion: a frame is `Tied` if whatever
  set of records has the primary ones and, with a record that is held, those it tells of, has every record
  of the frame. A record tells what it is linked to, in a frame as in the cache, and loads and
  merges only add to that (`MergeCovers`). What an include adds is told by the record that brought
  it, because its relationship is requested when the fieldsets hide nothing (`Requesting`). What is answered
  is then in the set that `LinkedFrom` computes, which follows the links in as many rounds as there are resources:
  each round but the last reaches one more, so the last reaches nothing new (`ReachSettles`).
- `SequenceLemmas`: induction over numbers, functions given by recursion, what `FlattenSeq` does to an
  appended or merged list, what updating, appending and cutting do to a sequence of no known set, and
  the first and last positions with a property.

Assumptions of the routes: `CallsAssumption` (the arguments of calls are of their types; a guard is not
the boundary's name and a kind not the byte tier's, which are distinct types in the code),
`EncodingAssumption` (percent-encoding is a string that decodes to its value) and `PlainAssumption`
(an encoded value has a percent sign, so it is not the plain one).

Assumptions of the queries (`WorldsAssumption`): a schema's names are strings and its relationships
have one name each (`Declarable`, an `IndexMap`), requests name a declared resource and a
relationship it has (`Mounted`, the routes), a query is a sequence of entries split at their commas
(`Split`), a record to create links only what its relationships declare, one record at most by each
(`Drafted`: the code refuses the rest while it parses the document), and a database keeps what SQLite keeps (`Kept`): rows of the columns declared, unique where the column
is, with no dangling foreign key.

Induction is over sets of numbers and well-founded relations, which the library states without an
operator parameter; that is enough for a definition by a recursive function. A fold or a function
built with `:>` and `@@` cannot be expanded by the provers: the route builders therefore use
recursive functions (`Guarding`, `MountAll`) and `Over`.

Every safety property of every run that passes is a theorem. Only model-checked: the refinement of `CompoundDocument`, whose
initial states and steps quantify over the whole query and every include path at once, and
`EveryRequestIsAnswered`, as liveness takes fairness and ENABLED, which the provers do not know.
`SortSeq`, which the mutant of a batch uses, is defined by CHOOSE over data and stays with TLC.

## Observed while modelling

Behaviour a reader of the properties will meet. Where a comment of the crate says otherwise it is quoted.

- A page whose `(number - 1) * size` does not fit a u32 wraps, or panics in a debug build
  (`sqlite/query_builder/mod.rs:285`).
- `find`, `update`, `delete` and the full-text join name a column `id` (`sqlite/query_builder/mod.rs`
  152, 387, 432, 459), although a primary key may have any name: `show`, `related` and a search answer
  500 for such a resource. Named as `NoColumnCalledId`.
- A relationship may be named like a foreign key. `related` on one that is named like its own key,
  joined to a column other than the primary key, hits an `expect`, or answers 500 for a key that is not
  loaded when the type refers to itself (`NamedLikeItsKey`; `trucks` in `MCQueries`). One that is named
  like another key is taken for that column: its own key is not read and its linkage is left out,
  without an error (`TakenForColumn`, `sqlite/query_builder/mod.rs:308-322`), and its linkage endpoint
  answers 500 (`NamedLikeAnotherKey`).
- An INSERT of no columns is no SQL (`SendsNothing`).
- A search term is bound to MATCH as it was sent. FTS5 parses it as its own language, so `?search="`
  passes every validation and answers 500 (`MalformedSearch`), unless another condition leaves no
  row to match and the plan never comes to the MATCH (`skips`).
- The keys of a collection are one IN list, and a batch one INSERT: an index that loads a relationship of more
  than 32,766 records answers 500 although nothing refused it (`BeyondVariables`).
- A record whose key, other than the id, is NULL has no members. Linkage sent for it, at its linkage
  endpoint as with its creation or update, sets the foreign key of the members named to NULL, which detaches them
  from whoever had them, and is no error. A PATCH of its linkage then reports the members named, although
  `relink_collection` says it "returns the resulting membership" (`database/store.rs:607-609`). Only
  `IdRepliesAreMembership` would tell, and it speaks of keys that are the id; `ReplacementIsExact`
  spares such records by name.
- `insert_batch` pairs the rows of `RETURNING` with the records by position. SQLite returns them
  in that order today, but does not promise to.
- `?fields[articles]=title&include=author` serves no author, because the key that leads there was
  not selected: `CompoundDocument` says so in `Brought`. Join keys that were selected show up in
  sparse documents (`JoinColumns`, the finding of `queries_sparse`), and linkage sent with a create is
  always shown (`Sent`).
- `filter[x]=in:a,b` never has two members: the value was split at its commas before.
- `fields[bogus]=` answers 500.
- A has-many whose own key is not unique would give its members to one of the records that share it;
  the databases keep such keys unique.
- Linkage of a create sets the related row's value of the joined attribute as the key. Through an attribute
  that is NULL nothing is linked, and two relationships that share a key overwrite each other in the
  order of a hash map; the response shows the linkage as sent (`Unattached`).
- `find` selects by `id`, so a foreign key that is called `id` is taken for the primary key
  (`ForeignId`, `Promised`).
- A middleware block inside a resource does not see the slots claimed around it: the slot is mounted
  twice, the template outside stays. Relationships in a `scope` inside a resource get no templates.
- `RelationshipConfig::at("a/b")` is one segment with a slash in it, so its route is unreachable.
- A resource without default endpoints has a self link that leads nowhere; so has a record whose
  text id is empty.
- `ResourceIdMissing` points at `/data/id`, the member that is missing.

## Not modelled

SQL text, conversion of single values (dates, numbers, JSON), member names and meta of documents, the
text of headers and paths, wording of errors, wrappers around HTTP types: sequential code over data.
Opening the pool and r2d2's background work, and the indexing variants that differ only in
signature. Update and delete statements are in `RelationshipStore`, not in `QueryBuilder`.
`RelationshipStore` has one pair of resources: a resource with two relationships to one table is
not in it. In `Queries` each fetch is alone with the database; what others do between the two
fetches of a request is `RelationshipStore`'s subject. SQLite and r2d2 are modelled from how the
code uses them: a violated constraint undoes one statement, a transaction that read an old database
cannot write, one writer at a time; errors are nondeterministic. Of the engine's limits only that on bound
values is modelled; those on the depth of an expression and the length of a LIKE pattern are not.

## Plan

Done: transactions, the relationship store, the migrator, the request pipeline, routes, queries; proofs
of all safety properties, and of every refinement but that of a document. Left, in order of importance:

1. The steps of the refinement of `CompoundDocument`.
2. A store with two relationships to one table, and linkage between two resources that point at
   each other.
3. Batches of `update_collection` and `delete_collection` in `Queries`, with the statements of the
   query builder behind them.
