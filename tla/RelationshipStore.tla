-------------------------- MODULE RelationshipStore --------------------------
(***************************************************************************)
(* Relationship persistence (database/store.rs) and the relationship       *)
(* endpoints that call it (routing/controller/mod.rs), for one pair of     *)
(* resources: owners, and members whose foreign key points at an owner.    *)
(* The same column is the owners' has_one or has_many and the members'     *)
(* belongs_to.                                                             *)
(*                                                                         *)
(* One action is one `Connection::transaction`; Transaction shows that it  *)
(* takes effect as a whole or not at all, and that a transaction which     *)
(* read the database before another one wrote it cannot write any more.    *)
(* A call the code answers with an error changes nothing, and is a step    *)
(* here only where a request waits for the answer.                         *)
(*                                                                         *)
(* A relationship endpoint is TWO transactions: it loads the record the    *)
(* URL names, and serves the request from what it loaded.  Anything may    *)
(* happen in between.                                                      *)
(***************************************************************************)
EXTENDS Naturals, FiniteSets

CONSTANTS
  Requests,   \* requests to relationship endpoints, in flight together
  Owners,     \* ids of the records on the has_one/has_many side
  Members,    \* ids of the records that hold the foreign key
  Keys,       \* values of the owners' key column (`keys.own`) other than NULL
  Null,       \* a foreign key, or a key other than the id, that is not set
  Absent,     \* no row with this id
  Schemas     \* the ways the pair may be declared, see Declarations

\* kind: how the owners declare it.  byId: the key is the primary key.
\* unique, nullable: the constraints on the foreign key column.
Declarations == [kind : {"has_one", "has_many"}, byId : BOOLEAN,
                 unique : BOOLEAN, nullable : BOOLEAN]

ASSUME SchemasAssumption ==
  /\ Schemas \subseteq Declarations
  /\ \A s \in Schemas : s.kind = "has_one" => s.unique
  /\ (\E s \in Schemas : s.byId) => Owners \subseteq Keys
ASSUME ValuesAssumption ==
  /\ Null \notin Keys
  /\ Absent \notin Keys \cup {Null}

VARIABLES
  schema,     \* the declaration, which never changes
  owner,      \* owner[o]: the key of the row with id o, or Absent
  holder,     \* holder[m]: the foreign key of the row with id m, or Absent
  request     \* what each request has loaded, or answered

vars == <<schema, owner, holder, request>>

Idle == [step |-> "idle"]
Loaded == [step : {"loaded"}, op : {"link", "unlink", "relink", "linkage"},
           parent : Owners, key : Keys \cup {Null}, targets : SUBSET Members]
LoadedMember == [step : {"loaded"}, op : {"owner"},
                 parent : Members, key : Keys \cup {Null}]
Peeked == [step : {"peeked"}, parent : Owners, key : Keys \cup {Null},
           targets : SUBSET Members, members : SUBSET Members,
           outdated : BOOLEAN]
Replies == [step : {"done"}, status : {"ok", "error"},
            data : (SUBSET Members) \cup (SUBSET Owners)]

TypeOK ==
  /\ schema \in Schemas
  /\ owner \in [Owners -> Keys \cup {Null, Absent}]
  /\ holder \in [Members -> Keys \cup {Null, Absent}]
  /\ request \in [Requests -> {Idle} \cup Loaded \cup LoadedMember \cup Peeked \cup Replies]

-----------------------------------------------------------------------------
(* The tables.                                                             *)

\* What the key column of o may hold: a key other than the id may be NULL.
KeysFor(o) == IF schema.byId THEN {o} ELSE Keys \cup {Null}

\* The members a key finds.  NULL finds none: the code returns early for it,
\* and in SQL nothing equals it.
Holding(k) == {m \in Members : k # Null /\ holder[m] = k}

\* The constraints the engine enforces on every statement: those of the
\* tables, and the foreign keys the pool switches on.
Constrained(own, hold) ==
  /\ \A m \in Members : hold[m] \in Keys => \E o \in Owners : own[o] = hold[m]
  /\ \A o, p \in Owners : own[o] = own[p] /\ own[o] \in Keys => o = p
  /\ schema.unique =>
       \A m, n \in Members : hold[m] = hold[n] /\ hold[m] \in Keys => m = n
  /\ ~schema.nullable => \A m \in Members : hold[m] # Null

\* A transaction commits these tables, and these requests go on.  One that is
\* still reading reads an outdated database from now on.
Commit(own, hold, reqs) ==
  /\ owner' = own
  /\ holder' = hold
  /\ Constrained(own, hold)
  /\ request' = [r \in Requests |->
       IF reqs[r].step = "peeked" /\ <<own, hold>> # <<owner, holder>>
       THEN [reqs[r] EXCEPT !.outdated = TRUE] ELSE reqs[r]]
  /\ UNCHANGED schema

\* The linkage a document may carry for the relationship: a to-one has at most
\* one id.
Linkages == {ids \in SUBSET Members : schema.kind = "has_one" => Cardinality(ids) <= 1}

-----------------------------------------------------------------------------
(* attach_has_one_many.  A batch is a sequence of [key, ids]: one entry per *)
(* record, in order, for the linkage it carries.                            *)

Named(batch) == UNION {batch[i].ids : i \in DOMAIN batch}
Emptied(batch) == {batch[i].key : i \in {j \in DOMAIN batch : batch[j].ids = {}}}

\* patches[table][id] holds one value per id: the last record that names it.
KeyOf(batch, m) ==
  LET i == CHOOSE j \in DOMAIN batch :
             /\ m \in batch[j].ids
             /\ \A k \in DOMAIN batch : m \in batch[k].ids => k <= j
  IN batch[i].key

Assigned(batch) == {KeyOf(batch, m) : m \in Named(batch)}

\* Mutant: there is no complement update.
DisplacedOnlyWhenEmptied(batch) ==
  {m \in Members : holder[m] # Null /\ holder[m] \in Emptied(batch)}

\* What `replace` detaches: every member of an emptied key, and the members
\* of an assigned key that the batch does not leave there.
Displaced(batch) ==
  LET emptied == Emptied(batch)
      assigned == Assigned(batch)
      stays(m) == m \in Named(batch) /\ KeyOf(batch, m) = holder[m]
  IN {m \in Members :
        /\ holder[m] # Null
        /\ holder[m] \in emptied \/ (holder[m] \in assigned /\ ~stays(m))}

\* Every id names a row (`attached != *ids` otherwise), and every key set on
\* one is an owner's (a foreign key violation otherwise) or NULL: what a
\* record without a key attaches is detached from whoever had it.
Attachable(batch, own) ==
  \A m \in Named(batch) :
    /\ holder[m] # Absent
    /\ KeyOf(batch, m) = Null \/ \E o \in Owners : own[o] = KeyOf(batch, m)

\* Clearing a NOT NULL column is refused, even for a member set again later.
Detachable(batch) == schema.nullable \/ Displaced(batch) = {}

\* The foreign keys after the call.
AfterAttach(batch, replace) ==
  LET named == Named(batch)
      displaced == IF replace THEN Displaced(batch) ELSE {}
  IN [m \in Members |-> IF m \in named THEN KeyOf(batch, m)
                        ELSE IF m \in displaced THEN Null ELSE holder[m]]

\* attach_has_one_many, and the transaction around it, which leaves the owners'
\* table as own.
Attach(batch, replace, own, reqs) ==
  /\ Commit(own, AfterAttach(batch, replace), reqs)
  /\ Attachable(batch, own)
  /\ replace => Detachable(batch)

-----------------------------------------------------------------------------
(* Requests that are a single transaction.                                 *)

Init ==
  /\ schema \in Schemas
  /\ owner = [o \in Owners |-> Absent]
  /\ holder = [m \in Members |-> Absent]
  /\ request = [r \in Requests |-> Idle]

\* create_record and create_collection: the rows, then their linkage, which
\* displaces nobody.
CreateOwners(news, key, ids) ==
  /\ \A i \in DOMAIN news : owner[news[i]] = Absent /\ key[i] \in KeysFor(news[i])
  /\ LET own == [o \in Owners |->
                  IF \E i \in DOMAIN news : news[i] = o
                  THEN key[CHOOSE i \in DOMAIN news : news[i] = o] ELSE owner[o]]
         batch == [i \in DOMAIN news |-> [key |-> key[i], ids |-> ids[i]]]
     IN Attach(batch, FALSE, own, request)

\* Mutant: update_record attaches without replacing.
UpdateOwnerAttaches(o, k, linkage) ==
  /\ owner[o] # Absent
  /\ k \in KeysFor(o)
  /\ k # owner[o] => Holding(owner[o]) = {}
  /\ Attach([i \in 1..Cardinality(linkage) |->
               [key |-> k, ids |-> CHOOSE ids \in linkage : TRUE]],
            FALSE, [owner EXCEPT ![o] = k], request)

\* update_record: the row (its key can move only while nothing points at it),
\* then the linkage, if the request carries one, as a replacement under the
\* key the refreshed row has.  linkage holds that set of ids, or nothing.
UpdateOwner(o, k, linkage) ==
  /\ owner[o] # Absent
  /\ k \in KeysFor(o)
  /\ k # owner[o] => Holding(owner[o]) = {}
  /\ Attach([i \in 1..Cardinality(linkage) |->
               [key |-> k, ids |-> CHOOSE ids \in linkage : TRUE]],
            TRUE, [owner EXCEPT ![o] = k], request)

\* update_collection: every matched record carries the same linkage, in the
\* order the engine returned the rows.
UpdateOwners(rows, ids) ==
  /\ \A i \in DOMAIN rows : owner[rows[i]] # Absent
  /\ Attach([i \in DOMAIN rows |-> [key |-> owner[rows[i]], ids |-> ids]], TRUE, owner, request)

\* delete_record and delete_collection; the foreign key restricts.
DeleteOwners(os) ==
  /\ \A o \in os : owner[o] # Absent
  /\ Commit([o \in Owners |-> IF o \in os THEN Absent ELSE owner[o]], holder, request)

\* A member's row is written with the key attach_belongs_to resolved: none, or
\* the key of the owner its linkage names.  From Absent it is create_record,
\* else update_record or, through the belongs_to endpoint, relink_record and
\* unlink_record, whose own load only checks that the row exists.
WriteMember(m, k) ==
  /\ k = Null \/ \E o \in Owners : owner[o] = k
  /\ Commit(owner, [holder EXCEPT ![m] = k], request)

DeleteMember(m) ==
  /\ holder[m] # Absent
  /\ Commit(owner, [holder EXCEPT ![m] = Absent], request)

-----------------------------------------------------------------------------
(* Requests to the relationship endpoints.                                 *)

Ok(data) == [step |-> "done", status |-> "ok", data |-> data]
Error == [step |-> "done", status |-> "error", data |-> {}]
Waiting(r) == request[r].step \in {"idle", "done"}

\* The requests once r has moved to this point.
Reply(r, state) == [request EXCEPT ![r] = state]

\* r's transaction writes nothing.
ReadOnly(r, state) == request' = Reply(r, state) /\ UNCHANGED <<schema, owner, holder>>

\* Mutant: the parent is not looked up.
LoadAnything(r, op, o, ts) ==
  /\ Waiting(r)
  /\ op = "linkage" => ts = {}
  /\ op = "unlink" => schema.kind = "has_many"
  /\ schema.kind = "has_one" /\ op = "link" => ts # {}
  /\ ReadOnly(r, [step |-> "loaded", op |-> op, parent |-> o,
                  key |-> owner[o], targets |-> ts])

\* fetch_record of the owner the URL names (a missing one is answered 404).
\* POST and DELETE serve to-many relationships; link_record serves to-one ones
\* to application code.
Load(r, op, o, ts) ==
  /\ Waiting(r)
  /\ owner[o] # Absent
  /\ op = "linkage" => ts = {}
  /\ op = "unlink" => schema.kind = "has_many"
  /\ schema.kind = "has_one" /\ op = "link" => ts # {}
  /\ ReadOnly(r, [step |-> "loaded", op |-> op, parent |-> o,
                  key |-> owner[o], targets |-> ts])

Serving(r, op) == request[r].step = "loaded" /\ request[r].op = op

\* r's transaction attaches these ids under the key r loaded.
Serve(r, ids, replace, data) ==
  Attach(<<[key |-> request[r].key, ids |-> ids]>>, replace, owner, Reply(r, Ok(data)))

\* link_collection and link_record: attach without displacing, then report the
\* members there are (to-many; none under a NULL key) or the target (to-one).
Link(r) ==
  /\ Serving(r, "link")
  /\ LET ts == request[r].targets
         k == request[r].key
     IN Serve(r, ts, FALSE,
              IF schema.kind = "has_one" THEN ts
              ELSE IF k = Null THEN {} ELSE Holding(k) \cup ts)

\* relink_collection, relink_record and, for to-one with no target,
\* unlink_record: attach as a replacement, and report what was asked for.
Relink(r) ==
  /\ Serving(r, "relink")
  /\ Serve(r, request[r].targets, TRUE, request[r].targets)

\* unlink_collection reads the members there are...
Peek(r) ==
  /\ Serving(r, "unlink")
  /\ ReadOnly(r, [step |-> "peeked", parent |-> request[r].parent,
                  key |-> request[r].key, targets |-> request[r].targets,
                  members |-> Holding(request[r].key), outdated |-> FALSE])

Remaining(r) == request[r].members \ request[r].targets

\* Mutant: the peek is not in the transaction that replaces.
UnlinkWithoutTransaction(r) ==
  /\ request[r].step = "peeked"
  /\ Serve(r, Remaining(r), TRUE, Remaining(r))

\* ...and, in the same transaction, replaces them by the remaining ones.
Unlink(r) ==
  /\ request[r].step = "peeked"
  /\ ~request[r].outdated
  /\ Serve(r, Remaining(r), TRUE, Remaining(r))

\* r's transaction fails: what it attaches is refused above, or the engine is
\* busy, as it is for a write after an outdated read.
Fail(r) ==
  /\ request[r].step \in {"loaded", "peeked"}
  /\ ReadOnly(r, Error)

\* GET of the owners' side: peek_related_collection, peek_related_record and
\* the fetch_related_* of the `related` endpoint.
Linkage(r) ==
  /\ Serving(r, "linkage")
  /\ ReadOnly(r, Ok(Holding(request[r].key)))

\* GET of the members' side: load the member, then look for its owner.
LoadMember(r, m) ==
  /\ Waiting(r)
  /\ holder[m] # Absent
  /\ ReadOnly(r, [step |-> "loaded", op |-> "owner", parent |-> m, key |-> holder[m]])

OwnerOf(r) ==
  /\ Serving(r, "owner")
  /\ ReadOnly(r, Ok({o \in Owners : request[r].key # Null /\ owner[o] = request[r].key}))

-----------------------------------------------------------------------------
\* Records in some order, each once.
Orders(S) == {s \in UNION {[1..n -> S] : n \in 1..Cardinality(S)} :
                \A i, j \in DOMAIN s : s[i] = s[j] => i = j}

Next ==
  \/ \E news \in Orders(Owners) :
       \E key \in [DOMAIN news -> Keys \cup {Null}], ids \in [DOMAIN news -> Linkages] :
         CreateOwners(news, key, ids)
  \/ \E o \in Owners, k \in Keys \cup {Null},
        linkage \in {{}} \cup {{ids} : ids \in Linkages} :
       UpdateOwner(o, k, linkage)
  \/ \E rows \in Orders(Owners), ids \in Linkages : UpdateOwners(rows, ids)
  \/ \E os \in SUBSET Owners \ {{}} : DeleteOwners(os)
  \/ \E m \in Members, k \in Keys \cup {Null} : WriteMember(m, k)
  \/ \E m \in Members : DeleteMember(m)
  \/ \E r \in Requests :
       \/ \E op \in {"link", "unlink", "relink", "linkage"}, o \in Owners, ts \in Linkages :
            Load(r, op, o, ts)
       \/ \E m \in Members : LoadMember(r, m)
       \/ Link(r)
       \/ Relink(r)
       \/ Peek(r)
       \/ Unlink(r)
       \/ Fail(r)
       \/ Linkage(r)
       \/ OwnerOf(r)

Spec == Init /\ [][Next]_vars

-----------------------------------------------------------------------------
(* Properties.                                                             *)

\* r, which was serving a request on an owner, answers it with 200.
Answers(r) ==
  /\ request[r].step = "peeked" \/ (request[r].step = "loaded" /\ request[r].op # "owner")
  /\ request'[r].step = "done" /\ request'[r].status = "ok"

AnswersAreMembership ==
  \A r \in Requests :
    Answers(r) =>
      request'[r].data = {m \in Members : owner'[request[r].parent] # Absent
                                          /\ holder'[m] = owner'[request[r].parent]}

\* "returns the resulting membership" (store.rs): what a 200 of a relationship
\* endpoint reports is who is related to the record the URL names at the
\* moment the request takes effect, although the record was loaded in an
\* earlier transaction and may be gone by then.  Where the key is the id.
IdRepliesAreMembership == [][schema.byId => AnswersAreMembership]_vars

\* "Adds `related_ids` to the to-many `relationship` of `record`" (store.rs):
\* when a POST is answered with 200 and its record, which had a key when the
\* request loaded it, still has one, the members it names are that record's.
LinkAddsItsMembers ==
  [][\A r \in Requests :
       /\ schema.kind = "has_many" /\ Serving(r, "link") /\ Answers(r)
       /\ request[r].key # Null /\ owner'[request[r].parent] \in Keys
       => \A m \in request[r].targets : holder'[m] = owner'[request[r].parent]]_vars

\* A relationship request moves only the members it may: the ones it names and,
\* when it replaces, the ones it displaces.  A DELETE detaches nobody that a
\* concurrent POST attached.
RequestsMoveOnlyTheirMembers ==
  [][\A r \in Requests :
       Answers(r) =>
         \A m \in Members : holder'[m] # holder[m] =>
           \/ m \in request[r].targets
           \/ /\ request[r].step = "loaded"
              /\ request[r].op = "relink"
              /\ holder[m] = request[r].key /\ holder'[m] = Null]_vars

\* "With `replace`, detaches the related records no longer in each set"
\* (attach_has_one_many): after update_record the set is the one it was given,
\* including when the key it hangs on changed in the same request.  A record
\* that ends up without a key has no members, whatever it was given.
ReplacementIsExact ==
  [][\A o \in Owners, ids \in Linkages :
       UpdateOwner(o, owner'[o], {ids}) /\ owner'[o] # Null
         => {m \in Members : holder'[m] = owner'[o]} = ids]_vars

\* The same of update_collection: no record keeps a member outside its set.
BatchReplacesEachSet ==
  [][\A rows \in Orders(Owners), ids \in Linkages :
       UpdateOwners(rows, ids) =>
         \A i \in DOMAIN rows : {m \in Members : holder'[m] = owner'[rows[i]]} \subseteq ids]_vars

\* "or `None` when the relationship is empty" (peek_related_record): a member
\* is reported with 200 and no owner only if it had none when it was loaded or
\* has none now.
NoneOnlyWhenEmpty ==
  [][\A r \in Requests :
       /\ Serving(r, "owner")
       /\ request'[r].step = "done" /\ request'[r].status = "ok" /\ request'[r].data = {}
       => request[r].key = Null \/ holder[request[r].parent] \in {Null, Absent}]_vars
=============================================================================
