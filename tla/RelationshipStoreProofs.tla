---------------------- MODULE RelationshipStoreProofs ----------------------
(***************************************************************************)
(* Proofs about RelationshipStore, for any records, keys, declarations and *)
(* any number of requests in flight.                                       *)
(***************************************************************************)
EXTENDS RelationshipStore, FiniteSetTheorems, TLAPS

OwnerTables == [Owners -> Keys \cup {Null, Absent}]
MemberTables == [Members -> Keys \cup {Null, Absent}]
States == {Idle} \cup Loaded \cup LoadedMember \cup Peeked \cup Replies

\* x is a request that loaded an owner and has not answered.
OnOwner(x) == x.step = "peeked" \/ (x.step = "loaded" /\ x.op # "owner")

\* Where the key is the id, a row has its id as its key.
IdsAreKeys(own) == schema.byId => \A o \in Owners : own[o] \in {o, Absent}

\* What a request remembers: the members it peeked at are still the members
\* unless the database changed; the key it loaded is the key of its record
\* for as long as the record has one; to-one requests link one target.
Sound(x) ==
  /\ x.step = "peeked" /\ ~x.outdated => x.members = Holding(x.key)
  /\ x.step = "loaded" /\ x.op = "link" /\ schema.kind = "has_one" => x.targets # {}
  /\ schema.byId /\ OnOwner(x) => x.key = x.parent

\* The strengthening of every property proved here.
StoreInv ==
  /\ TypeOK
  /\ Constrained(owner, holder)
  /\ IdsAreKeys(owner)
  /\ \A r \in Requests : Sound(request[r])

-----------------------------------------------------------------------------
(* What the helpers return.                                                *)

\* A declaration has keys that are ids only if ids are keys.
LEMMA KeysForAreKeys ==
  ASSUME schema \in Schemas, NEW o \in Owners
  PROVE  KeysFor(o) \subseteq Keys \cup {Null}
BY SchemasAssumption DEF KeysFor

\* A batch of one entry names its members, for its key.
LEMMA OneEntryNames ==
  ASSUME NEW k, NEW ids, NEW batch, batch = [i \in 1..1 |-> [key |-> k, ids |-> ids]]
  PROVE  /\ Named(batch) = ids
         /\ \A m \in ids : KeyOf(batch, m) = k
         /\ Emptied(batch) = IF ids = {} THEN {k} ELSE {}
         /\ Assigned(batch) = IF ids = {} THEN {} ELSE {k}
<1>1. DOMAIN batch = {1} /\ batch[1].ids = ids /\ batch[1].key = k
  OBVIOUS
<1>2. Named(batch) = ids
  BY <1>1 DEF Named
<1>3. ASSUME NEW m \in ids PROVE KeyOf(batch, m) = k
  <2>. DEFINE Last(j) == /\ m \in batch[j].ids
                         /\ \A i \in DOMAIN batch : m \in batch[i].ids => i <= j
  <2>1. Last(1) /\ \A j \in DOMAIN batch : Last(j) => j = 1
    BY <1>1
  <2>2. (CHOOSE j \in DOMAIN batch : Last(j)) = 1
    BY <1>1, <2>1
  <2>. QED
    BY <1>1, <2>2 DEF KeyOf
<1>4. Emptied(batch) = IF ids = {} THEN {k} ELSE {}
  BY <1>1 DEF Emptied
<1>5. Assigned(batch) = IF ids = {} THEN {} ELSE {k}
  BY <1>2, <1>3 DEF Assigned
<1>. QED
  BY <1>2, <1>3, <1>4, <1>5

\* As a replacement it displaces the other members of its key.
LEMMA OneEntryDisplaces ==
  ASSUME NEW k, NEW ids, NEW batch, batch = [i \in 1..1 |-> [key |-> k, ids |-> ids]]
  PROVE  Displaced(batch) = {m \in Members : holder[m] # Null /\ holder[m] = k /\ m \notin ids}
<1>1. /\ Named(batch) = ids
      /\ \A m \in ids : KeyOf(batch, m) = k
      /\ Emptied(batch) = IF ids = {} THEN {k} ELSE {}
      /\ Assigned(batch) = IF ids = {} THEN {} ELSE {k}
  BY OneEntryNames
<1>2. CASE ids = {}
  BY <1>1, <1>2 DEF Displaced
<1>3. CASE ids # {}
  BY <1>1, <1>3 DEF Displaced
<1>. QED
  BY <1>2, <1>3

\* The foreign keys it leaves, without and with replacement.
Added(k, ids) == [m \in Members |-> IF m \in ids THEN k ELSE holder[m]]
Replaced(k, ids) ==
  [m \in Members |-> IF m \in ids THEN k ELSE IF holder[m] = k THEN Null ELSE holder[m]]

LEMMA OneEntryAfter ==
  ASSUME NEW k, NEW ids, NEW batch, batch = [i \in 1..1 |-> [key |-> k, ids |-> ids]]
  PROVE  AfterAttach(batch, FALSE) = Added(k, ids) /\ AfterAttach(batch, TRUE) = Replaced(k, ids)
<1>1. Named(batch) = ids /\ \A m \in ids : KeyOf(batch, m) = k
  BY OneEntryNames
<1>2. Displaced(batch) = {m \in Members : holder[m] # Null /\ holder[m] = k /\ m \notin ids}
  BY OneEntryDisplaces
<1>3. AfterAttach(batch, FALSE) = Added(k, ids)
  BY <1>1 DEF AfterAttach, Added
<1>4. AfterAttach(batch, TRUE) = Replaced(k, ids)
  BY <1>1, <1>2 DEF AfterAttach, Replaced
<1>. QED
  BY <1>3, <1>4

\* Every batch leaves foreign keys.
LEMMA AfterAttachTyped ==
  ASSUME TypeOK, NEW batch, NEW replace \in BOOLEAN, NEW own \in OwnerTables,
         Attachable(batch, own)
  PROVE  AfterAttach(batch, replace) \in MemberTables
<1>. SUFFICES ASSUME NEW m \in Members
              PROVE  AfterAttach(batch, replace)[m] \in Keys \cup {Null, Absent}
  BY DEF AfterAttach, MemberTables
<1>1. CASE m \in Named(batch)
  BY <1>1 DEF AfterAttach, Attachable, OwnerTables
<1>2. CASE m \notin Named(batch)
  BY <1>2 DEF AfterAttach, TypeOK
<1>. QED
  BY <1>1, <1>2

\* What a typed request holds.
LEMMA RequestTyped ==
  ASSUME TypeOK, NEW r \in Requests
  PROVE  /\ request[r] \in States
         /\ request[r].step = "peeked" => request[r] \in Peeked
         /\ request[r].step = "loaded" => request[r] \in Loaded \cup LoadedMember
         /\ request[r].step = "loaded" /\ request[r].op # "owner" => request[r] \in Loaded
         /\ request[r].step = "done" => request[r] \in Replies
BY DEF TypeOK, States, Idle, Loaded, LoadedMember, Peeked, Replies

-----------------------------------------------------------------------------
(* The invariant.                                                          *)

\* The requests of a typed state, one of which has answered.
LEMMA ReplyTyped ==
  ASSUME TypeOK, NEW r \in Requests, NEW state \in States
  PROVE  Reply(r, state) \in [Requests -> States]
BY DEF TypeOK, States, Reply

LEMMA CommitInv ==
  ASSUME StoreInv, NEW own \in OwnerTables, NEW hold \in MemberTables,
         NEW reqs \in [Requests -> States], Commit(own, hold, reqs), IdsAreKeys(own),
         \A r \in Requests : reqs[r] = request[r] \/ reqs[r] \in Replies
  PROVE  StoreInv'
<1>1. /\ schema' = schema /\ owner' = own /\ holder' = hold
      /\ Constrained(own, hold)
  BY DEF Commit
<1>2. ASSUME NEW r \in Requests
      PROVE  request'[r] \in States /\ Sound(request[r])'
  <2>1. reqs[r] \in States
    OBVIOUS
  <2>2. CASE reqs[r] \in Replies
    <3>1. request'[r] = reqs[r] /\ reqs[r].step = "done"
      BY <2>2 DEF Commit, Replies
    <3>. QED
      BY <2>1, <3>1 DEF Sound, OnOwner
  <2>3. CASE reqs[r] = request[r] /\ request[r].step # "peeked"
    <3>1. request'[r] = request[r]
      BY <2>3 DEF Commit
    <3>2. Sound(request[r])
      BY DEF StoreInv
    <3>. QED
      BY <1>1, <2>1, <2>3, <3>1, <3>2 DEF Sound, OnOwner
  <2>4. CASE reqs[r] = request[r] /\ request[r].step = "peeked"
    <3>1. request[r] \in Peeked /\ Sound(request[r])
      BY <2>4, RequestTyped DEF StoreInv
    <3>2. CASE <<own, hold>> = <<owner, holder>>
      <4>1. request'[r] = request[r] /\ holder' = holder
        BY <1>1, <2>4, <3>2 DEF Commit
      <4>. QED
        BY <1>1, <2>1, <2>4, <3>1, <4>1 DEF Sound, OnOwner, Holding
    <3>3. CASE <<own, hold>> # <<owner, holder>>
      <4>1. request'[r] = [request[r] EXCEPT !.outdated = TRUE]
        BY <2>4, <3>3 DEF Commit
      <4>2. /\ request'[r] \in Peeked /\ request'[r].outdated /\ request'[r].step = "peeked"
            /\ request'[r].key = request[r].key /\ request'[r].parent = request[r].parent
        BY <3>1, <4>1 DEF Peeked
      <4>3. request'[r] \in States
        BY <4>2 DEF States
      <4>. QED
        BY <1>1, <2>4, <3>1, <4>2, <4>3 DEF Sound, OnOwner
    <3>. QED
      BY <3>2, <3>3
  <2>. QED
    BY <2>2, <2>3, <2>4, RequestTyped
<1>3. request' \in [Requests -> States]
  BY <1>2 DEF Commit
<1>4. TypeOK'
  BY <1>1, <1>3 DEF StoreInv, TypeOK, OwnerTables, MemberTables, States
<1>5. Constrained(owner, holder)' /\ IdsAreKeys(owner)'
  BY <1>1 DEF Constrained, IdsAreKeys
<1>. QED
  BY <1>2, <1>4, <1>5 DEF StoreInv

LEMMA AttachInv ==
  ASSUME StoreInv, NEW batch, NEW replace \in BOOLEAN, NEW own \in OwnerTables,
         NEW reqs \in [Requests -> States], Attach(batch, replace, own, reqs),
         IdsAreKeys(own),
         \A r \in Requests : reqs[r] = request[r] \/ reqs[r] \in Replies
  PROVE  StoreInv'
<1>1. AfterAttach(batch, replace) \in MemberTables
  BY AfterAttachTyped DEF StoreInv, Attach
<1>2. Commit(own, AfterAttach(batch, replace), reqs)
  BY DEF Attach
<1>. QED
  BY <1>1, <1>2, CommitInv

LEMMA ReadOnlyInv ==
  ASSUME StoreInv, NEW r \in Requests, NEW state \in States, Sound(state),
         ReadOnly(r, state)
  PROVE  StoreInv'
<1>1. /\ UNCHANGED <<schema, owner, holder>>
      /\ request' = [request EXCEPT ![r] = state]
  BY DEF ReadOnly, Reply
<1>2. request' \in [Requests -> States]
  BY <1>1, ReplyTyped DEF StoreInv, Reply
<1>3. TypeOK'
  BY <1>1, <1>2 DEF StoreInv, TypeOK, States
<1>4. ASSUME NEW q \in Requests PROVE Sound(request[q])'
  <2>1. request'[q] = IF q = r THEN state ELSE request[q]
    BY <1>1 DEF StoreInv, TypeOK
  <2>2. Sound(request'[q])
    BY <2>1 DEF StoreInv
  <2>. QED
    BY <1>1, <2>2 DEF Sound, OnOwner, Holding
<1>. QED
  BY <1>1, <1>3, <1>4 DEF StoreInv, Constrained, IdsAreKeys

\* The owners' table, and the requests, of a typed state.
LEMMA TablesTyped ==
  ASSUME StoreInv
  PROVE  owner \in OwnerTables /\ holder \in MemberTables /\ request \in [Requests -> States]
BY DEF StoreInv, TypeOK, OwnerTables, MemberTables, States

LEMMA InitInv == Init => StoreInv
<1>. SUFFICES ASSUME Init PROVE StoreInv
  OBVIOUS
<1>1. TypeOK
  BY DEF Init, TypeOK
<1>2. Constrained(owner, holder)
  BY ValuesAssumption DEF Init, Constrained
<1>3. \A r \in Requests : Sound(request[r])
  BY DEF Init, Idle, Sound, OnOwner
<1>. QED
  BY <1>1, <1>2, <1>3 DEF Init, StoreInv, IdsAreKeys

LEMMA CreateOwnersInv ==
  ASSUME StoreInv, NEW news \in Orders(Owners), NEW key \in [DOMAIN news -> Keys \cup {Null}],
         NEW ids \in [DOMAIN news -> Linkages], CreateOwners(news, key, ids)
  PROVE  StoreInv'
<1>. DEFINE own == [o \in Owners |->
                     IF \E i \in DOMAIN news : news[i] = o
                     THEN key[CHOOSE i \in DOMAIN news : news[i] = o] ELSE owner[o]]
            batch == [i \in DOMAIN news |-> [key |-> key[i], ids |-> ids[i]]]
<1>1. Attach(batch, FALSE, own, request)
  BY DEF CreateOwners
<1>2. ASSUME NEW o \in Owners
      PROVE  own[o] \in Keys \cup {Null, Absent} /\ (schema.byId => own[o] \in {o, Absent})
  <2>1. CASE \E i \in DOMAIN news : news[i] = o
    <3>1. PICK j \in DOMAIN news : j = (CHOOSE i \in DOMAIN news : news[i] = o) /\ news[j] = o
      BY <2>1
    <3>2. own[o] = key[j] /\ key[j] \in KeysFor(o)
      BY <2>1, <3>1 DEF CreateOwners
    <3>. QED
      BY <3>2 DEF KeysFor
  <2>2. CASE ~\E i \in DOMAIN news : news[i] = o
    BY <2>2 DEF StoreInv, TypeOK, IdsAreKeys
  <2>. QED
    BY <2>1, <2>2
<1>3. own \in OwnerTables /\ IdsAreKeys(own)
  BY <1>2 DEF OwnerTables, IdsAreKeys
<1>. HIDE DEF own, batch
<1>. QED
  BY <1>1, <1>3, AttachInv, TablesTyped

LEMMA UpdateOwnerInv ==
  ASSUME StoreInv, NEW o \in Owners, NEW k \in Keys \cup {Null}, NEW linkage, UpdateOwner(o, k, linkage)
  PROVE  StoreInv'
<1>. DEFINE own == [owner EXCEPT ![o] = k]
<1>1. own \in OwnerTables
  BY TablesTyped DEF OwnerTables
<1>2. IdsAreKeys(own)
  BY TablesTyped DEF StoreInv, IdsAreKeys, UpdateOwner, KeysFor, OwnerTables
<1>3. PICK batch : Attach(batch, TRUE, own, request)
  BY DEF UpdateOwner
<1>. HIDE DEF own
<1>. QED
  BY <1>1, <1>2, <1>3, AttachInv, TablesTyped

LEMMA UpdateOwnersInv ==
  ASSUME StoreInv, NEW rows \in Orders(Owners), NEW ids \in Linkages,
         UpdateOwners(rows, ids)
  PROVE  StoreInv'
<1>1. PICK batch : Attach(batch, TRUE, owner, request)
  BY DEF UpdateOwners
<1>. QED
  BY <1>1, AttachInv, TablesTyped DEF StoreInv

LEMMA DeleteOwnersInv ==
  ASSUME StoreInv, NEW os \in SUBSET Owners, DeleteOwners(os)
  PROVE  StoreInv'
<1>. DEFINE own == [o \in Owners |-> IF o \in os THEN Absent ELSE owner[o]]
<1>1. own \in OwnerTables /\ IdsAreKeys(own)
  BY TablesTyped DEF OwnerTables, IdsAreKeys, StoreInv
<1>2. Commit(own, holder, request)
  BY DEF DeleteOwners
<1>. HIDE DEF own
<1>. QED
  BY <1>1, <1>2, CommitInv, TablesTyped

\* WriteMember and DeleteMember.
LEMMA MemberInv ==
  ASSUME StoreInv, NEW m \in Members, NEW k \in Keys \cup {Null, Absent},
         Commit(owner, [holder EXCEPT ![m] = k], request)
  PROVE  StoreInv'
<1>1. [holder EXCEPT ![m] = k] \in MemberTables
  BY TablesTyped DEF MemberTables
<1>. QED
  BY <1>1, CommitInv, TablesTyped DEF StoreInv

\* Link, Relink and Unlink: attach under the key r loaded, and answer.
LEMMA ServeInv ==
  ASSUME StoreInv, NEW r \in Requests, NEW ids, NEW replace \in BOOLEAN,
         NEW data \in SUBSET Members, Serve(r, ids, replace, data)
  PROVE  StoreInv'
<1>. DEFINE reqs == Reply(r, Ok(data))
<1>1. Ok(data) \in Replies /\ Ok(data) \in States
  BY DEF Ok, Replies, States
<1>2. reqs \in [Requests -> States]
  BY <1>1, ReplyTyped DEF StoreInv
<1>3. \A q \in Requests : reqs[q] = request[q] \/ reqs[q] \in Replies
  BY <1>1, TablesTyped DEF Reply
<1>4. PICK batch : Attach(batch, replace, owner, reqs)
  BY DEF Serve
<1>. HIDE DEF reqs
<1>. QED
  BY <1>2, <1>3, <1>4, AttachInv, TablesTyped DEF StoreInv

LEMMA LoadInv ==
  ASSUME StoreInv, NEW r \in Requests, NEW op \in {"link", "unlink", "relink", "linkage"},
         NEW o \in Owners, NEW ts \in Linkages, Load(r, op, o, ts)
  PROVE  StoreInv'
<1>. DEFINE state == [step |-> "loaded", op |-> op, parent |-> o, key |-> owner[o],
                      targets |-> ts]
<1>1. owner[o] \in Keys \cup {Null} /\ (schema.byId => owner[o] = o)
  BY TablesTyped DEF Load, OwnerTables, StoreInv, IdsAreKeys
<1>2. state \in States
  BY <1>1 DEF States, Loaded, Linkages
<1>3. Sound(state)
  BY <1>1 DEF Load, Sound, OnOwner
<1>4. ReadOnly(r, state)
  BY DEF Load
<1>. QED
  BY <1>2, <1>3, <1>4, ReadOnlyInv

LEMMA LoadMemberInv ==
  ASSUME StoreInv, NEW r \in Requests, NEW m \in Members, LoadMember(r, m)
  PROVE  StoreInv'
<1>. DEFINE state == [step |-> "loaded", op |-> "owner", parent |-> m, key |-> holder[m]]
<1>1. state \in States
  BY TablesTyped DEF LoadMember, MemberTables, States, LoadedMember
<1>2. Sound(state) /\ ReadOnly(r, state)
  BY DEF LoadMember, Sound, OnOwner
<1>. QED
  BY <1>1, <1>2, ReadOnlyInv

LEMMA PeekInv ==
  ASSUME StoreInv, NEW r \in Requests, Peek(r)
  PROVE  StoreInv'
<1>. DEFINE state == [step |-> "peeked", parent |-> request[r].parent, key |-> request[r].key,
                      targets |-> request[r].targets, members |-> Holding(request[r].key),
                      outdated |-> FALSE]
<1>1. request[r] \in Loaded /\ Sound(request[r])
  BY RequestTyped DEF StoreInv, Peek, Serving
<1>2. state \in States
  BY <1>1 DEF Loaded, States, Peeked, Holding
<1>3. Sound(state)
  BY <1>1 DEF Sound, OnOwner, Peek, Serving
<1>4. ReadOnly(r, state)
  BY DEF Peek
<1>. QED
  BY <1>2, <1>3, <1>4, ReadOnlyInv

\* Linkage, OwnerOf and Fail: a read, and the answer.
LEMMA AnswerInv ==
  ASSUME StoreInv, NEW r \in Requests, NEW state \in Replies, ReadOnly(r, state)
  PROVE  StoreInv'
<1>1. state \in States /\ Sound(state)
  BY DEF States, Replies, Sound, OnOwner
<1>. QED
  BY <1>1, ReadOnlyInv

LEMMA RequestStepInv ==
  ASSUME StoreInv, NEW r \in Requests
  PROVE  /\ \A op \in {"link", "unlink", "relink", "linkage"}, o \in Owners,
               ts \in Linkages : Load(r, op, o, ts) => StoreInv'
         /\ \A m \in Members : LoadMember(r, m) => StoreInv'
         /\ Link(r) => StoreInv'
         /\ Relink(r) => StoreInv'
         /\ Peek(r) => StoreInv'
         /\ Unlink(r) => StoreInv'
         /\ Fail(r) => StoreInv'
         /\ Linkage(r) => StoreInv'
         /\ OwnerOf(r) => StoreInv'
<1>1. ASSUME Link(r) PROVE StoreInv'
  <2>1. request[r] \in Loaded
    BY <1>1, RequestTyped DEF StoreInv, Link, Serving
  <2>2. (IF schema.kind = "has_one" THEN request[r].targets
         ELSE IF request[r].key = Null THEN {}
         ELSE Holding(request[r].key) \cup request[r].targets) \in SUBSET Members
    BY <2>1 DEF Loaded, Holding
  <2>. QED
    BY <1>1, <2>2, ServeInv DEF Link
<1>2. ASSUME Relink(r) PROVE StoreInv'
  <2>1. request[r].targets \in SUBSET Members
    BY <1>2, RequestTyped DEF StoreInv, Relink, Serving, Loaded
  <2>. QED
    BY <1>2, <2>1, ServeInv DEF Relink
<1>3. ASSUME Unlink(r) PROVE StoreInv'
  <2>1. Remaining(r) \in SUBSET Members
    BY <1>3, RequestTyped DEF StoreInv, Unlink, Peeked, Remaining
  <2>. QED
    BY <1>3, <2>1, ServeInv DEF Unlink
<1>4. ASSUME Fail(r) PROVE StoreInv'
  <2>1. Error \in Replies
    BY DEF Error, Replies
  <2>. QED
    BY <1>4, <2>1, AnswerInv DEF Fail
<1>5. ASSUME Linkage(r) PROVE StoreInv'
  <2>1. Ok(Holding(request[r].key)) \in Replies
    BY DEF Ok, Replies, Holding
  <2>. QED
    BY <1>5, <2>1, AnswerInv DEF Linkage
<1>6. ASSUME OwnerOf(r) PROVE StoreInv'
  <2>. DEFINE found == {o \in Owners : request[r].key # Null /\ owner[o] = request[r].key}
  <2>1. found \in SUBSET Owners
    OBVIOUS
  <2>. HIDE DEF found
  <2>2. Ok(found) \in Replies
    BY <2>1 DEF Ok, Replies
  <2>3. ReadOnly(r, Ok(found))
    BY <1>6 DEF OwnerOf, found
  <2>. QED
    BY <2>2, <2>3, AnswerInv
<1>. QED
  BY <1>1, <1>2, <1>3, <1>4, <1>5, <1>6, LoadInv, LoadMemberInv, PeekInv

LEMMA StoreStep == StoreInv /\ [Next]_vars => StoreInv'
<1>. SUFFICES ASSUME StoreInv, [Next]_vars PROVE StoreInv'
  OBVIOUS
<1>1. CASE \E news \in Orders(Owners) :
             \E key \in [DOMAIN news -> Keys \cup {Null}], ids \in [DOMAIN news -> Linkages] :
               CreateOwners(news, key, ids)
  BY <1>1, CreateOwnersInv
<1>2. CASE \E o \in Owners, k \in Keys \cup {Null},
             linkage \in {{}} \cup {{ids} : ids \in Linkages} :
             UpdateOwner(o, k, linkage)
  BY <1>2, UpdateOwnerInv
<1>3. CASE \E rows \in Orders(Owners), ids \in Linkages : UpdateOwners(rows, ids)
  BY <1>3, UpdateOwnersInv
<1>4. CASE \E os \in SUBSET Owners \ {{}} : DeleteOwners(os)
  BY <1>4, DeleteOwnersInv
<1>5. CASE \E m \in Members, k \in Keys \cup {Null} : WriteMember(m, k)
  BY <1>5, MemberInv DEF WriteMember
<1>6. CASE \E m \in Members : DeleteMember(m)
  BY <1>6, MemberInv DEF DeleteMember
<1>7. CASE \E r \in Requests :
             \/ \E op \in {"link", "unlink", "relink", "linkage"}, o \in Owners,
                   ts \in Linkages : Load(r, op, o, ts)
             \/ \E m \in Members : LoadMember(r, m)
             \/ Link(r) \/ Relink(r) \/ Peek(r) \/ Unlink(r) \/ Fail(r) \/ Linkage(r)
             \/ OwnerOf(r)
  BY <1>7, RequestStepInv
<1>8. CASE UNCHANGED vars
  BY <1>8 DEF vars, StoreInv, TypeOK, Constrained, IdsAreKeys, Sound, OnOwner, Holding
<1>. QED
  BY <1>1, <1>2, <1>3, <1>4, <1>5, <1>6, <1>7, <1>8 DEF Next

\* The constraints of the tables, and what requests remember, hold always.
LEMMA StoreInvariant == Spec => []StoreInv
BY InitInv, StoreStep, PTL DEF Spec

\* Every state of the store is typed, for any number of records and requests.
THEOREM StoreTyped == Spec => []TypeOK
<1>1. StoreInv => TypeOK
  BY DEF StoreInv
<1>. QED
  BY <1>1, StoreInvariant, PTL

-----------------------------------------------------------------------------
(* The properties of RelationshipStore.                                    *)

LEMMA OneEntryBatch ==
  ASSUME NEW k, NEW ids
  PROVE  <<[key |-> k, ids |-> ids]>> = [i \in 1..1 |-> [key |-> k, ids |-> ids]]
OBVIOUS

\* Serving r leaves the owners alone and answers nobody else.
LEMMA ServeEffect ==
  ASSUME StoreInv, NEW r \in Requests, NEW ids, NEW replace \in BOOLEAN,
         NEW data, Serve(r, ids, replace, data)
  PROVE  /\ UNCHANGED <<schema, owner>>
         /\ Constrained(owner, holder')
         /\ request'[r] = Ok(data)
         /\ \A q \in Requests : q # r => request'[q].step = request[q].step
<1>. DEFINE batch == <<[key |-> request[r].key, ids |-> ids]>>
            reqs == Reply(r, Ok(data))
<1>1. Commit(owner, AfterAttach(batch, replace), reqs)
  BY DEF Serve, Attach
<1>2. UNCHANGED <<schema, owner>> /\ Constrained(owner, holder')
  BY <1>1 DEF Commit
<1>3. \A q \in Requests : reqs[q] = IF q = r THEN Ok(data) ELSE request[q]
  BY TablesTyped DEF Reply
<1>4. request'[r] = Ok(data)
  BY <1>1, <1>3 DEF Commit, Ok
<1>5. ASSUME NEW q \in Requests, q # r PROVE request'[q].step = request[q].step
  <2>1. CASE request[q].step = "peeked"
    <3>1. request[q] \in Peeked
      BY <2>1, RequestTyped DEF StoreInv
    <3>2. request'[q] \in {request[q], [request[q] EXCEPT !.outdated = TRUE]}
      BY <1>1, <1>3, <1>5 DEF Commit
    <3>. QED
      BY <3>1, <3>2 DEF Peeked
  <2>2. CASE request[q].step # "peeked"
    BY <1>1, <1>3, <1>5, <2>2 DEF Commit
  <2>. QED
    BY <2>1, <2>2
<1>. QED
  BY <1>2, <1>4, <1>5

\* It leaves the members as its one entry says.
LEMMA ServeAdds ==
  ASSUME StoreInv, NEW r \in Requests, NEW ids, NEW data, Serve(r, ids, FALSE, data)
  PROVE  holder' = Added(request[r].key, ids)
<1>. DEFINE batch == <<[key |-> request[r].key, ids |-> ids]>>
<1>1. holder' = AfterAttach(batch, FALSE)
  BY DEF Serve, Attach, Commit
<1>2. batch = [i \in 1..1 |-> [key |-> request[r].key, ids |-> ids]]
  BY OneEntryBatch
<1>. HIDE DEF batch
<1>. QED
  BY <1>1, <1>2, OneEntryAfter

LEMMA ServeReplaces ==
  ASSUME StoreInv, NEW r \in Requests, NEW ids, NEW data, Serve(r, ids, TRUE, data)
  PROVE  holder' = Replaced(request[r].key, ids)
<1>. DEFINE batch == <<[key |-> request[r].key, ids |-> ids]>>
<1>1. holder' = AfterAttach(batch, TRUE)
  BY DEF Serve, Attach, Commit
<1>2. batch = [i \in 1..1 |-> [key |-> request[r].key, ids |-> ids]]
  BY OneEntryBatch
<1>. HIDE DEF batch
<1>. QED
  BY <1>1, <1>2, OneEntryAfter

\* A step that is not r's own does not answer r.
LEMMA OthersDoNotAnswer ==
  ASSUME StoreInv, NEW r \in Requests, NEW own, NEW hold, Commit(own, hold, request)
  PROVE  ~Answers(r)
<1>1. CASE request[r].step = "peeked"
  <2>1. request[r] \in Peeked
    BY <1>1, RequestTyped DEF StoreInv
  <2>2. request'[r] \in {request[r], [request[r] EXCEPT !.outdated = TRUE]}
    BY DEF Commit
  <2>. QED
    BY <2>1, <2>2 DEF Peeked, Answers
<1>2. CASE request[r].step # "peeked"
  BY <1>2 DEF Commit, Answers
<1>. QED
  BY <1>1, <1>2

LEMMA ReadOnlyAnswers ==
  ASSUME StoreInv, NEW q \in Requests, NEW state, ReadOnly(q, state),
         NEW r \in Requests, Answers(r)
  PROVE  q = r /\ state.step = "done" /\ state.status = "ok" /\ request'[r] = state
<1>1. request'[r] = IF r = q THEN state ELSE request[r]
  BY TablesTyped DEF ReadOnly, Reply
<1>. QED
  BY <1>1 DEF Answers

LEMMA AnsweringStep ==
  ASSUME StoreInv, [Next]_vars, NEW r \in Requests, Answers(r)
  PROVE  Link(r) \/ Relink(r) \/ Unlink(r) \/ Linkage(r)
<1>1. CASE \E news \in Orders(Owners) :
             \E key \in [DOMAIN news -> Keys \cup {Null}], ids \in [DOMAIN news -> Linkages] :
               CreateOwners(news, key, ids)
  BY <1>1, OthersDoNotAnswer DEF CreateOwners, Attach
<1>2. CASE \E o \in Owners, k \in Keys \cup {Null},
             linkage \in {{}} \cup {{ids} : ids \in Linkages} :
             UpdateOwner(o, k, linkage)
  BY <1>2, OthersDoNotAnswer DEF UpdateOwner, Attach
<1>3. CASE \E rows \in Orders(Owners), ids \in Linkages : UpdateOwners(rows, ids)
  BY <1>3, OthersDoNotAnswer DEF UpdateOwners, Attach
<1>4. CASE \E os \in SUBSET Owners \ {{}} : DeleteOwners(os)
  BY <1>4, OthersDoNotAnswer DEF DeleteOwners
<1>5. CASE \E m \in Members, k \in Keys \cup {Null} : WriteMember(m, k)
  BY <1>5, OthersDoNotAnswer DEF WriteMember
<1>6. CASE \E m \in Members : DeleteMember(m)
  BY <1>6, OthersDoNotAnswer DEF DeleteMember
<1>7. ASSUME NEW q \in Requests,
             \/ \E op \in {"link", "unlink", "relink", "linkage"}, o \in Owners,
                   ts \in Linkages : Load(q, op, o, ts)
             \/ \E m \in Members : LoadMember(q, m)
             \/ Peek(q)
      PROVE  FALSE
  <2>1. PICK state : ReadOnly(q, state) /\ state.step \in {"loaded", "peeked"}
    <3>1. ASSUME NEW op, NEW o, NEW ts, Load(q, op, o, ts)
          PROVE  \E state : ReadOnly(q, state) /\ state.step \in {"loaded", "peeked"}
      BY <3>1 DEF Load
    <3>2. ASSUME NEW m, LoadMember(q, m)
          PROVE  \E state : ReadOnly(q, state) /\ state.step \in {"loaded", "peeked"}
      BY <3>2 DEF LoadMember
    <3>3. ASSUME Peek(q)
          PROVE  \E state : ReadOnly(q, state) /\ state.step \in {"loaded", "peeked"}
      BY <3>3 DEF Peek
    <3>. QED
      BY <1>7, <3>1, <3>2, <3>3
  <2>. QED
    BY <2>1, ReadOnlyAnswers
<1>8. ASSUME NEW q \in Requests, Link(q) \/ Relink(q) \/ Unlink(q)
      PROVE  q = r
  <2>1. ASSUME NEW ids, NEW data, NEW replace \in BOOLEAN, Serve(q, ids, replace, data)
        PROVE  q = r
    BY <2>1, ServeEffect DEF Answers
  <2>2. Link(q) => \E ids, data : Serve(q, ids, FALSE, data)
    BY DEF Link
  <2>3. Relink(q) => \E ids, data : Serve(q, ids, TRUE, data)
    BY DEF Relink
  <2>4. Unlink(q) => \E ids, data : Serve(q, ids, TRUE, data)
    BY DEF Unlink
  <2>. QED
    BY <1>8, <2>1, <2>2, <2>3, <2>4
<1>9. ASSUME NEW q \in Requests, Fail(q) PROVE FALSE
  BY <1>9, ReadOnlyAnswers DEF Fail, Error
<1>10. ASSUME NEW q \in Requests, Linkage(q) PROVE q = r
  BY <1>10, ReadOnlyAnswers DEF Linkage
<1>11. ASSUME NEW q \in Requests, OwnerOf(q) PROVE FALSE
  <2>1. q = r
    BY <1>11, ReadOnlyAnswers DEF OwnerOf
  <2>. QED
    BY <1>11, <2>1 DEF OwnerOf, Serving, Answers
<1>12. CASE UNCHANGED vars
  BY <1>12 DEF vars, Answers
<1>. QED
  BY <1>1, <1>2, <1>3, <1>4, <1>5, <1>6, <1>7, <1>8, <1>9, <1>10, <1>11, <1>12 DEF Next

\* What r remembers when it answers, and what it finds.
LEMMA AnswererKnows ==
  ASSUME StoreInv, NEW r \in Requests, Link(r) \/ Relink(r) \/ Unlink(r) \/ Linkage(r)
  PROVE  /\ request[r] \in Loaded \cup Peeked
         /\ OnOwner(request[r])
         /\ request[r].targets \in SUBSET Members
         /\ request[r].key \in Keys \cup {Null}
         /\ request[r].parent \in Owners
         /\ Unlink(r) => Remaining(r) = Holding(request[r].key) \ request[r].targets
<1>1. CASE Unlink(r)
  <2>1. request[r] \in Peeked /\ Sound(request[r])
    BY <1>1, RequestTyped DEF StoreInv, Unlink
  <2>. QED
    BY <1>1, <2>1 DEF Unlink, Peeked, Sound, OnOwner, Remaining
<1>2. CASE Link(r) \/ Relink(r) \/ Linkage(r)
  <2>1. request[r].step = "loaded" /\ request[r].op # "owner"
    BY <1>2 DEF Link, Relink, Linkage, Serving
  <2>2. request[r] \in Loaded
    BY <2>1, RequestTyped DEF StoreInv
  <2>. QED
    BY <2>1, <2>2 DEF Loaded, OnOwner, Unlink
<1>. QED
  BY <1>1, <1>2

LEMMA AnswerMoves ==
  ASSUME StoreInv, NEW r \in Requests, Link(r) \/ Relink(r) \/ Unlink(r) \/ Linkage(r),
         NEW m \in Members, holder'[m] # holder[m]
  PROVE  \/ m \in request[r].targets
         \/ /\ request[r].step = "loaded"
            /\ request[r].op = "relink"
            /\ holder[m] = request[r].key /\ holder'[m] = Null
<1>1. CASE Link(r)
  <2>1. \E data : Serve(r, request[r].targets, FALSE, data)
    BY <1>1 DEF Link
  <2>2. holder' = Added(request[r].key, request[r].targets)
    BY <2>1, ServeAdds
  <2>. QED
    BY <2>2 DEF Added
<1>2. CASE Relink(r)
  <2>1. \E data : Serve(r, request[r].targets, TRUE, data)
    BY <1>2 DEF Relink
  <2>2. holder' = Replaced(request[r].key, request[r].targets)
    BY <2>1, ServeReplaces
  <2>. QED
    BY <1>2, <2>2 DEF Relink, Serving, Replaced
<1>3. CASE Unlink(r)
  <2>1. \E data : Serve(r, Remaining(r), TRUE, data)
    BY <1>3 DEF Unlink
  <2>2. holder' = Replaced(request[r].key, Remaining(r))
    BY <2>1, ServeReplaces
  <2>3. Remaining(r) = Holding(request[r].key) \ request[r].targets
    BY <1>3, AnswererKnows
  <2>. QED
    BY <2>2, <2>3 DEF Holding, Replaced
<1>4. CASE Linkage(r)
  BY <1>4 DEF Linkage, ReadOnly
<1>. QED
  BY <1>1, <1>2, <1>3, <1>4

\* A request to a relationship endpoint moves the members it names and, as a
\* replacement, the ones it displaces from its own key: no member that a
\* concurrent request attached.
THEOREM OnlyTheirMembersMove == Spec => RequestsMoveOnlyTheirMembers
<1>1. ASSUME StoreInv, [Next]_vars
      PROVE  [\A r \in Requests :
                Answers(r) =>
                  \A m \in Members : holder'[m] # holder[m] =>
                    \/ m \in request[r].targets
                    \/ /\ request[r].step = "loaded"
                       /\ request[r].op = "relink"
                       /\ holder[m] = request[r].key /\ holder'[m] = Null]_vars
  BY <1>1, AnsweringStep, AnswerMoves
<1>. QED
  BY <1>1, StoreInvariant, PTL DEF Spec, RequestsMoveOnlyTheirMembers

\* The members of the key r loaded, after r's own step, are what it reports.
LEMMA AnswerReports ==
  ASSUME StoreInv, NEW r \in Requests, Link(r) \/ Relink(r) \/ Unlink(r) \/ Linkage(r),
         request[r].key # Null
  PROVE  /\ UNCHANGED <<schema, owner>>
         /\ Constrained(owner, holder')
         /\ request'[r].data = {m \in Members : holder'[m] = request[r].key}
<1>. DEFINE k == request[r].key
            ts == request[r].targets
<1>. k \in Keys /\ k # Null /\ ts \in SUBSET Members
  BY AnswererKnows, ValuesAssumption
<1>1. CASE Link(r)
  <2>. DEFINE data == IF schema.kind = "has_one" THEN ts
                      ELSE IF k = Null THEN {} ELSE Holding(k) \cup ts
  <2>1. Serve(r, ts, FALSE, data)
    BY <1>1 DEF Link
  <2>2. UNCHANGED <<schema, owner>> /\ Constrained(owner, holder') /\ request'[r] = Ok(data)
    BY <2>1, ServeEffect
  <2>3. holder' = Added(k, ts)
    BY <2>1, ServeAdds
  <2>4. CASE schema.kind = "has_one"
    <3>1. ts # {}
      BY <1>1, <2>4 DEF Link, Serving, StoreInv, Sound
    <3>2. \A m, n \in Members : holder'[m] = holder'[n] /\ holder'[m] \in Keys => m = n
      BY <2>2, <2>4, SchemasAssumption DEF StoreInv, TypeOK, Constrained
    <3>. QED
      BY <2>2, <2>3, <2>4, <3>1, <3>2 DEF Ok, Added
  <2>5. CASE schema.kind # "has_one"
    BY <2>2, <2>3, <2>5 DEF Holding, Ok, Added
  <2>. QED
    BY <2>4, <2>5
<1>2. CASE Relink(r)
  <2>1. Serve(r, ts, TRUE, ts)
    BY <1>2 DEF Relink
  <2>2. UNCHANGED <<schema, owner>> /\ Constrained(owner, holder') /\ request'[r] = Ok(ts)
    BY <2>1, ServeEffect
  <2>3. holder' = Replaced(k, ts)
    BY <2>1, ServeReplaces
  <2>. QED
    BY <2>2, <2>3 DEF Ok, Replaced
<1>3. CASE Unlink(r)
  <2>1. Serve(r, Remaining(r), TRUE, Remaining(r))
    BY <1>3 DEF Unlink
  <2>2. Remaining(r) \in SUBSET Members
    BY <1>3, AnswererKnows DEF Holding
  <2>3. /\ UNCHANGED <<schema, owner>> /\ Constrained(owner, holder')
        /\ request'[r] = Ok(Remaining(r))
    BY <2>1, ServeEffect
  <2>4. holder' = Replaced(k, Remaining(r))
    BY <2>1, ServeReplaces
  <2>. QED
    BY <2>2, <2>3, <2>4 DEF Ok, Replaced
<1>4. CASE Linkage(r)
  <2>1. ReadOnly(r, Ok(Holding(k)))
    BY <1>4 DEF Linkage
  <2>2. request'[r] = Ok(Holding(k)) /\ UNCHANGED <<schema, owner, holder>>
    BY <2>1, TablesTyped DEF ReadOnly, Reply
  <2>. QED
    BY <2>2 DEF Ok, Holding, StoreInv, Constrained
<1>. QED
  BY <1>1, <1>2, <1>3, <1>4

\* Where the key is the id, the members of the key r loaded are those of the
\* record the URL names, be it there or gone.
LEMMA KeyIsTheRecord ==
  ASSUME StoreInv, schema.byId, NEW r \in Requests, OnOwner(request[r]),
         request[r].key \in Keys, request[r].parent \in Owners,
         NEW hold, Constrained(owner, hold)
  PROVE  {m \in Members : owner[request[r].parent] # Absent
                          /\ hold[m] = owner[request[r].parent]}
           = {m \in Members : hold[m] = request[r].key}
<1>. DEFINE p == request[r].parent
<1>1. request[r].key = p /\ owner[p] \in {p, Absent} /\ p # Absent
  BY ValuesAssumption DEF StoreInv, Sound, IdsAreKeys
<1>2. CASE owner[p] = p
  BY <1>1, <1>2
<1>3. CASE owner[p] = Absent
  <2>1. \A o \in Owners : owner[o] # p
    BY <1>1, <1>3 DEF StoreInv, IdsAreKeys
  <2>2. \A m \in Members : hold[m] # p
    BY <1>1, <2>1 DEF Constrained
  <2>. QED
    BY <1>1, <1>3, <2>2
<1>. QED
  BY <1>1, <1>2, <1>3

\* Where the key is the id, a 200 of a relationship endpoint reports the
\* membership at the moment it takes effect, although the record was loaded in
\* an earlier transaction.
THEOREM IdRepliesAreRight == Spec => IdRepliesAreMembership
<1>1. ASSUME StoreInv, [Next]_vars, schema.byId, NEW r \in Requests, Answers(r)
      PROVE  request'[r].data = {m \in Members : owner'[request[r].parent] # Absent
                                                 /\ holder'[m] = owner'[request[r].parent]}
  <2>1. Link(r) \/ Relink(r) \/ Unlink(r) \/ Linkage(r)
    BY <1>1, AnsweringStep
  <2>2. OnOwner(request[r]) /\ request[r].parent \in Owners
    BY <1>1, <2>1, AnswererKnows
  <2>3. request[r].key \in Keys /\ request[r].key # Null
    BY <1>1, <2>2, SchemasAssumption, ValuesAssumption DEF StoreInv, TypeOK, Sound
  <2>4. /\ owner' = owner /\ Constrained(owner, holder')
        /\ request'[r].data = {m \in Members : holder'[m] = request[r].key}
    BY <1>1, <2>1, <2>3, AnswerReports
  <2>. QED
    BY <1>1, <2>2, <2>3, <2>4, KeyIsTheRecord
<1>2. StoreInv /\ [Next]_vars => [schema.byId => AnswersAreMembership]_vars
  BY <1>1 DEF AnswersAreMembership
<1>. QED
  BY <1>2, StoreInvariant, PTL DEF Spec, IdRepliesAreMembership

\* After an update that carries a relationship, the record is related to
\* exactly the set it was given, under the key it has from then on.
THEOREM ReplacementsAreExact == Spec => ReplacementIsExact
<1>1. ASSUME StoreInv, NEW o \in Owners, NEW ids \in Linkages,
             UpdateOwner(o, owner'[o], {ids}), owner'[o] # Null
      PROVE  {m \in Members : holder'[m] = owner'[o]} = ids
  <2>. DEFINE k == owner'[o]
              batch == [i \in 1..1 |-> [key |-> k, ids |-> ids]]
  <2>1. Cardinality({ids}) = 1 /\ (CHOOSE x \in {ids} : TRUE) = ids
    BY FS_Singleton
  <2>2. k \in Keys /\ k # Null
    BY <1>1, KeysForAreKeys, ValuesAssumption DEF UpdateOwner, StoreInv, TypeOK
  <2>3. Attach(batch, TRUE, [owner EXCEPT ![o] = k], request)
    BY <1>1, <2>1 DEF UpdateOwner
  <2>4. holder' = AfterAttach(batch, TRUE)
    BY <2>3 DEF Attach, Commit
  <2>5. AfterAttach(batch, TRUE) = Replaced(k, ids)
    BY OneEntryAfter
  <2>. QED
    BY <2>2, <2>4, <2>5 DEF Replaced, Linkages
<1>2. StoreInv /\ [Next]_vars =>
        [\A o \in Owners, ids \in Linkages :
           UpdateOwner(o, owner'[o], {ids}) /\ owner'[o] # Null
             => {m \in Members : holder'[m] = owner'[o]} = ids]_vars
  BY <1>1
<1>. QED
  BY <1>2, StoreInvariant, PTL DEF Spec, ReplacementIsExact
=============================================================================
