----------------------------- MODULE DataLoader -----------------------------
(***************************************************************************)
(* Records (database/record.rs) and what the data loader does with one     *)
(* relationship of a collection (database/data_loader/mod.rs): the rows it *)
(* asks for, how it tells whose they are, and how it merges a record that  *)
(* was reached before.                                                     *)
(*                                                                         *)
(* A record's linkage is a sequence of ids for every kind of relationship, *)
(* with at most one for a to-one.                                          *)
(***************************************************************************)
EXTENDS QueryBuilder

(***************************************************************************)
(* Records.                                                                *)
(***************************************************************************)
\* try_from_row: the primary key becomes the id.
FromRow(s, row) ==
  [kind |-> s.name, id |-> row[s.key.name],
   columns |-> Restrict(row, DOMAIN row \ {s.key.name}), relationships |-> <<>>]

FromRows(s, rows) == [i \in DOMAIN rows |-> FromRow(s, rows[i])]

\* get_owned.
Has(s, record, column) == column = s.key.name \/ column \in DOMAIN record.columns
Owned(s, record, column) ==
  IF column = s.key.name THEN record.id ELSE record.columns[column]

Identifier(record) == <<record.kind, record.id>>
WithLinkage(record, r, ids) ==
  [record EXCEPT !.relationships = Put(@, r, ids)]

(***************************************************************************)
(* Indexing (utils/indexing.rs): a map from key to item that refuses a     *)
(* repeated key, and one that gathers the items of a key.                  *)
(***************************************************************************)
Repeats(keys) == \E i, j \in DOMAIN keys : i < j /\ keys[i] = keys[j]

Indexed(keys, items) ==
  [key \in ToSet(keys) |-> items[CHOOSE i \in DOMAIN keys : keys[i] = key]]

Grouped(keys, items) ==
  [key \in ToSet(keys) |->
     LET mine == {i \in DOMAIN keys : keys[i] = key}
     IN [n \in 1..Cardinality(mine) |->
           items[CHOOSE i \in mine : Cardinality({j \in mine : j < i}) = n - 1]]]

(***************************************************************************)
(* load_collection_by: the rows whose column holds one of the keys.  No    *)
(* key, no query.                                                          *)
(***************************************************************************)
OwnKeys(s, records, column) ==
  {Owned(s, x, column) : x \in {y \in ToSet(records) : Has(s, y, column)}} \ {Null}

LoadCollectionBy(target, column, keys, fields, table) ==
  LET in == [op |-> "in", operand |-> keys]
      p == [Blank(target) EXCEPT !.fields = fields, !.filter = Put(@, column, {in})]
      answer == Query(target, p, table, Usual)
  IN IF keys = {} THEN Answer(<<>>)
     ELSE [answer EXCEPT !.rows = FromRows(target, @)]

(***************************************************************************)
(* load_belongs_to, load_has_one, load_has_many: the collection with its   *)
(* linkage, and the related records that were read for it.                 *)
(***************************************************************************)
Loaded(records, related) ==
  [error |-> "none", records |-> records, related |-> related]
NotLoaded(error) == [error |-> error, records |-> <<>>, related |-> <<>>]

\* The keys of the related records: an attribute for a belongs_to, a foreign
\* key otherwise, and not loaded if the fieldset left it out.
KeyMissing(r, target, related) ==
  \E i \in DOMAIN related :
    r.related \notin DOMAIN related[i].columns
                       \cap (IF r.kind = "belongs_to" THEN Attributes(target)
                             ELSE ForeignKeys(target))

IndexFault(r, target, related) ==
  IF KeyMissing(r, target, related) THEN "DataLoadingError"
  ELSE IF /\ r.kind # "has_many"
          /\ Repeats([i \in DOMAIN related |-> related[i].columns[r.related]])
  THEN "DuplicateIndexKey"
  ELSE "none"

KeysOf(r, related) == [i \in DOMAIN related |-> related[i].columns[r.related]]
IdsOf(related) == [i \in DOMAIN related |-> related[i].id]

\* The records whose own key was read, and the linkage it stands for.
Holders(s, records, r) == {i \in DOMAIN records : Has(s, records[i], r.own)}

Linked(records, r, ids) ==
  [i \in DOMAIN records |->
     IF i \in DOMAIN ids THEN WithLinkage(records[i], r.name, ids[i]) ELSE records[i]]

\* Mutant: the foreign key is taken for the id whatever it refers to.
LoadBelongsToById(s, target, r, records, fields, included, table) ==
  LET found == IF included
               THEN LoadCollectionBy(target, r.related, OwnKeys(s, records, r.own),
                                     fields, table)
               ELSE Answer(<<>>)
      own(i) == Owned(s, records[i], r.own)
      ids == [i \in Holders(s, records, r) |->
                IF own(i) = Null THEN <<>> ELSE <<own(i)>>]
  IN IF found.error # "none" THEN NotLoaded(found.error)
     ELSE IF ~ IsRequested(fields, s.name, r.name) THEN Loaded(records, found.rows)
     ELSE Loaded(Linked(records, r, ids), found.rows)

\* On the primary key the foreign key is the id, and no row is needed for it.
LoadBelongsTo(s, target, r, records, fields, included, table) ==
  LET onKey == r.related = target.key.name
      requested == IsRequested(fields, s.name, r.name)
      found == IF included \/ (requested /\ ~ onKey)
               THEN LoadCollectionBy(target, r.related, OwnKeys(s, records, r.own),
                                     fields, table)
               ELSE Answer(<<>>)
      related == found.rows
      index == Indexed(KeysOf(r, related), IdsOf(related))
      own(i) == Owned(s, records[i], r.own)
      ids == [i \in Holders(s, records, r) |->
                IF own(i) = Null THEN <<>>
                ELSE IF onKey THEN <<own(i)>> ELSE <<index[own(i)]>>]
  IN IF found.error # "none" THEN NotLoaded(found.error)
     ELSE IF ~ requested THEN Loaded(records, related)
     ELSE IF ~ onKey /\ IndexFault(r, target, related) # "none"
     THEN NotLoaded(IndexFault(r, target, related))
     ELSE IF ~ onKey /\ ~ OwnKeys(s, records, r.own) \subseteq DOMAIN index
     THEN NotLoaded("DataLoadingError")
     ELSE Loaded(Linked(records, r, ids), related)

\* Always read, and indexed even when only the records are wanted.  A to-many
\* group goes to the first record that asks for its key.
LoadHas(s, target, r, records, fields, table) ==
  LET found == LoadCollectionBy(target, r.related, OwnKeys(s, records, r.own),
                                fields, table)
      related == found.rows
      index == Grouped(KeysOf(r, related), IdsOf(related))
      own(i) == Owned(s, records[i], r.own)
      taken(i) == r.kind = "has_many"
                    /\ \E j \in Holders(s, records, r) : j < i /\ own(j) = own(i)
      ids == [i \in Holders(s, records, r) |->
                IF own(i) \in DOMAIN index /\ ~ taken(i) THEN index[own(i)] ELSE <<>>]
  IN IF found.error # "none" THEN NotLoaded(found.error)
     ELSE IF IndexFault(r, target, related) # "none"
     THEN NotLoaded(IndexFault(r, target, related))
     ELSE IF ~ IsRequested(fields, s.name, r.name) THEN Loaded(records, related)
     ELSE Loaded(Linked(records, r, ids), related)

LoadRelated(s, target, r, records, fields, included, table) ==
  IF r.kind = "belongs_to"
  THEN LoadBelongsTo(s, target, r, records, fields, included, table)
  ELSE LoadHas(s, target, r, records, fields, table)

(***************************************************************************)
(* The cache, a map from identifier to record.  A record reached again     *)
(* only adds the linkage the cached one lacks; other linkage is an error.  *)
(***************************************************************************)
Disagree(x, y) ==
  \E r \in DOMAIN x.relationships \cap DOMAIN y.relationships :
    x.relationships[r] # y.relationships[r]

\* Mutant: the record that was there first stays as it is.
MergeKeepsFirst(cache, record) == Over(cache, Put(<<>>, Identifier(record), record))

Merge(cache, record) ==
  LET key == Identifier(record) IN
  IF key \notin DOMAIN cache THEN Put(cache, key, record)
  ELSE [cache EXCEPT ![key].relationships = Over(@, record.relationships)]

\* The cache after each record of a collection.
Merging(cache, records) ==
  LET after[i \in 0..Len(records)] ==
        IF i = 0 THEN cache ELSE Merge(after[i - 1], records[i])
  IN after

MergeAll(cache, records) == Merging(cache, records)[Len(records)]

MergeConflicts(cache, records) ==
  \E i \in DOMAIN records :
    LET before == Merging(cache, records)[i - 1]
    IN Identifier(records[i]) \in DOMAIN before
         /\ Disagree(before[Identifier(records[i])], records[i])
=============================================================================
