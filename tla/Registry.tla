------------------------------ MODULE Registry ------------------------------
(***************************************************************************)
(* Schemas and the registry (database/schema, database/registry.rs): what  *)
(* an application declares with SchemaBuilder, what try_build accepts, and *)
(* what a Schema answers about its columns.                                *)
(*                                                                         *)
(* Names are strings.  An IndexMap of columns is the function from a       *)
(* column's name to its kind; the IndexMap of relationships is a sequence, *)
(* because the loader walks it in order.                                   *)
(***************************************************************************)
EXTENDS Sequences, FiniteSets, TLC

Kinds == {"integer", "text"}

(***************************************************************************)
(* SchemaBuilder.                                                          *)
(***************************************************************************)
Table(name) ==
  [name |-> name, key |-> [name |-> "id", kind |-> "integer"],
   attributes |-> <<>>, foreignKeys |-> <<>>, relationships |-> <<>>,
   textIndex |-> FALSE]

PrimaryKey(s, name, kind) == [s EXCEPT !.key = [name |-> name, kind |-> kind]]

Attribute(s, name, kind) ==
  [s EXCEPT !.attributes = (name :> kind) @@ @]

ForeignKey(s, name, kind) ==
  [s EXCEPT !.foreignKeys = (name :> kind) @@ @]

TextIndex(s) == [s EXCEPT !.textIndex = TRUE]

\* Related::to(..).pointing_own(own).to_related(related), or the other way
\* around: both keys are always given.
Related(resource, own, related) ==
  [resource |-> resource, own |-> own, related |-> related]

\* IndexMap::insert: a name declared again keeps its place.
Relate(s, name, kind, target) ==
  LET descriptor == [name |-> name, kind |-> kind, resource |-> target.resource,
                     own |-> target.own, related |-> target.related]
      here(i) == s.relationships[i].name = name
  IN [s EXCEPT !.relationships =
        IF \E i \in DOMAIN @ : here(i)
        THEN [i \in DOMAIN @ |-> IF here(i) THEN descriptor ELSE @[i]]
        ELSE Append(@, descriptor)]

BelongsTo(s, name, target) == Relate(s, name, "belongs_to", target)
HasOne(s, name, target) == Relate(s, name, "has_one", target)
HasMany(s, name, target) == Relate(s, name, "has_many", target)

(***************************************************************************)
(* Schema: what a validated schema answers.                                *)
(***************************************************************************)
Relationships(s) == {s.relationships[i] : i \in DOMAIN s.relationships}
RelationshipNames(s) == {r.name : r \in Relationships(s)}
Relationship(s, name) == CHOOSE r \in Relationships(s) : r.name = name

Attributes(s) == DOMAIN s.attributes
ForeignKeys(s) == DOMAIN s.foreignKeys
Columns(s) == {s.key.name} \cup Attributes(s) \cup ForeignKeys(s)

ColumnKind(s, name) ==
  CASE name = s.key.name -> s.key.kind
    [] name \in Attributes(s) -> s.attributes[name]
    [] OTHER -> s.foreignKeys[name]

\* The JSON:API fields: attributes and relationships share a namespace.
Fields(s) == Attributes(s) \cup RelationshipNames(s)

(***************************************************************************)
(* try_build.  Every fault is the same error, Error::InconsistentSchema.   *)
(***************************************************************************)
UniqueNames(parts) ==
  \A i, j \in DOMAIN parts : parts[i].name = parts[j].name => i = j

ValidSchema(s) ==
  /\ s.key.name \notin Attributes(s) \cup ForeignKeys(s)
  /\ Attributes(s) \cap ForeignKeys(s) = {}
  /\ RelationshipNames(s) \cap Attributes(s) = {}
  /\ {"type", "id"} \cap Fields(s) = {}

\* A side that is referenced joins on its primary key or on an attribute.
Referenced(s, column) == column \in {s.key.name} \cup Attributes(s)

ValidRelationship(s, r, byName) ==
  /\ r.resource \in DOMAIN byName
  /\ LET target == byName[r.resource] IN
     /\ IF r.kind = "belongs_to"
        THEN r.own \in ForeignKeys(s) /\ Referenced(target, r.related)
        ELSE Referenced(s, r.own) /\ r.related \in ForeignKeys(target)
     /\ ColumnKind(s, r.own) = ColumnKind(target, r.related)

ByName(parts) ==
  [name \in {parts[i].name : i \in DOMAIN parts} |->
     parts[CHOOSE i \in DOMAIN parts : parts[i].name = name]]

Consistent(parts) ==
  /\ UniqueNames(parts)
  /\ \A i \in DOMAIN parts :
       /\ ValidSchema(parts[i])
       /\ \A r \in Relationships(parts[i]) :
            ValidRelationship(parts[i], r, ByName(parts))
=============================================================================
