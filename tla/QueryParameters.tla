--------------------------- MODULE QueryParameters ---------------------------
(***************************************************************************)
(* Query parameters (database/query_parameters.rs): how a query string is  *)
(* turned into what the primary query and the loader are asked for.        *)
(*                                                                         *)
(* A query is the sequence of its entries, [key, on, values]: the family   *)
(* or parameter, the bracketed name, and the value already split at its    *)
(* commas.  Column values and numbers are naturals; 0 stands for a text    *)
(* that is no number, or one no row holds.                                 *)
(***************************************************************************)
EXTENDS Registry, Naturals, SequencesExt

CONSTANTS Null,     \* SQL NULL, and an absent option
          Numbers   \* a u32 holds 0 .. Numbers - 1

ASSUME NumbersAssumption == Numbers \in Nat \ {0}
ASSUME NullAssumption == Null \notin STRING /\ Null \notin Nat

Entry(key, on, values) == [key |-> key, on |-> on, values |-> values]

(***************************************************************************)
(* The parameters.  `include` is the tree of relationships to include, as  *)
(* the prefix-closed set of its paths; `filter` maps a column to the       *)
(* conditions on it.  What is absent is <<>>: a `sort`, which is never     *)
(* empty, a `page`, and a `search`, which is a set of terms if there is one.*)
(***************************************************************************)
Blank(s) ==
  [schema |-> s.name, fields |-> <<>>, include |-> {}, filter |-> <<>>,
   search |-> <<>>, sort |-> <<>>, page |-> <<>>,
   models |-> {s.name}, error |-> "none"]

Failing(p, error) == [p EXCEPT !.error = error]

FieldsOf(fields, model) == IF model \in DOMAIN fields THEN fields[model] ELSE {}

\* HashMap::insert, and extending a map where it has no entry.
Put(map, key, value) ==
  [k \in DOMAIN map \cup {key} |-> IF k = key THEN value ELSE map[k]]
Over(first, second) ==
  [k \in DOMAIN first \cup DOMAIN second |->
     IF k \in DOMAIN first THEN first[k] ELSE second[k]]

\* Mutant: the keys are planted only on models that are served in full.
DiscoverFieldsServedOnly(fields, models, reg) ==
  LET pinned == Over(fields, [m \in models |-> Fields(reg[m])])
      joins == UNION {Relationships(reg[m]) : m \in models}
  IN [m \in DOMAIN pinned \cup {r.resource : r \in joins} |->
        IF m \in DOMAIN fields THEN fields[m]
        ELSE FieldsOf(pinned, m)
               \cup {r.related : r \in {j \in joins : j.resource = m}}]

\* Every served model that the request left open gets its full fieldset, and
\* every relationship out of a served model plants its join key on the model
\* it leads to, so that the loader can tell whose the related rows are.
DiscoverFields(fields, models, reg) ==
  LET pinned == Over(fields, [m \in models |-> Fields(reg[m])])
      joins == UNION {Relationships(reg[m]) : m \in models}
  IN [m \in DOMAIN pinned \cup {r.resource : r \in joins} |->
        FieldsOf(pinned, m) \cup {r.related : r \in {j \in joins : j.resource = m}}]

\* QueryParameters::new: everything the resource has, and nothing included.
New(s, reg) ==
  [Blank(s) EXCEPT !.fields = DiscoverFields(<<>>, {s.name}, reg)]

\* New, with the fieldsets replaced.
Asking(s, reg, fields) == [New(s, reg) EXCEPT !.fields = fields]

(***************************************************************************)
(* What the loader asks, at a model of the include tree.                   *)
(***************************************************************************)
IsRequested(fields, model, r) == r \in FieldsOf(fields, model)
IsIncluded(include, r) == <<r>> \in include
ShouldLoad(fields, include, model, r) ==
  IsRequested(fields, model, r) \/ IsIncluded(include, r)

RelationshipsToLoad(s, fields, include) ==
  LET upTo[i \in 0..Len(s.relationships)] ==
        IF i = 0 THEN <<>>
        ELSE IF ShouldLoad(fields, include, s.name, s.relationships[i].name)
        THEN Append(upTo[i - 1], s.relationships[i])
        ELSE upTo[i - 1]
  IN upTo[Len(s.relationships)]

\* derive: the subtree below a relationship.
Derive(include, r) ==
  {Tail(path) : path \in {q \in include : Len(q) > 1 /\ Head(q) = r}}

(***************************************************************************)
(* The entries.                                                            *)
(***************************************************************************)
ParseFields(p, e, reg) ==
  IF e.on \notin DOMAIN reg THEN Failing(p, "UnknownSchema")
  ELSE IF ~ ToSet(e.values) \subseteq Fields(reg[e.on])
  THEN Failing(p, "QueryValidationFailure")
  ELSE [p EXCEPT !.fields = Put(@, e.on, FieldsOf(@, e.on) \cup ToSet(e.values))]

\* The schema each prefix of a path leads to; Null past an unknown name, which
\* an empty one is.
Walk(path, s, reg) ==
  LET At[i \in 0..Len(path)] ==
        IF i = 0 THEN s.name
        ELSE IF At[i - 1] # Null
                  /\ path[i] \in RelationshipNames(reg[At[i - 1]])
             THEN Relationship(reg[At[i - 1]], path[i]).resource
             ELSE Null
  IN At

ParseInclude(p, e, s, reg) ==
  LET paths == ToSet(e.values)
      invalid(path) == Walk(path, s, reg)[Len(path)] = Null
      reached(path) == {Walk(path, s, reg)[i] : i \in 1..Len(path)}
      prefixes(path) == {SubSeq(path, 1, i) : i \in 1..Len(path)}
  IN IF \E path \in paths : invalid(path)
     THEN Failing(p, "QueryValidationFailure")
     ELSE [p EXCEPT !.include = @ \cup UNION {prefixes(q) : q \in paths},
                    !.models = @ \cup UNION {reached(q) : q \in paths}]

\* A condition's text must parse as the attribute's kind.  The value is split
\* at every comma before the operator is read, so `in` and `nin` only ever
\* get one member from a query.
Operators == {"eq", "neq", "gt", "gte", "lt", "lte", "like", "in", "nin"}

ParseFilter(p, e, s) ==
  LET bad(c) == \/ c.op \notin Operators
                \/ s.attributes[e.on] = "integer" /\ c.value = 0
      condition(c) == [op |-> c.op, operand |-> {c.value}]
  IN IF e.on \notin Attributes(s) THEN Failing(p, "QueryValidationFailure")
     ELSE IF \E c \in ToSet(e.values) : bad(c)
     THEN Failing(p, "ParseParameterFailure")
     ELSE [p EXCEPT !.filter = Put(@, e.on, {condition(c) : c \in ToSet(e.values)})]

\* Empty terms are dropped; a value of nothing else still is a search.
ParseSearch(p, e) ==
  IF e.values = <<>> THEN p ELSE [p EXCEPT !.search = <<ToSet(e.values) \ {0}>>]

ParseSort(p, e, s) ==
  IF e.values = <<>> THEN Failing(p, "ParseParameterFailure")
  ELSE IF \E i \in DOMAIN e.values : e.values[i].attribute \notin Attributes(s)
  THEN Failing(p, "QueryValidationFailure")
  ELSE [p EXCEPT !.sort = e.values]

\* NonZeroU32: zero and what does not fit are refused.
ParsePage(p, e) ==
  LET value == e.values[1]
      page == IF p.page = <<>> THEN [number |-> 1, size |-> 20] ELSE p.page
  IN IF value \notin 1..(Numbers - 1) \/ e.on \notin {"number", "size"}
     THEN Failing(p, "ParseParameterFailure")
     ELSE [p EXCEPT !.page = IF e.on = "number"
                             THEN [page EXCEPT !.number = value]
                             ELSE [page EXCEPT !.size = value]]

ParseEntry(p, e, s, reg) ==
  CASE e.key = "fields" -> ParseFields(p, e, reg)
    [] e.key = "include" -> ParseInclude(p, e, s, reg)
    [] e.key = "filter" -> ParseFilter(p, e, s)
    [] e.key = "search" -> ParseSearch(p, e)
    [] e.key = "sort" -> ParseSort(p, e, s)
    [] e.key = "page" -> ParsePage(p, e)
    [] OTHER -> Failing(p, "ParseParameterFailure")

\* QueryParameters::parse: the entries from left to right, up to the first that
\* is refused, then the fields of every model that will be served.
Parse(query, s, reg) ==
  LET upTo[i \in 0..Len(query)] ==
        IF i = 0 THEN Blank(s)
        ELSE IF upTo[i - 1].error # "none" THEN upTo[i - 1]
        ELSE ParseEntry(upTo[i - 1], query[i], s, reg)
      read == upTo[Len(query)]
  IN IF read.error # "none" THEN read
     ELSE [read EXCEPT !.fields = DiscoverFields(@, read.models, reg)]
=============================================================================
