---------------------------- MODULE QueryBuilder ----------------------------
(***************************************************************************)
(* The SQLite query builder and the Table operations over it (database/    *)
(* adapters/sqlite/query_builder, database/table.rs), together with what   *)
(* SQLite answers.                                                         *)
(*                                                                         *)
(* A table is a set of rows, a row the function from its columns to their  *)
(* values.  An operation answers [error, rows]: rows as SQLite returns     *)
(* them, restricted to the selected columns, or why there are none.        *)
(***************************************************************************)
EXTENDS QueryParameters, FiniteSetsExt

CONSTANTS Malformed, \* the search terms that are no query of FTS5
          Variables  \* how many values SQLite binds in a statement

ASSUME MalformedAssumption == Malformed \subseteq Nat
ASSUME VariablesAssumption == Variables \in Nat \ {0}

Answer(rows) == [error |-> "none", rows |-> rows]
Refusal(error) == [error |-> error, rows |-> <<>>]

\* fields_for_model: a relationship stands for its own key; the primary key
\* always comes along.
ColumnsFor(s, fields) ==
  {s.key.name} \cup
    {IF f \in Columns(s) THEN f ELSE Relationship(s, f).own : f \in fields[s.name]}

\* Its two expects.
FieldsPanic(s, fields) ==
  \/ s.name \notin DOMAIN fields
  \/ ~ fields[s.name] \subseteq Columns(s) \cup RelationshipNames(s)

Selected(rows, columns) == [i \in DOMAIN rows |-> Restrict(rows[i], columns)]

(***************************************************************************)
(* SQLite.                                                                 *)
(***************************************************************************)
Rank(value) == IF value = Null THEN 0 ELSE value

\* A comparison with NULL is not true.
Satisfies(value, condition) ==
  /\ value # Null
  /\ CASE condition.op \in {"eq", "in", "like"} -> value \in condition.operand
       [] condition.op \in {"neq", "nin"} -> value \notin condition.operand
       [] condition.op = "gt" -> \E x \in condition.operand : value > x
       [] condition.op = "gte" -> \E x \in condition.operand : value >= x
       [] condition.op = "lt" -> \E x \in condition.operand : value < x
       [] condition.op = "lte" -> \E x \in condition.operand : value <= x

\* MATCH on the full-text index, which covers the text attributes.
Mentions(s, row, term) ==
  \E a \in Attributes(s) : s.attributes[a] = "text" /\ row[a] = term

\* The order of rows: the sort's attributes in turn, then as they are stored.
Precedes(s, sort, x, y) ==
  LET differ == {i \in DOMAIN sort : x[sort[i].attribute] # y[sort[i].attribute]}
      first == Min(differ)
      before(v, w) == IF sort[first].descending THEN Rank(v) > Rank(w)
                      ELSE Rank(v) < Rank(w)
  IN IF differ = {} THEN x[s.key.name] < y[s.key.name]
     ELSE before(x[sort[first].attribute], y[sort[first].attribute])

\* The row in a place is the one that so many others precede.
Ordered(s, sort, rows) ==
  [i \in 1..Cardinality(rows) |->
     CHOOSE row \in rows : Cardinality({x \in rows : Precedes(s, sort, x, row)}) = i - 1]

(***************************************************************************)
(* query.                                                                  *)
(***************************************************************************)
\* build_join_clause.
JoinFault(s, p) ==
  IF p.search # <<>> /\ ~ s.textIndex THEN "QueryValidationFailure" ELSE "none"

\* build_where_clause.
WhereFault(s, p) ==
  IF ~ DOMAIN p.filter \subseteq Columns(s) THEN "InvalidAttributeAccess"
  ELSE IF \E column \in DOMAIN p.filter : \E c \in p.filter[column] :
            c.op = "like" /\ ColumnKind(s, column) # "text"
  THEN "QueryValidationFailure"
  ELSE "none"

Where(s, p, table) ==
  {row \in table :
     /\ p.search # <<>> => \A term \in p.search[1] : Mentions(s, row, term)
     /\ \A column \in DOMAIN p.filter : \A c \in p.filter[column] :
          Satisfies(row[column], c)}

\* Mutant: pages counted from zero.
OffsetFromZero(page) == (page.number * page.size) % Numbers

\* build_limit_offset_clauses: the offset is computed in u32.
Offset(page) == ((page.number - 1) * page.size) % Numbers
Overflows(p) ==
  p.page # <<>> /\ (p.page.number - 1) * p.page.size >= Numbers

Page(page, rows) ==
  IF page = <<>> THEN rows
  ELSE SubSeq(rows, Offset(page) + 1, Min({Offset(page) + page.size, Len(rows)}))

\* How a query may run.  A build without overflow checks wraps, where the
\* others panic.  A plan may come to the MATCH only with rows that meet the
\* other conditions, and skip it if there are none.
Usual == [wraps |-> TRUE, skips |-> FALSE]
Ways(s, p, table) ==
  {way \in [wraps : BOOLEAN, skips : BOOLEAN] :
     way.skips => /\ \E column \in DOMAIN p.filter : p.filter[column] # {}
                  /\ Where(s, [p EXCEPT !.search = <<>>], table) = {}}

\* What SQLite refuses: the JOIN, which names the column `id`, a term that was
\* bound as it came, or a set of more values than it binds.
SqlRefuses(s, p, way) ==
  \/ p.search # <<>> /\ "id" \notin Columns(s)
  \/ p.search # <<>> /\ p.search[1] \cap Malformed # {} /\ ~ way.skips
  \/ \E column \in DOMAIN p.filter : \E c \in p.filter[column] :
       Cardinality(c.operand) > Variables

\* The first thing that goes wrong: the clauses in the order they are built,
\* then SQLite.
QueryFault(s, p, way) ==
  IF FieldsPanic(s, p.fields) THEN "Panic"
  ELSE IF JoinFault(s, p) # "none" THEN JoinFault(s, p)
  ELSE IF WhereFault(s, p) # "none" THEN WhereFault(s, p)
  ELSE IF Overflows(p) /\ ~ way.wraps THEN "Panic"
  ELSE IF SqlRefuses(s, p, way) THEN "SqlFailure"
  ELSE "none"

Query(s, p, table, way) ==
  LET fault == QueryFault(s, p, way)
      rows == Page(p.page, Ordered(s, p.sort, Where(s, p, table)))
  IN IF fault # "none" THEN Refusal(fault)
     ELSE Answer(Selected(rows, ColumnsFor(s, p.fields)))

\* find, by a column called `id` whatever the primary key is called, takes the
\* first row.
Find(s, id, fields, table) ==
  LET found == {row \in table : row["id"] = id}
  IN IF FieldsPanic(s, fields) THEN Refusal("Panic")
     ELSE IF "id" \notin Columns(s) THEN Refusal("SqlFailure")
     ELSE IF found = {} THEN Refusal("RecordNotFound")
     ELSE Answer(Selected(<<CHOOSE row \in found : TRUE>>, ColumnsFor(s, fields)))

(***************************************************************************)
(* insert_batch: the given rows name the same columns; SQLite makes up the *)
(* primary keys and leaves the other columns NULL.                         *)
(***************************************************************************)
\* The columns SQLite keeps unique: the key, what a foreign key of the schemas
\* refers to (it refuses any other parent key), and the key of a has_one, whose
\* second target "surfaces the related side's unique-key violation".
Unique(s, reg) ==
  LET here == {r \in UNION {Relationships(reg[m]) : m \in DOMAIN reg} : r.resource = s.name}
  IN {s.key.name} \cup {r.own : r \in {q \in Relationships(s) : q.kind # "belongs_to"}}
       \cup {r.related : r \in {q \in here : q.kind # "has_many"}}

Taken(s, table, rows) ==
  {row[s.key.name] : row \in table}
    \cup {rows[i][s.key.name] : i \in {j \in DOMAIN rows : s.key.name \in DOMAIN rows[j]}}

Completed(s, table, rows) ==
  LET top == Max({0} \cup Taken(s, table, rows))
  IN [i \in DOMAIN rows |->
        Over(rows[i], [column \in Columns(s) |->
                         IF column = s.key.name THEN top + i ELSE Null])]

\* The foreign keys of s point at rows that are there.
Resolves(s, row, reg, db) ==
  \A r \in Relationships(s) :
    r.kind = "belongs_to" /\ row[r.own] # Null =>
      \E target \in db[r.resource] : target[r.related] = row[r.own]

InsertFault(s, rows, fields, reg, db) ==
  LET stored == Completed(s, db[s.name], rows)
      taken(i, column) ==
        \/ \E row \in db[s.name] : row[column] = stored[i][column]
        \/ \E j \in DOMAIN stored : j # i /\ stored[j][column] = stored[i][column]
      after == [db EXCEPT ![s.name] = @ \cup ToSet(stored)]
  IN IF \E i, j \in DOMAIN rows : DOMAIN rows[i] # DOMAIN rows[j]
     THEN "InvalidOperation"
     ELSE IF FieldsPanic(s, fields) THEN "Panic"
     \* INSERT INTO t() VALUES () is no SQL, and a batch is one statement.
     ELSE IF \E i \in DOMAIN rows : \/ DOMAIN rows[i] = {}
                                    \/ Len(rows) * Cardinality(DOMAIN rows[i]) > Variables
     THEN "SqlFailure"
     ELSE IF \E i \in DOMAIN stored : \E column \in Unique(s, reg) :
               stored[i][column] # Null /\ taken(i, column)
     THEN "ConstraintViolation"
     ELSE IF \E i \in DOMAIN stored : ~ Resolves(s, stored[i], reg, after)
     THEN "ForeignKeyViolation"
     ELSE "none"

InsertBatch(s, rows, fields, reg, db) ==
  LET fault == InsertFault(s, rows, fields, reg, db)
      stored == Completed(s, db[s.name], rows)
  IN IF fault # "none" THEN [error |-> fault, rows |-> <<>>, db |-> db]
     ELSE [error |-> "none", rows |-> Selected(stored, ColumnsFor(s, fields)),
           db |-> [db EXCEPT ![s.name] = @ \cup ToSet(stored)]]
=============================================================================
