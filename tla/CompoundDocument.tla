-------------------------- MODULE CompoundDocument --------------------------
(***************************************************************************)
(* What a request for records promises, without a loader: the primary data *)
(* is the page of the rows that meet the conditions, in the order asked    *)
(* for, and `included` is what the paths of `include` lead to, followed    *)
(* through the rows of the database.                                       *)
(*                                                                         *)
(* One thing is the code's own: a path goes on from a record only if the   *)
(* fieldset its client asked for brings the column it goes on by.          *)
(***************************************************************************)
EXTENDS QueryBuilder

VARIABLES schemas, db, request, shown

reg == ByName(schemas)
Schema == reg[request.resource]
Descriptor == Relationship(Schema, request.relationship)
Target ==
  IF request.kind \in {"related", "linkage"} THEN reg[Descriptor.resource] ELSE Schema

(***************************************************************************)
(* The query, read entry by entry.                                         *)
(***************************************************************************)
Entries(key) == {i \in DOMAIN request.query : request.query[i].key = key}
Values(key, on) ==
  UNION {ToSet(request.query[i].values) :
           i \in {j \in Entries(key) : request.query[j].on = on}}
LastOf(key, on, default) ==
  LET here == {i \in Entries(key) : request.query[i].on = on}
  IN IF here = {} THEN default ELSE request.query[Max(here)].values

\* A search for nothing at all is none, and leaves an earlier one.
Terms ==
  LET here == {i \in Entries("search") : request.query[i].values # <<>>}
  IN IF here = {} THEN {} ELSE ToSet(request.query[Max(here)].values) \ {0}

Paths ==
  UNION {{SubSeq(path, 1, i) : i \in 1..Len(path)} : path \in Values("include", "")}

Number == LastOf("page", "number", <<1>>)[1]
Size == LastOf("page", "size", <<20>>)[1]
Paged == Entries("page") # {}
PageFits == (Number - 1) * Size < Numbers

(***************************************************************************)
(* Include paths.                                                          *)
(***************************************************************************)
Served ==
  {Target.name} \cup UNION {{Walk(path, Target, reg)[i] : i \in 1..Len(path)} : path \in Paths}

Pinned(s) == \E i \in Entries("fields") : request.query[i].on = s.name

\* The column is the key, the client asked for it or for a relationship that
\* uses it and has no column's name, or another model that is served is joined
\* to it.
Wanted(s) == IF Pinned(s) THEN Values("fields", s.name) ELSE Fields(s)

Brought(s, column) ==
  \/ column \in {s.key.name} \cup Wanted(s)
  \/ \E r \in Relationships(s) : r.name \in Wanted(s) \ Columns(s) /\ r.own = column
  \/ \E m \in Served : \E r \in Relationships(reg[m]) :
       r.resource = s.name /\ r.related = column

Joined(s, rows, r) ==
  IF ~ Brought(s, r.own) THEN {}
  ELSE {t \in db[r.resource] :
          \E row \in rows : row[r.own] # Null /\ t[r.related] = row[r.own]}

\* The rows a path leads to, and the records they are.
Reached(path, s, rows) ==
  LET schemaAt == Walk(path, s, reg)
      RowsAt[i \in 0..Len(path)] ==
        IF i = 0 THEN rows
        ELSE LET m == reg[schemaAt[i - 1]]
             IN Joined(m, RowsAt[i - 1], Relationship(m, path[i]))
  IN RowsAt[Len(path)]

Destination(path, s, rows) ==
  LET m == reg[Walk(path, s, reg)[Len(path)]]
  IN {<<m.name, row[m.key.name]>> : row \in Reached(path, s, rows)}

IncludedFor(rows) == UNION {Destination(path, Target, rows) : path \in Paths}

(***************************************************************************)
(* The primary data.                                                       *)
(***************************************************************************)
Meets(row) ==
  /\ \A a \in Attributes(Target) :
       \A c \in ToSet(LastOf("filter", a, <<>>)) :
         Satisfies(row[a], [op |-> c.op, operand |-> {c.value}])
  /\ \A term \in Terms : Mentions(Target, row, term)

\* The record the request names: the one shown, or the related ones' parent.
Base ==
  CASE request.kind \in {"index", "create"} -> db[Target.name]
    [] request.kind = "show" -> {row \in db[Target.name] : row[Target.key.name] = request.id}
    [] OTHER ->
         {t \in db[Target.name] :
            \E row \in db[Schema.name] :
              /\ row[Schema.key.name] = request.id
              /\ row[Descriptor.own] # Null
              /\ t[Descriptor.related] = row[Descriptor.own]}

\* The order of `sort`, then as the rows are stored, and a page of that.
Primary ==
  LET rows == Ordered(Target, LastOf("sort", "", <<>>), {x \in Base : Meets(x)})
      from == (Number - 1) * Size
  IN IF Paged THEN SubSeq(rows, from + 1, Min({from + Size, Len(rows)})) ELSE rows

\* show has no conditions, order or page, and linkage reads no query: it is all
\* of the related records, in whatever order.  What a create answers with is
\* new; which rows they are is not said here.
Answers(rows) ==
  CASE request.kind = "create" -> Len(rows) = Len(request.batch) /\ ToSet(rows) \subseteq Base
    [] request.kind \in {"index", "related"} -> rows = Primary
    [] OTHER -> ToSet(rows) = Base /\ Len(rows) = Cardinality(Base)

Init == shown = [given |-> FALSE, primary |-> <<>>, included |-> {}]

\* A page beyond what a u32 counts is not promised anything, nor is a record
\* that is named by its `id` where a foreign key is called that.
Promised ==
  /\ PageFits
  /\ request.kind \in {"index", "create"} \/ "id" \notin ForeignKeys(Schema)

Deliver ==
  /\ ~ shown.given
  /\ shown'.given
  /\ Promised =>
       LET rows == [i \in DOMAIN shown'.primary |->
                      CHOOSE row \in db[Target.name] :
                        row[Target.key.name] = shown'.primary[i]]
       IN /\ Answers(rows)
          /\ shown'.included =
               IF request.kind = "linkage" THEN {} ELSE IncludedFor(ToSet(rows))

Spec == Init /\ [][Deliver]_shown
=============================================================================
