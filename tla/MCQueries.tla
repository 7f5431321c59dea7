------------------------------ MODULE MCQueries ------------------------------
(* TLC instances of Queries: small applications, each with its databases,   *)
(* requests, query strings and batches.                                     *)
EXTENDS Queries

World(declared, databases, requests, queries, batches) ==
  [schemas |-> declared, databases |-> databases, requests |-> requests,
   queries |-> queries, batches |-> batches]

Request(kind, resource, id, relationship) ==
  [kind |-> kind, resource |-> resource, id |-> id, relationship |-> relationship]
Index(resource) == Request("index", resource, Null, Null)
Show(resource, id) == Request("show", resource, id, Null)
RelatedTo(resource, id, relationship) == Request("related", resource, id, relationship)
LinkageOf(resource, id, relationship) == Request("linkage", resource, id, relationship)
Create(resource) == Request("create", resource, Null, Null)

Draft(id, columns, relationships) ==
  [id |-> id, columns |-> columns, relationships |-> relationships]

Include(paths) == Entry("include", "", paths)
Only(model, fields) == Entry("fields", model, fields)
Filter(attribute, op, value) ==
  Entry("filter", attribute, <<[op |-> op, value |-> value]>>)
Sort(attribute, descending) ==
  Entry("sort", "", <<[attribute |-> attribute, descending |-> descending]>>)
PageOf(property, value) == Entry("page", property, <<value>>)
Search(terms) == Entry("search", "", terms)

\* The term 6 stands for a lone quote.
MCMalformed == {6}

(***************************************************************************)
(* A blog: belongs_to and has_many on primary keys, in a cycle of types.   *)
(***************************************************************************)
People ==
  HasMany(Attribute(Table("people"), "name", "text"),
          "articles", Related("articles", "id", "author_id"))
Articles ==
  TextIndex(
    HasMany(
      BelongsTo(ForeignKey(Attribute(Attribute(Table("articles"),
                                               "title", "text"), "rank", "integer"),
                           "author_id", "integer"),
                "author", Related("people", "author_id", "id")),
      "comments", Related("comments", "id", "article_id")))
Comments ==
  BelongsTo(
    BelongsTo(ForeignKey(ForeignKey(Attribute(Table("comments"), "body", "text"),
                                    "article_id", "integer"),
                         "writer_id", "integer"),
              "article", Related("articles", "article_id", "id")),
    "writer", Related("people", "writer_id", "id"))

Person(id) == [id |-> id, name |-> 4 + id]
Article(id, author) == [id |-> id, title |-> 3, rank |-> 3 - id, author_id |-> author]
Comment(id, article, writer) ==
  [id |-> id, body |-> id, article_id |-> article, writer_id |-> writer]

BlogDatabases ==
  {[people |-> {Person(1), Person(2)},
    articles |-> {Article(1, a1), Article(2, a2)},
    comments |-> {Comment(1, c1, w1), Comment(2, c2, 1)}] :
      a1 \in {Null, 1}, a2 \in {1, 2}, c1 \in {Null, 1, 2}, c2 \in {1, 2}, w1 \in {1, 2}}
    \cup {[people |-> {}, articles |-> {}, comments |-> {}]}

BlogRequests ==
  <<Index("articles"), Show("articles", 1), Index("people"),
    RelatedTo("articles", 1, "comments"), RelatedTo("comments", 1, "article"),
    LinkageOf("articles", 1, "comments"), LinkageOf("articles", 1, "author"),
    Create("articles")>>

BlogQueries ==
  << <<>>,
     <<Include(<< <<"author">>, <<"comments">> >>)>>,
     <<Include(<< <<"comments", "writer">>, <<"author">> >>)>>,
     <<Include(<< <<"author", "articles">> >>)>>,
     <<Include(<< <<"comments", "article", "author">> >>)>>,
     <<Include(<< <<"article", "comments">>, <<"writer", "articles">> >>)>>,
     <<Include(<< <<"articles", "comments", "writer">> >>)>>,
     <<Include(<< <<"author">>, <<"comments">> >>), Only("articles", <<"author">>),
       Only("comments", <<"body">>)>>,
     <<Include(<< <<"author">>, <<"comments">> >>), Only("articles", <<"title">>)>>,
     <<Include(<< <<"comments">> >>), Only("comments", <<>>)>>,
     <<Include(<< <<"author">>, <<"nobody">> >>)>>,
     <<Only("nobody", <<>>)>>, <<Only("articles", <<"nothing">>)>>,
     <<Sort("rank", FALSE), PageOf("size", 1), PageOf("number", 2)>>,
     <<Sort("rank", TRUE), PageOf("number", 5), PageOf("size", 8)>>,
     <<PageOf("size", 0)>>, <<Sort("nothing", TRUE)>>,
     <<Filter("rank", "gte", 2), Include(<< <<"comments">> >>)>>,
     <<Filter("rank", "lt", 2), Filter("title", "like", 3)>>,
     <<Filter("rank", "like", 2)>>, <<Filter("rank", "nin", 2)>>,
     <<Filter("rank", "eq", 0)>>, <<Filter("rank", "between", 1)>>,
     <<Search(<<3, 0>>)>>, <<Search(<<5>>), Search(<<>>)>>, <<Search(<<3, 6>>)>>,
     <<Search(<<6>>), Filter("rank", "gt", 1)>>, <<Search(<<6>>), Filter("rank", "like", 2)>>,
     <<Entry("sort", "", <<>>)>>, <<Entry("other", "", <<>>)>> >>

BlogBatches ==
  << <<Draft(Null, "title" :> 3 @@ "rank" :> 1, "author" :> <<2>>),
       Draft(7, "title" :> 6 @@ "rank" :> 2, "author" :> <<1>>)>>,
     <<Draft(Null, "title" :> 3 @@ "rank" :> 1, "author" :> <<2>>),
       Draft(Null, "title" :> 3 @@ "rank" :> 2, "author" :> <<>>)>>,
     <<Draft(Null, "title" :> 3, "author" :> <<2>>),
       Draft(Null, "rank" :> 1, "author" :> <<1>>)>>,
     <<Draft(8, "title" :> 3 @@ "rank" :> 1, "author" :> <<2>>),
       Draft(7, "title" :> 6 @@ "rank" :> 2, "author" :> <<1>>)>>,
     <<Draft(Null, "title" :> 3, "author" :> <<9>>)>>,
     <<Draft(1, "title" :> 3, <<>>)>>, <<Draft(Null, <<>>, <<>>)>> >>

Blog == World(<<People, Articles, Comments>>, BlogDatabases, BlogRequests,
              BlogQueries, BlogBatches)

(***************************************************************************)
(* A catalogue: a belongs_to and a has_many on a column that is not the    *)
(* primary key, a has_one, and a type that refers to itself.               *)
(***************************************************************************)
Products ==
  HasOne(
    HasMany(Attribute(Attribute(Table("products"), "code", "integer"), "name", "text"),
            "variants", Related("variants", "code", "product_code")),
    "label", Related("labels", "id", "product_id"))
Variants ==
  HasMany(
    BelongsTo(
      BelongsTo(ForeignKey(ForeignKey(Attribute(Table("variants"), "size", "integer"),
                                      "product_code", "integer"),
                           "base_id", "integer"),
                "product", Related("products", "product_code", "code")),
      "base", Related("variants", "base_id", "id")),
    "copies", Related("variants", "id", "base_id"))
Labels ==
  BelongsTo(ForeignKey(Attribute(Table("labels"), "text", "text"),
                       "product_id", "integer"),
            "product", Related("products", "product_id", "id"))

Product(id) == [id |-> id, code |-> 10 - id, name |-> 3]
Variant(id, product, base) ==
  [id |-> id, size |-> id, product_code |-> product, base_id |-> base]

CatalogueDatabases ==
  {[products |-> {Product(1), Product(2)},
    variants |-> {Variant(1, p1, b1), Variant(2, p2, b2), Variant(3, 8, 1)},
    labels |-> {[id |-> 1, text |-> 3, product_id |-> l]}] :
      p1 \in {Null, 9, 8}, p2 \in {9, 8}, b1 \in {Null, 1, 2}, b2 \in {Null, 1},
      l \in {Null, 1, 2}}

CatalogueRequests ==
  <<Index("variants"), Index("products"), Show("variants", 1),
    RelatedTo("variants", 1, "product"), RelatedTo("products", 1, "label"),
    RelatedTo("variants", 1, "copies"), LinkageOf("variants", 1, "product"),
    LinkageOf("products", 1, "label"), LinkageOf("products", 2, "variants")>>

CatalogueQueries ==
  << <<>>,
     <<Include(<< <<"product", "variants">> >>)>>,
     <<Include(<< <<"variants", "product", "label">>, <<"label">> >>)>>,
     <<Include(<< <<"base", "base">>, <<"copies", "product">> >>)>>,
     <<Include(<< <<"product">> >>), Only("products", <<"name">>),
       Only("variants", <<"product">>)>>,
     <<Include(<< <<"variants">>, <<"label">> >>), Only("variants", <<"size">>),
       Only("labels", <<>>), Only("products", <<"label">>)>>,
     <<Include(<< <<"product", "label">> >>), Only("variants", <<"size">>)>> >>

CatalogueBatches ==
  << <<Draft(Null, "size" :> 1, "product" :> <<1>> @@ "base" :> <<2>>),
       Draft(Null, "size" :> 2, "product" :> <<2>> @@ "base" :> <<>>)>>,
     <<Draft(7, "size" :> 1, "product" :> <<2>>), Draft(4, "size" :> 2, "product" :> <<1>>)>>,
     <<Draft(Null, "size" :> 1, "product" :> <<4>>)>> >>

Catalogue == World(<<Products, Variants, Labels>>, CatalogueDatabases,
                   CatalogueRequests, CatalogueQueries, << <<>> >>)

\* Variants are added, of products with and without a code to be joined by.
StockDatabases ==
  {[products |-> {Product(1), [Product(2) EXCEPT !.code = c]},
    variants |-> {Variant(1, 9, b), Variant(2, Null, 1)},
    labels |-> {[id |-> 1, text |-> 3, product_id |-> 2]}] : c \in {Null, 8}, b \in {Null, 2}}

Stock == World(<<Products, Variants, Labels>>, StockDatabases, <<Create("variants")>>,
               CatalogueQueries, CatalogueBatches)

(***************************************************************************)
(* Primary keys with a name of their own, and a foreign key called `id`.   *)
(***************************************************************************)
Countries ==
  TextIndex(HasMany(PrimaryKey(Attribute(Table("countries"), "name", "text"),
                               "code", "integer"),
                    "cities", Related("cities", "code", "country")))
Cities ==
  BelongsTo(ForeignKey(Attribute(Table("cities"), "name", "text"), "country", "integer"),
            "land", Related("countries", "country", "code"))

Mayors ==
  BelongsTo(ForeignKey(PrimaryKey(Attribute(Table("mayors"), "name", "text"),
                                  "number", "integer"), "id", "integer"),
            "city", Related("cities", "id", "id"))

AtlasDatabases ==
  {[countries |-> {[code |-> 1, name |-> 3], [code |-> 2, name |-> 4]},
    cities |-> {[id |-> 1, name |-> 3, country |-> c], [id |-> 2, name |-> 4, country |-> 2]},
    mayors |-> {[number |-> 1, name |-> 3, id |-> 2], [number |-> 2, name |-> 4, id |-> 1]}] :
      c \in {Null, 1, 2}}

AtlasQueries == << <<>>, <<Include(<< <<"cities", "land">> >>)>>, <<Include(<< <<"land">> >>)>>,
                  <<Search(<<3>>)>> >>

Atlas == World(<<Countries, Cities, Mayors>>, AtlasDatabases,
               <<Index("countries"), Index("cities"), LinkageOf("mayors", 1, "city"), Show("cities", 1), Show("countries", 1),
                 RelatedTo("countries", 1, "cities"),
                 RelatedTo("cities", 1, "land"), LinkageOf("cities", 1, "land")>>,
               AtlasQueries, << <<>> >>)

(***************************************************************************)
(* A relationship that has the name of its foreign key, which another      *)
(* model is joined by, one that has the name of another column than its    *)
(* own, and one of a type to itself; and a column that has to be unique.   *)
(***************************************************************************)
Parcels ==
  BelongsTo(
    BelongsTo(ForeignKey(ForeignKey(ForeignKey(Attribute(Table("parcels"), "weight", "integer"),
                                               "depot", "integer"), "stop", "integer"),
                         "next", "integer"),
              "depot", Related("depots", "depot", "code")),
    "stop", Related("depots", "next", "id"))
Depots ==
  HasMany(Attribute(Table("depots"), "code", "integer"),
          "parcels", Related("parcels", "code", "depot"))
Trucks ==
  BelongsTo(ForeignKey(Attribute(Table("trucks"), "plate", "integer"), "tows", "integer"),
            "tows", Related("trucks", "tows", "plate"))

Freight ==
  World(<<Parcels, Depots, Trucks>>,
        {[parcels |-> {[id |-> 1, weight |-> 2, depot |-> d, stop |-> Null, next |-> 2]},
          depots |-> {[id |-> 1, code |-> 5], [id |-> 2, code |-> 6]},
          trucks |-> {[id |-> 1, plate |-> 7, tows |-> 8], [id |-> 2, plate |-> 8, tows |-> Null]}] :
            d \in {Null, 5, 6}},
        <<Index("parcels"), RelatedTo("parcels", 1, "depot"), LinkageOf("parcels", 1, "depot"),
          RelatedTo("parcels", 1, "stop"), LinkageOf("parcels", 1, "stop"), Index("depots"), Create("depots"), Index("trucks"),
          RelatedTo("trucks", 1, "tows"), LinkageOf("trucks", 1, "tows")>>,
        << <<>>, <<Include(<< <<"depot">> >>)>>,
           <<Include(<< <<"parcels">> >>), Only("parcels", <<"weight">>)>>,
           <<Include(<< <<"stop">> >>), Only("parcels", <<"stop">>)>> >>,
        << <<Draft(Null, "code" :> 5, <<>>)>>, <<Draft(Null, "code" :> 7, <<>>)>>,
           <<Draft(3, "code" :> 8, <<>>), Draft(Null, "code" :> 8, <<>>)>> >>)

(***************************************************************************)
(* More articles than SQLite binds keys, and a batch of more values.       *)
(***************************************************************************)
Crowd ==
  World(<<People, Articles, Comments>>,
        {[people |-> {Person(1)}, comments |-> {},
          articles |-> {[Article(i, 1) EXCEPT !.rank = i] : i \in 1..9}]},
        <<Index("articles"), Index("people"), Create("articles")>>,
        << <<>>, <<Include(<< <<"articles">> >>)>>,
           <<Include(<< <<"comments">> >>), PageOf("size", 8)>>,
           <<Include(<< <<"author">> >>)>> >>,
        << [i \in 1..3 |-> Draft(20 + i, "title" :> 3 @@ "rank" :> 1, <<>>)],
           [i \in 1..2 |-> Draft(20 + i, "title" :> 3 @@ "rank" :> 1, "author" :> <<1>>)] >>)

(***************************************************************************)
(* Declarations with a fault each.                                         *)
(***************************************************************************)
Faulty(declared) ==
  World(declared, {<<>>}, <<Index("people")>>, << <<>> >>, << <<>> >>)

Misdeclared ==
  <<Faulty(<<People, People>>),
    Faulty(<<People>>),
    Faulty(<<Attribute(Table("people"), "id", "integer")>>),
    Faulty(<<PrimaryKey(Attribute(Table("people"), "name", "text"), "name", "text")>>),
    Faulty(<<ForeignKey(Attribute(Table("people"), "name", "text"), "name", "text")>>),
    Faulty(<<HasOne(Attribute(Table("people"), "name", "text"), "name",
                    Related("people", "id", "boss"))>>),
    Faulty(<<BelongsTo(Table("people"), "boss", Related("people", "boss_id", "id"))>>),
    Faulty(<<BelongsTo(ForeignKey(Table("people"), "boss_id", "text"), "boss",
                       Related("people", "boss_id", "id"))>>),
    Faulty(<<HasOne(Table("people"), "boss", Related("people", "id", "boss_id"))>>),
    Faulty(<<HasMany(Table("people"), "type", Related("people", "id", "boss_id"))>>)>>

MCWorlds == <<Blog, Catalogue, Stock, Atlas, Freight, Crowd>> \o Misdeclared
MCBlog == <<Blog>>
MCCatalogue == <<Catalogue>>
=============================================================================
