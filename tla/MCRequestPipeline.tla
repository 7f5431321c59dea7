------------------------- MODULE MCRequestPipeline -------------------------
(* Instances of RequestPipeline: one resource with a to-one and a to-many  *)
(* relationship, and requests that each vary one thing of a plain request. *)
EXTENDS RequestPipeline

MCSchema == [name |-> "article", key |-> "integer", attributes |-> {"title"},
             relationships |->
                 [author   |-> [kind |-> "belongs_to", related |-> "user", key |-> "text"],
                  comments |-> [kind |-> "has_many", related |-> "comment", key |-> "integer"]]]
MCIntegerIds == {"1", "2"}
MCRows == {"1"}

(* Headers *)
P(name) == [name |-> name, uris |-> {}, weight |-> "none"]
Q(weight) == [P("q") EXCEPT !.weight = weight]
Ext == [P("ext") EXCEPT !.uris = {"e"}]
Media(essence, parameters) == [essence |-> essence, parameters |-> parameters]
JsonApi == Media("json_api", <<>>)
NoHeader == [sent |-> FALSE, readable |-> TRUE, instances |-> <<>>]
Header(instances) == [sent |-> TRUE, readable |-> TRUE, instances |-> instances]
Opaque == [sent |-> TRUE, readable |-> FALSE, instances |-> <<>>]

ContentTypes ==
    {NoHeader, Opaque} \cup {Header(i) : i \in
        {<<>>, <<JsonApi, JsonApi>>, <<Media("other", <<>>)>>, <<Media("wildcard", <<>>)>>,
         <<Media("", <<>>), JsonApi>>, <<Media("json_api", <<P("profile")>>)>>,
         <<Media("json_api", <<Q("some")>>)>>, <<Media("json_api", <<Q("malformed")>>)>>,
         <<Media("json_api", <<Ext>>)>>, <<Media("json_api", <<P("charset")>>)>>}}

Accepts ==
    {Opaque} \cup {Header(i) : i \in
        {<<>>, <<JsonApi>>, <<Media("other", <<>>)>>, <<Media("other", <<>>), Media("wildcard", <<Q("some")>>)>>,
         <<Media("json_api", <<Q("zero")>>)>>, <<Media("json_api", <<Ext>>)>>,
         <<Media("json_api", <<Ext>>), JsonApi>>, <<Media("json_api", <<P("charset")>>), JsonApi>>,
         <<Media("json_api", <<P("charset")>>)>>, <<Media("json_api", <<Ext, Q("malformed")>>)>>}}

(* Documents *)
Resource(id) == [type |-> "article", id |-> id, attributes |-> {"title"}, convertible |-> TRUE,
                 relationships |-> <<>>, bare |-> FALSE]
Identifier(type, id) == [type |-> type, id |-> id, attributes |-> {}, convertible |-> TRUE,
                         relationships |-> <<>>, bare |-> TRUE]
Link(form, ids) == [form |-> form, ids |-> ids]
Comment == [type |-> "comment", id |-> "2"]
User == [type |-> "user", id |-> "x"]

Document(content, data) == [content |-> content, data |-> data]
Payload(document) == [form |-> "document", document |-> document]
Plain(id) == Payload(Document("record", <<Resource(id)>>))
With(id, relationships) ==
    Payload(Document("record", <<[Resource(id) EXCEPT !.relationships = relationships]>>))

Records(id) ==
    {Plain(id), Plain("2"), Plain("x"), Plain(NoId),
     [Plain(id) EXCEPT !.form = "malformed"], [Plain(id) EXCEPT !.form = "foreign"],
     [Plain(id) EXCEPT !.form = "null"],
     Payload(Document("errors", <<>>)), Payload(Document("empty", <<>>)),
     Payload(Document("collection", <<Resource(id)>>)),
     Payload(Document("record", <<[Resource(id) EXCEPT !.type = "user"]>>)),
     Payload(Document("record", <<[Resource(id) EXCEPT !.attributes = {"colour"}]>>)),
     Payload(Document("record", <<[Resource(id) EXCEPT !.convertible = FALSE]>>)),
     With(id, [author |-> Link("one", <<User>>), comments |-> Link("many", <<Comment, Comment>>)]),
     With(id, [comments |-> Link("absent", <<>>)]), With(id, [author |-> Link("many", <<User>>)]),
     With(id, [author |-> Link("one", <<[User EXCEPT !.id = NoId]>>)]),
     With(id, [editor |-> Link("null", <<>>)])}

Linkages ==
    {Payload(Document("collection", <<Identifier("comment", "2")>>)),
     Payload(Document("record", <<Identifier("comment", "2")>>)),
     Payload(Document("record", <<Identifier("user", "x")>>)),
     Payload(Document("collection", <<Identifier("comment", "x")>>)),
     Payload(Document("collection", <<Identifier("user", "x")>>)),
     Payload(Document("collection", <<[Identifier("comment", "2") EXCEPT !.bare = FALSE]>>)),
     Payload(Document("empty", <<>>)), Payload(Document("errors", <<>>)),
     [Plain("1") EXCEPT !.form = "null"]}

(* Requests *)
Bodied == {"create", "update", "link", "unlink", "relink"}
Request(endpoint) ==
    [endpoint |-> endpoint, relationship |-> "comments", wrap |-> "none",
     contentType |-> IF endpoint \in Bodied THEN Header(<<JsonApi>>) ELSE NoHeader,
     accept |-> NoHeader, query |-> "plain", relatedQuery |-> "plain", routeId |-> "1",
     bytes |-> IF endpoint \in Bodied THEN <<"b1", "b2">> ELSE <<>>, broken |-> "never",
     payload |-> CASE endpoint \in {"link", "unlink", "relink"} ->
                          Payload(Document("collection", <<Identifier("comment", "2")>>))
                   [] endpoint = "create" -> Plain(NoId)
                   [] OTHER -> Plain("1")]

PlainRequests == {Request(e) : e \in Endpoints}

WrappedRequests ==
    {[Request(e) EXCEPT !.wrap = w] : e \in {"index", "create"}, w \in {"drains", "probes", "own", "peeks"}}
    \cup {[Request("create") EXCEPT !.wrap = "probes", !.broken = "at_once"],
          [Request("related") EXCEPT !.wrap = "peeks"], [Request("update") EXCEPT !.wrap = "own"]}
NegotiatedRequests ==
    {[Request(e) EXCEPT !.contentType = c] : e \in {"update", "index"}, c \in ContentTypes}
    \cup {[Request("show") EXCEPT !.accept = a] : a \in Accepts}
RefusedRequests ==
    {[Request(e) EXCEPT !.query = "invalid"] : e \in {"index", "show", "create", "update", "delete"}}
    \cup {[Request("related") EXCEPT !.relatedQuery = "invalid"]}
    \cup {[Request(e) EXCEPT !.routeId = i] : e \in {"show", "delete", "related", "link"}, i \in {"2", "x"}}
    \cup {[Request("update") EXCEPT !.bytes = <<>>, !.contentType = NoHeader],
          [Request("link") EXCEPT !.bytes = <<>>], [Request("update") EXCEPT !.bytes = <<>>]}
    \cup {[Request("update") EXCEPT !.broken = b] : b \in {"at_once", "later"}}
BodiedRequests ==
    {[Request("create") EXCEPT !.payload = p] : p \in Records(NoId)}
    \cup {[Request("update") EXCEPT !.payload = p] : p \in Records("1")}
    \cup {[Request(e) EXCEPT !.payload = p, !.relationship = n] :
            e \in {"link", "relink"}, p \in Linkages, n \in {"author", "comments"}}

AnyRequest == PlainRequests \cup WrappedRequests \cup NegotiatedRequests \cup RefusedRequests
              \cup BodiedRequests
OtherRequest == {Request("index"), Request("delete"), [Request("create") EXCEPT !.wrap = "own"]}

CONSTANTS r1, r2
MCShapes == [r \in Requests |-> IF r = r1 THEN AnyRequest ELSE OtherRequest]
=============================================================================
