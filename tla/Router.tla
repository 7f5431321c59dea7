------------------------------- MODULE Router -------------------------------
(***************************************************************************)
(* A resolved router: which route answers a request line, the middleware   *)
(* it runs, and the links a record gets from where its type is mounted.    *)
(*                                                                         *)
(* A template is a sequence of segments [kind, name] with kind "static",   *)
(* "param" or "glob" (an asterisk).  A request is [method, path, admitted]: *)
(* its raw path segments and the guards that admit it.  A route is         *)
(* [method, path, middleware, handler]: the middleware a sequence of       *)
(* [tier, guard], the handler [kind, operation, relationship] with kind    *)
(* Raw for the byte tier and a schema's name for the resource tier.        *)
(***************************************************************************)
EXTENDS Naturals, Sequences, FiniteSets, SequencesExt, FiniteSetsExt

CONSTANTS Encoding,    \* the raw form of the values a path segment has to encode
          Undecodable  \* raw segments that are the encoding of no text
ASSUME EncodingAssumption ==
    /\ \A v, w \in DOMAIN Encoding : Encoding[v] = Encoding[w] => v = w
    /\ \A v \in DOMAIN Encoding : Encoding[v] \notin Undecodable

Static(name) == [kind |-> "static", name |-> name]
Param(name) == [kind |-> "param", name |-> name]
Glob(name) == [kind |-> "glob", name |-> name]
Raw == "raw"
Always == "always"

Encode(value) == IF value \in DOMAIN Encoding THEN Encoding[value] ELSE value
Decode(raw) ==
    IF \E v \in DOMAIN Encoding : Encoding[v] = raw
    THEN CHOOSE v \in DOMAIN Encoding : Encoding[v] = raw ELSE raw

Captures(template) == {i \in DOMAIN template : template[i].kind = "param"}
CaptureNames(template) == {template[i].name : i \in Captures(template)}

-----------------------------------------------------------------------------
(* Dispatch *)

EndsInGlob(template) == template # <<>> /\ Last(template).kind = "glob"

(* Route::match_path: a trailing glob takes one or more segments, any      *)
(* other segment exactly one; a captured value has to decode.              *)
MatchesPath(route, request) ==
    /\ route.method = request.method
    /\ IF EndsInGlob(route.path)
       THEN Len(request.path) >= Len(route.path) /\ Last(route.path).name = ""
       ELSE Len(request.path) = Len(route.path)
    /\ \A i \in DOMAIN route.path :
         CASE route.path[i].kind = "glob"   -> TRUE
           [] route.path[i].kind = "param"  -> request.path[i] \notin Undecodable
           [] route.path[i].kind = "static" -> request.path[i] = route.path[i].name

(* What a match captures; a name captured twice keeps its last value.      *)
Parameters(route, request) ==
    [n \in CaptureNames(route.path) |->
        Decode(request.path[Max({i \in Captures(route.path) : route.path[i].name = n})])]

Matches(route, request) ==
    /\ MatchesPath(route, request)
    /\ \A i \in DOMAIN route.middleware : route.middleware[i].guard \in request.admitted \cup {Always}

(* Router::handle takes the first route that matches; 0 is a bare 404. *)
Dispatch(routes, request) ==
    LET hits == {i \in DOMAIN routes : Matches(routes[i], request)}
    IN IF hits = {} THEN 0 ELSE Min(hits)

(* serve, serve_resource: the leading primary middleware, then the handler *)
(* if it is a raw one, else the rest, which has to be the resource tier's. *)
Leading(route) == SelectInSeq(route.middleware, LAMBDA m : m.tier # "primary")
Served(route) ==
    LET primaries == IF Leading(route) = 0 THEN Len(route.middleware) ELSE Leading(route) - 1
        rest == SubSeq(route.middleware, primaries + 1, Len(route.middleware))
        misordered == SelectInSeq(rest, LAMBDA m : m.tier = "primary")
    IN IF route.handler.kind = Raw
       THEN [ran |-> SubSeq(route.middleware, 1, primaries), outcome |-> "handler"]
       ELSE IF misordered = 0 THEN [ran |-> route.middleware, outcome |-> "handler"]
       ELSE [ran |-> SubSeq(route.middleware, 1, primaries + misordered - 1),
             outcome |-> "MisorderedMiddleware"]

-----------------------------------------------------------------------------
(* Links.  The mount table maps a kind to [base, templates]; templates     *)
(* maps the mounted <<relationship, slot>> pairs to their path templates.  *)

(* parameters_for_route: the id is the record's, the others are echoed     *)
(* from the request that is being served.                                  *)
ParametersForRoute(id, parameters, required) ==
    [n \in {n \in required : n = "id" \/ n \in DOMAIN parameters} |->
        IF n = "id" THEN id ELSE parameters[n]]

(* BaseUri::render, up to the origin it prepends. *)
Render(template, resolved) ==
    IF \/ CaptureNames(template) \ DOMAIN resolved # {}
       \/ \E i \in DOMAIN template : template[i].kind = "glob"
    THEN [fault |-> "LinkGenerationFailed", path |-> <<>>]
    ELSE [fault |-> "ok",
          path  |-> [i \in DOMAIN template |->
                        IF template[i].kind = "param" THEN Encode(resolved[template[i].name])
                                                      ELSE template[i].name]]

Link(template, id, parameters) ==
    Render(template, ParametersForRoute(id, parameters, CaptureNames(template)))

(* CanonicalUriGenerator: the links a record of `kind` gets, by the slot   *)
(* they stand for; <<"self">> is the resource's own.                       *)
UriForResource(table, kind, id, parameters) ==
    Link(Append(table[kind].base, Param("id")), id, parameters)
UriForSlot(table, kind, slot, id, parameters) ==
    Link(table[kind].templates[slot], id, parameters)
=============================================================================
