--------------------------- MODULE RouteBuilders ---------------------------
(***************************************************************************)
(* The route builders behind Router::try_new, and the router they leave.   *)
(* `stack` is the builders whose closure is running: PrimaryRouteBuilder   *)
(* ("primary"), ResourceRouteBuilder ("resource") and its record-scoped    *)
(* SubordinateRouteBuilder ("member").  A scope or middleware block spawns *)
(* a sibling of the builder it is opened on; leaving the block absorbs the *)
(* sibling.  Each builder call is an action on the innermost builder.      *)
(*                                                                         *)
(* An entry of a builder's list is a route or the fault recorded in its    *)
(* place: [fault, method, path, middleware, handler, mark].  `mark` is     *)
(* history, not state of the code: the guards of the open blocks, whether  *)
(* a read-only resource was open, and whether a scope was open in it.      *)
(***************************************************************************)
EXTENDS Router

CONSTANTS Schemas,     \* kind -> its relationships, a sequence of [name, kind]
          Methods,     \* the verbs custom routes are mounted with
          Leaves,      \* the fragments verbs are given, split
          Segments,    \* the fragments scopes are given, split
          Guards,      \* the middleware an embedder brings, by its guard
          Configs,     \* the relationship configurations: [readOnly, segment, keyword]
          Names,       \* the relationship names calls are given
          Resources,   \* the resource calls: [kind, segments, readOnly]
          MaxCalls,    \* bound on builder calls
          MaxDepth     \* bound on nested blocks

Segment == [kind : {"static", "param", "glob"}, name : STRING]

(* A schema's kind is never that of the byte tier, and the guard of a      *)
(* middleware never the boundary's, which admits every request.            *)
ASSUME CallsAssumption ==
    /\ Methods \subseteq STRING /\ Names \subseteq STRING
    /\ Guards \subseteq STRING \ {Always}
    /\ Leaves \subseteq Seq(Segment) /\ Segments \subseteq Seq(Segment)
    /\ DOMAIN Schemas \subseteq STRING \ {Raw}
    /\ \A kind \in DOMAIN Schemas : Schemas[kind] \in Seq([name : STRING, kind : STRING])
    /\ Configs \subseteq [readOnly : BOOLEAN, segment : STRING, keyword : STRING]
    /\ Resources \subseteq [kind : DOMAIN Schemas, segments : Seq(Segment), readOnly : BOOLEAN]
    /\ MaxCalls \in Nat /\ MaxDepth \in Nat \ {0}

VARIABLES stack, router, routes, table, calls
vars == <<stack, router, routes, table, calls>>

Ok == "ok"
Default == "default"
Boundary == [tier |-> "resource", guard |-> Always]

Root == [tier |-> "primary", opened |-> "root", guard |-> Always, path |-> <<>>, middleware |-> <<>>,
         schema |-> Raw, readOnly |-> FALSE, routes |-> <<>>, mounts |-> <<>>,
         claimed |-> {}, templates |-> <<>>]

Init ==
    /\ stack = <<Root>>
    /\ router = [state |-> "building", fault |-> Ok]
    /\ routes = <<>> /\ table = <<>>
    /\ calls = 0

Top == Last(stack)
Building == router.state = "building"
Becomes(builder) == stack' = [stack EXCEPT ![Len(stack)] = builder]

-----------------------------------------------------------------------------
(* RouteBuilder: mount, and spawning a sibling for a block.                *)

MountFault(path, middleware, handler) ==
    IF \E i \in DOMAIN path : path[i].kind = "glob" /\ path[i].name # "" THEN "NamedGlob"
    ELSE IF \E i \in 1..(Len(path) - 1) : path[i].kind = "glob" THEN "MisplacedGlob"
    ELSE IF \E i, j \in Captures(path) : i < j /\ path[i].name = path[j].name /\ path[i].name # ""
         THEN "DuplicateParameter"
    ELSE IF handler.kind = Raw /\ \E m \in ToSet(middleware) : m.tier = "resource"
         THEN "ResourceMiddlewareOnPrimaryRoute"
    ELSE Ok

(* The blocks open around the call; a resource opens a tier, not a block.  *)
Guarding(s) ==
    LET upTo[i \in 0..Len(s)] ==
            IF i = 0 THEN <<>>
            ELSE IF s[i].guard = Always THEN upTo[i - 1] ELSE Append(upTo[i - 1], s[i].guard)
    IN upTo[Len(s)]
OpenGuards == Guarding(stack)
InnerScope == \E i \in DOMAIN stack : stack[i].tier = "resource" /\ stack[i].opened = "scope"
Mark == [blocks   |-> OpenGuards,
         readOnly |-> \E i \in DOMAIN stack : stack[i].opened = "resource" /\ stack[i].readOnly,
         scoped   |-> InnerScope]

Handler(builder, operation, relationship) ==
    [kind |-> builder.schema, operation |-> operation, relationship |-> relationship]

Mounted(builder, method, segments, handler) ==
    LET path == builder.path \o segments
    IN [fault |-> MountFault(path, builder.middleware, handler), method |-> method, path |-> path,
        middleware |-> builder.middleware, handler |-> handler, mark |-> Mark]

Mount(builder, entries) == [builder EXCEPT !.routes = @ \o entries]

PushError(builder, fault) ==
    Mount(builder, <<[Mounted(builder, "GET", <<>>, Handler(builder, "none", "none"))
                        EXCEPT !.fault = fault]>>)

\* Mutant: a sibling starts from the block's middleware alone.
SpawnBare(builder, segments, middleware, how, guard) ==
    [builder EXCEPT !.path = @ \o segments, !.middleware = middleware, !.routes = <<>>, !.mounts = <<>>,
                    !.claimed = {}, !.templates = <<>>, !.opened = how, !.guard = guard]

\* Mutant: a sibling forgets that its resource is read-only.
SpawnWritable(builder, segments, middleware, how, guard) ==
    [builder EXCEPT !.path = @ \o segments, !.middleware = @ \o middleware, !.routes = <<>>,
                    !.mounts = <<>>, !.claimed = {}, !.templates = <<>>, !.readOnly = FALSE,
                    !.opened = how, !.guard = guard]

Spawn(builder, segments, middleware, how, guard) ==
    [builder EXCEPT !.path = @ \o segments, !.middleware = @ \o middleware,
                    !.routes = <<>>, !.mounts = <<>>, !.claimed = {}, !.templates = <<>>,
                    !.opened = how, !.guard = guard]

-----------------------------------------------------------------------------
(* Calls every builder takes.  The tier of a block's middleware is that of *)
(* its builder, so no builder ever orders the two tiers wrongly.           *)

Call == Building /\ calls < MaxCalls /\ calls' = calls + 1 /\ UNCHANGED <<router, routes, table>>
Open(builder) == Len(stack) < MaxDepth /\ stack' = Append(stack, builder)

Verb(method, segments) ==
    /\ Call
    /\ Becomes(Mount(Top, <<Mounted(Top, method, segments, Handler(Top, "custom", "none"))>>))

Scope(segments) ==
    /\ Call
    /\ Open(Spawn(Top, segments, <<>>, "scope", Always))

Middleware(guard) ==
    /\ Call
    /\ LET tier == IF Top.tier = "primary" THEN "primary" ELSE "resource"
       IN Open(Spawn(Top, <<>>, <<[tier |-> tier, guard |-> guard]>>, "middleware", guard))

MiddlewareAt(segments, guard) ==
    /\ Call
    /\ Top.tier = "primary"
    /\ Open(Spawn(Top, segments, <<[tier |-> "primary", guard |-> guard]>>, "middleware", guard))

-----------------------------------------------------------------------------
(* ResourceRouteBuilder *)

\* Mutant: the builder is not bound to its schema.
ResourceUnbound(resource) ==
    /\ Call
    /\ Top.tier = "primary"
    /\ Open([Root EXCEPT !.tier = "resource", !.opened = "resource",
                         !.readOnly = resource.readOnly, !.path = Top.path \o resource.segments,
                         !.middleware = Append(Top.middleware, Boundary)])

(* resource_with and read_only_resource_with: the JSON:API boundary is the *)
(* outermost middleware of the resource tier, after the inherited ones.    *)
Resource(resource) ==
    /\ Call
    /\ Top.tier = "primary"
    /\ Open([Root EXCEPT !.tier = "resource", !.opened = "resource", !.schema = resource.kind,
                         !.readOnly = resource.readOnly, !.path = Top.path \o resource.segments,
                         !.middleware = Append(Top.middleware, Boundary)])

Write(builder, readOnly, operation, relationship) ==
    Handler(builder, IF readOnly THEN "forbidden" ELSE operation, relationship)

DefaultEndpoints ==
    /\ Call
    /\ Top.tier = "resource"
    /\ LET AtId(method, operation) ==
               Mounted(Top, method, <<Param("id")>>, Write(Top, Top.readOnly, operation, "none"))
       IN Becomes(Mount(Top,
            <<Mounted(Top, "GET", <<>>, Handler(Top, "index", "none")),
              Mounted(Top, "GET", <<Param("id")>>, Handler(Top, "show", "none")),
              Mounted(Top, "POST", <<>>, Write(Top, Top.readOnly, "create", "none")),
              AtId("PUT", "update"), AtId("PATCH", "update"), AtId("DELETE", "delete")>>))

Relocated(name, default) == IF name = Default THEN Static(default) ELSE Static(name)

(* The templates of two builders, those of the first where both have one.  *)
Over(first, second) ==
    [slot \in DOMAIN first \cup DOMAIN second |->
        IF slot \in DOMAIN first THEN first[slot] ELSE second[slot]]

(* claim_slot, and the template its links are rendered from. *)
Claim(builder, slot, template) ==
    [builder EXCEPT !.claimed = @ \cup {slot}, !.templates = Over([s \in {slot} |-> template], @)]

\* Mutant: the template ignores where the configuration put the endpoint.
MountLinkageByName(builder, relationship, config) ==
    LET slot == <<relationship.name, "linkage">>
        segments == <<Param("id"), Relocated(config.keyword, "relationships"),
                      Relocated(config.segment, relationship.name)>>
        plain == <<Param("id"), Static("relationships"), Static(relationship.name)>>
    IN IF slot \in builder.claimed THEN PushError(builder, "DuplicateRelationshipSlot")
       ELSE Mount(Claim(builder, slot, builder.path \o plain),
                  <<Mounted(builder, "GET", segments, Handler(builder, "linkage", relationship.name))>>)

MountLinkage(builder, relationship, config) ==
    LET slot == <<relationship.name, "linkage">>
        segments == <<Param("id"), Relocated(config.keyword, "relationships"),
                      Relocated(config.segment, relationship.name)>>
        Writing(method, operation) ==
            Mounted(builder, method, segments, Write(builder, config.readOnly, operation, relationship.name))
    IN IF slot \in builder.claimed THEN PushError(builder, "DuplicateRelationshipSlot")
       ELSE Mount(Claim(builder, slot, builder.path \o segments),
                  <<Mounted(builder, "GET", segments, Handler(builder, "linkage", relationship.name)),
                    Writing("PATCH", "relink")>>
                  \o IF relationship.kind = "has_many"
                     THEN <<Writing("POST", "link"), Writing("DELETE", "unlink")>> ELSE <<>>)

MountRelated(builder, relationship, config) ==
    LET slot == <<relationship.name, "related">>
        segments == <<Param("id"), Relocated(config.segment, relationship.name)>>
    IN IF slot \in builder.claimed THEN PushError(builder, "DuplicateRelationshipSlot")
       ELSE Mount(Claim(builder, slot, builder.path \o segments),
                  <<Mounted(builder, "GET", segments, Handler(builder, "related", relationship.name))>>)

MountRelationship(builder, name, slots, config) ==
    LET declared == SelectInSeq(Schemas[builder.schema], LAMBDA r : r.name = name)
        relationship == Schemas[builder.schema][declared]
        linkage == IF "linkage" \in slots THEN MountLinkage(builder, relationship, config) ELSE builder
    IN IF declared = 0 THEN PushError(builder, "UnknownRelationship")
       ELSE IF "related" \in slots THEN MountRelated(linkage, relationship, config) ELSE linkage

Resolved(config) == [config EXCEPT !.readOnly = @ \/ Top.readOnly]

(* relationship, linkage and related, each with their _with form. *)
Relationship(name, slots, config) ==
    /\ Call
    /\ Top.tier = "resource"
    /\ Becomes(MountRelationship(Top, name, slots, Resolved(config)))

(* The plural forms over all of the schema's relationships, in its order. *)
MountAll(builder, slots, config) ==
    LET relationships == Schemas[builder.schema]
        mounted[i \in 0..Len(relationships)] ==
            IF i = 0 THEN builder
            ELSE MountRelationship(mounted[i - 1], relationships[i].name, slots, config)
    IN mounted[Len(relationships)]

AllRelationships(slots, config) ==
    /\ Call
    /\ Top.tier = "resource"
    /\ config.segment = Default
    /\ Becomes(MountAll(Top, slots, Resolved(config)))

Member ==
    /\ Call
    /\ Top.tier = "resource"
    /\ Open([Spawn(Top, <<Param("id")>>, <<>>, "member", Always) EXCEPT !.tier = "member"])

-----------------------------------------------------------------------------
(* Leaving a block. *)

\* Mutant: what a block mounted goes in front of what was there.
AbsorbFirst(parent, child) ==
    [parent EXCEPT !.routes = child.routes \o @, !.mounts = @ \o child.mounts]

(* MaterialisedRoutes::absorb *)
Absorb(parent, child) ==
    [parent EXCEPT !.routes = @ \o child.routes, !.mounts = @ \o child.mounts]

\* Mutant: the block's templates replace those of the builder around it.
AbsorbResourceOver(parent, child) ==
    [Absorb(parent, child) EXCEPT !.claimed = @ \cup child.claimed, !.templates = Over(child.templates, @)]

(* absorb_resource: the slots and templates of a middleware block go home; *)
(* a slot that has a template keeps it.                                    *)
AbsorbResource(parent, child) ==
    [Absorb(parent, child) EXCEPT !.claimed = @ \cup child.claimed, !.templates = Over(@, child.templates)]

(* build: the resource's canonical mount. *)
Built(resource) ==
    [resource EXCEPT !.mounts = Append(@, [kind |-> resource.schema, base |-> resource.path,
                                           templates |-> resource.templates])]

Close ==
    /\ Building
    /\ Len(stack) > 1
    /\ LET parent == stack[Len(stack) - 1]
           merged == CASE Top.opened = "resource" -> Absorb(parent, Built(Top))
                       [] Top.opened = "middleware" /\ Top.tier = "resource" -> AbsorbResource(parent, Top)
                       [] OTHER -> Absorb(parent, Top)
       IN stack' = Append(SubSeq(stack, 1, Len(stack) - 2), merged)
    /\ UNCHANGED <<router, routes, table, calls>>

-----------------------------------------------------------------------------
(* MaterialisedRoutes::resolve and Router::try_new. *)

Resolution(entries, mounts) ==
    LET faulty == {i \in DOMAIN entries : entries[i].fault # Ok}
    IN IF faulty # {} THEN entries[Min(faulty)].fault
       ELSE IF \E i, j \in DOMAIN mounts : i # j /\ mounts[i].kind = mounts[j].kind
            THEN "DuplicateResource"
       ELSE Ok

Resolve ==
    /\ Building
    /\ Len(stack) = 1
    /\ LET fault == Resolution(Top.routes, Top.mounts)
           MountOf(kind) == SelectLastInSeq(Top.mounts, LAMBDA m : m.kind = kind)
       IN /\ router' = [state |-> IF fault = Ok THEN "serving" ELSE "refused", fault |-> fault]
          /\ routes' = IF fault = Ok THEN Top.routes ELSE <<>>
          /\ table' = IF fault = Ok THEN [kind \in {m.kind : m \in ToSet(Top.mounts)} |->
                                             Top.mounts[MountOf(kind)]]
                                    ELSE <<>>
    /\ UNCHANGED <<stack, calls>>

Slots == {{"linkage", "related"}, {"linkage"}, {"related"}}

Next ==
    \/ \E method \in Methods, segments \in Leaves : Verb(method, segments)
    \/ \E segments \in Segments : Scope(segments)
    \/ \E guard \in Guards : Middleware(guard)
    \/ \E segments \in Segments, guard \in Guards : MiddlewareAt(segments, guard)
    \/ \E resource \in Resources : Resource(resource)
    \/ DefaultEndpoints
    \/ \E name \in Names, slots \in Slots, config \in Configs : Relationship(name, slots, config)
    \/ \E slots \in Slots, config \in Configs : AllRelationships(slots, config)
    \/ Member
    \/ Close
    \/ Resolve

Spec == Init /\ [][Next]_vars

-----------------------------------------------------------------------------
(* Properties *)

IsServing == router.state = "serving"

TypeOK ==
    /\ router.state \in {"building", "refused", "serving"}
    /\ Len(stack) \in 1..MaxDepth /\ stack[1].opened = "root"
    /\ \A i \in DOMAIN stack : stack[i].tier = "primary" <=> stack[i].schema = Raw
    /\ calls \in 0..MaxCalls
    /\ ~IsServing => routes = <<>> /\ table = <<>>

(* The nested calls come to a flat list in declaration order, and the      *)
(* verdict is that of the first fault in it: absorbing a block loses       *)
(* nothing and moves nothing (ordering is how routes are disambiguated).   *)
Declared == CASE Building -> FlattenSeq([i \in DOMAIN stack |-> stack[i].routes])
              [] IsServing -> routes
              [] OTHER -> stack[1].routes
MountedKinds ==
    LET mounts == FlattenSeq([i \in DOMAIN stack |-> stack[i].mounts])
    IN [i \in DOMAIN mounts |-> mounts[i].kind]
Table == INSTANCE RouteTable WITH declared <- Declared, mounted <- MountedKinds, router <- router
ImplementsRouteTable == Table!Spec

(* Every link of a relationship's slot that can be rendered lands, with    *)
(* the record's id and the request's other parameters, on the endpoint     *)
(* that slot was mounted at, or on a route declared before it.             *)
Values == {"1"} \cup DOMAIN Encoding

(* "1" stands for the values whose raw form is the value itself; the raw   *)
(* form of any other holds a percent sign.                                 *)
ASSUME PlainAssumption ==
    /\ "1" \notin Undecodable
    /\ \A v \in DOMAIN Encoding : Encoding[v] # "1"
Reached(path) == [method |-> "GET", path |-> path, admitted |-> Guards]
LandsOn(kind, slot, id, parameters) ==
    LET link == UriForSlot(table, kind, slot, id, parameters)
        request == Reached(link.path)
        hit == Dispatch(routes, request)
    IN link.fault = Ok =>
         /\ hit # 0
         /\ \E j \in hit..Len(routes) :
              /\ MatchesPath(routes[j], request)
              /\ routes[j].handler = [kind |-> kind, operation |-> slot[2], relationship |-> slot[1]]
              /\ \A n \in CaptureNames(routes[j].path) :
                    Parameters(routes[j], request)[n] = IF n = "id" THEN id ELSE parameters[n]
LinksLandOnTheirEndpoint ==
    IsServing =>
        \A i \in DOMAIN routes :
            \A parameters \in [CaptureNames(routes[i].path) -> Values] :
                \A kind \in DOMAIN table : \A slot \in DOMAIN table[kind].templates :
                    \A id \in Values : LandsOn(kind, slot, id, parameters)

(* An endpoint of a mounted slot is linked to, from wherever it was        *)
(* declared but in a nested scope, by the template of the first route that *)
(* serves it: absorb_resource brings the templates of a block home.        *)
EndpointsOf(kind, slot) ==
    {j \in DOMAIN routes : /\ routes[j].handler = [kind |-> kind, operation |-> slot[2], relationship |-> slot[1]]
                           /\ ~routes[j].mark.scoped}
EndpointsAreLinked ==
    IsServing =>
        \A kind \in DOMAIN table : \A r \in ToSet(Schemas[kind]) : \A operation \in {"linkage", "related"} :
            LET slot == <<r.name, operation>>
                endpoints == EndpointsOf(kind, slot)
            IN /\ slot \in DOMAIN table[kind].templates <=> endpoints # {}
               /\ endpoints # {} => table[kind].templates[slot] = routes[Min(endpoints)].path

(* Nothing of a kind mounted read-only reaches a writing handler, in       *)
(* whatever block or form it was mounted.                                  *)
Writes == {"create", "update", "delete", "link", "unlink", "relink"}
ReadOnlyKindsNeverWrite ==
    IsServing => \A i, j \in DOMAIN routes :
        routes[i].mark.readOnly /\ routes[j].handler.kind = routes[i].handler.kind =>
            routes[j].handler.operation \notin Writes

(* A request that reaches a handler has run the middleware of every block  *)
(* around the handler's declaration, outermost first, and on the resource  *)
(* tier the boundary in front of the tier's own.                           *)
MiddlewareWrapsItsBlock ==
    IsServing => \A j \in DOMAIN routes :
        LET ran == Served(routes[j]).ran
            ofTier == {i \in DOMAIN ran : ran[i].tier = "resource"}
        IN /\ Served(routes[j]).outcome = "handler"
           /\ Guarding(ran) = routes[j].mark.blocks
           /\ routes[j].handler.kind = Raw => ofTier = {}
           /\ routes[j].handler.kind # Raw =>
                ofTier # {} /\ {i \in DOMAIN ran : ran[i] = Boundary} = {Min(ofTier)}
=============================================================================
