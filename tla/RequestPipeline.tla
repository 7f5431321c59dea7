-------------------------- MODULE RequestPipeline --------------------------
(***************************************************************************)
(* Router::handle for concurrent requests over one bounded connection      *)
(* pool.  A request runs its primary middleware, crosses the JSON:API      *)
(* boundary (negotiation in, error documents out) and runs a handler of    *)
(* the resource controller, which opens the store on a connection that is  *)
(* acquired lazily, once, and given back when its context is dropped.      *)
(* One action per stretch of a handler between two touches of what         *)
(* requests share: the pool and the database.                              *)
(*                                                                         *)
(* `rows` is the set of ids of the endpoint's resource that exist; a store *)
(* operation is one transaction (Transaction and RelationshipStore model   *)
(* the inside), which commits or answers an error and leaves no trace.     *)
(***************************************************************************)
EXTENDS RequestContext, ContentNegotiation

Endpoints == {"index", "show", "create", "update", "delete", "linkage", "related",
              "link", "unlink", "relink", "unmatched"}

(* What a client may send: a request line that leads to an endpoint of the *)
(* resource or to none, headers, and a body.                               *)
IsShape(s) ==
    /\ s.endpoint \in Endpoints
    /\ IsHeader(s.contentType) /\ IsHeader(s.accept)
    /\ s.bytes \in Seq(ToSet(s.bytes)) /\ s.broken \in {"never", "at_once", "later"}
    /\ s.payload.document.data \in Seq(ToSet(s.payload.document.data))
    /\ s.payload.document.content = "record" => s.payload.document.data # <<>>
    /\ \A data \in ToSet(s.payload.document.data) : \A name \in DOMAIN data.relationships :
         LET ids == data.relationships[name].ids IN ids \in Seq(ToSet(ids))

CONSTANTS Requests,   \* the request slots
          Shapes,     \* the requests the client of each slot may send
          PoolSize,   \* the pool's max_size
          Rows        \* the ids that exist at first
ASSUME RequestsAssumption == IsFiniteSet(Requests)
ASSUME PoolAssumption == PoolSize \in Nat \ {0}
ASSUME ShapesAssumption ==
    /\ DOMAIN Shapes = Requests
    /\ \A r \in Requests : Shapes[r] # {} /\ \A s \in Shapes[r] : IsShape(s)

VARIABLES pc,         \* where each request's thread is
          shape,      \* what its client sent
          context,    \* its PrimaryContext
          lease,      \* its handles: [request, own]
          idle,       \* the pool's idle handles
          rows,       \* the committed rows
          commits,    \* how many writes each request committed
          result,     \* Ok, or the code of the error it ended with
          answer      \* what the embedder got
vars == <<pc, shape, context, lease, idle, rows, commits, result, answer>>

Unanswered == [kind |-> "none", status |-> 0, code |-> Ok, source |-> NoSource]
Escaped(code) == [kind |-> "escaped", status |-> 0, code |-> code, source |-> NoSource]

Writes == {"create", "update", "delete", "link", "unlink", "relink"}
Targeted == {"link", "unlink", "relink"}
LoadsParent == Targeted \cup {"linkage", "related"}

Stages == {"idle", "wrap", "wait_own", "wait_peek", "enter", "check", "wait_store",
           "load", "execute", "render", "settle", "escape", "answered"}

TypeOK ==
    /\ pc \in [Requests -> Stages]
    /\ lease \in [Requests -> [request : {"unforced", "held", "failed"}, own : BOOLEAN]]
    /\ idle \in 0..PoolSize
    /\ commits \in [Requests -> Nat]
    /\ DOMAIN shape = Requests /\ DOMAIN context = Requests
    /\ result \in [Requests -> {Ok} \cup RoutingErrors \cup DatabaseErrors \cup SerialisationErrors]
    /\ DOMAIN answer = Requests

Init ==
    /\ pc = [r \in Requests |-> "idle"]
    /\ shape = [r \in Requests |-> CHOOSE s \in Shapes[r] : TRUE]
    /\ context = [r \in Requests |-> FromRequest(<<>>, "never")]
    /\ lease = [r \in Requests |-> [request |-> "unforced", own |-> FALSE]]
    /\ idle = PoolSize
    /\ rows = Rows
    /\ commits = [r \in Requests |-> 0]
    /\ result = [r \in Requests |-> Ok]
    /\ answer = [r \in Requests |-> Unanswered]

-----------------------------------------------------------------------------
(* The checks each handler makes before it first calls store(), in order.  *)

QueryFault(query) == IF query = "invalid" THEN "QueryValidationFailure" ELSE Ok

LinkageChecks(s, parsed) ==
    LET linkage == LinkageOf(parsed.payload.document)
        descriptor == Schema.relationships[s.relationship]
    IN IF LinkageFault(parsed) # Ok THEN LinkageFault(parsed)
       ELSE IF RelationshipFault(linkage, descriptor) # Ok
            THEN RelationshipFault(linkage, descriptor)
       ELSE IF s.endpoint \in {"link", "unlink"} THEN ManyFault(linkage, descriptor)
       ELSE Ok

RecordChecks(s, parsed) ==
    LET record == RecordFault(parsed, IF s.endpoint = "create" THEN NoId ELSE s.routeId)
    IN IF record # Ok THEN record
       ELSE IF s.endpoint = "create" /\ ClientIdFault(parsed.payload.document.data[1]) # Ok
            THEN ClientIdFault(parsed.payload.document.data[1])
       ELSE QueryFault(s.query)

ChecksBeforeStore(s, parsed) ==
    CASE s.endpoint = "index"               -> QueryFault(s.query)
      [] s.endpoint = "show"                -> FirstFault(<<QueryFault(s.query), IdFault(s.routeId)>>)
      [] s.endpoint \in {"create", "update"} -> RecordChecks(s, parsed)
      [] s.endpoint \in {"delete", "linkage"} -> IdFault(s.routeId)
      [] s.endpoint = "related"             -> Ok
      [] s.endpoint \in Targeted            ->
             IF IdFault(s.routeId) # Ok THEN IdFault(s.routeId) ELSE LinkageChecks(s, parsed)

Sent(s) == [bytes |-> s.bytes, payload |-> s.payload]

FirstStage(s) == IF s.endpoint \in LoadsParent THEN "load" ELSE "execute"

\* Mutant: every call of connection() acquires a handle.
ForcedAnew(r, ready) == [stage |-> "wait_store", fault |-> Ok]

\* Mutant: a failure is not cached, the next call tries again.
ForcedRetrying(r, ready) ==
    IF lease[r].request = "held" THEN [stage |-> ready, fault |-> Ok]
                                 ELSE [stage |-> "wait_store", fault |-> Ok]

(* connection(): the LazyCell is forced at most once, and answers the      *)
(* handle or the failure it was first forced to ever after.                *)
Forced(r, ready) ==
    CASE lease[r].request = "unforced" -> [stage |-> "wait_store", fault |-> Ok]
      [] lease[r].request = "held"     -> [stage |-> ready, fault |-> Ok]
      [] lease[r].request = "failed"   -> [stage |-> "settle", fault |-> "DatabaseFailure"]

-----------------------------------------------------------------------------
(* A request arrives: Router::handle matches it to a route and builds its  *)
(* context; one that matches none is answered a bare 404.                  *)
Arrive(r) ==
    /\ pc[r] = "idle"
    /\ \E s \in Shapes[r] :
         /\ shape' = [shape EXCEPT ![r] = s]
         /\ context' = [context EXCEPT ![r] = FromRequest(s.bytes, s.broken)]
         /\ IF s.endpoint = "unmatched"
            THEN /\ pc' = [pc EXCEPT ![r] = "answered"]
                 /\ answer' = [answer EXCEPT ![r] = [Unanswered EXCEPT !.kind = "empty", !.status = 404]]
            ELSE /\ pc' = [pc EXCEPT ![r] = "wrap"]
                 /\ UNCHANGED answer
    /\ UNCHANGED <<lease, idle, rows, commits, result>>

(* The embedder's primary middleware on the way in (shape.wrap): it may    *)
(* take the body, probe it, force the request's connection and go on       *)
(* whatever that gave, or borrow a handle of its own from the manager.     *)
Wrap(r) ==
    /\ pc[r] = "wrap"
    /\ LET wrap == shape[r].wrap
           probe == ContainsBody(context[r])
           failed == wrap = "probes" /\ probe.fault # Ok
       IN /\ context' = [context EXCEPT ![r] =
                            CASE wrap = "drains" -> RequireBody(context[r]).context
                              [] wrap = "probes" -> probe.context
                              [] OTHER           -> context[r]]
          /\ pc' = [pc EXCEPT ![r] =
                       CASE wrap = "own"   -> "wait_own"
                         [] wrap = "peeks" -> "wait_peek"
                         [] failed         -> "escape"
                         [] OTHER          -> "enter"]
          /\ result' = [result EXCEPT ![r] = IF failed THEN probe.fault ELSE Ok]
    /\ UNCHANGED <<shape, lease, idle, rows, commits, answer>>

(* A waiting request is handed an idle handle. *)
Obtain(r) ==
    /\ pc[r] \in {"wait_own", "wait_peek", "wait_store"}
    /\ idle > 0
    /\ idle' = idle - 1
    /\ lease' = [lease EXCEPT ![r] = IF pc[r] = "wait_own" THEN [@ EXCEPT !.own = TRUE]
                                                           ELSE [@ EXCEPT !.request = "held"]]
    /\ pc' = [pc EXCEPT ![r] = IF @ = "wait_store" THEN FirstStage(shape[r]) ELSE "enter"]
    /\ UNCHANGED <<shape, context, rows, commits, result, answer>>

\* Mutant: the pool has no timeout.
ExpireNever(r) == FALSE

(* r2d2 gives up after its connection timeout.  A middleware without its   *)
(* handle fails to the embedder; the request's own failure is cached.      *)
Expire(r) ==
    /\ pc[r] \in {"wait_own", "wait_peek", "wait_store"}
    /\ idle = 0
    /\ lease' = [lease EXCEPT ![r] = IF pc[r] = "wait_own" THEN @
                                                           ELSE [@ EXCEPT !.request = "failed"]]
    /\ pc' = [pc EXCEPT ![r] = CASE @ = "wait_own"   -> "escape"
                                 [] @ = "wait_peek"  -> "enter"
                                 [] @ = "wait_store" -> "settle"]
    /\ result' = [result EXCEPT ![r] = IF pc[r] = "wait_peek" THEN Ok ELSE "DatabaseFailure"]
    /\ UNCHANGED <<shape, context, idle, rows, commits, answer>>

(* The JSON:API boundary on the way in: it probes the body, negotiates,    *)
(* and runs the handler on what the probe left.                            *)
Enter(r) ==
    /\ pc[r] = "enter"
    /\ \E probe \in {ContainsBody(context[r])} :
         \E negotiated \in {Negotiate(shape[r].contentType, shape[r].accept, probe.found)} :
           LET fault == IF probe.fault # Ok THEN probe.fault ELSE negotiated
           IN /\ context' = [context EXCEPT ![r] = probe.context]
              /\ result' = [result EXCEPT ![r] = fault]
              /\ pc' = [pc EXCEPT ![r] = IF fault = Ok THEN "check" ELSE "settle"]
    /\ UNCHANGED <<shape, lease, idle, rows, commits, answer>>

(* The handler up to the first use of the store. *)
Check(r) ==
    /\ pc[r] = "check"
    /\ \E parsed \in {ParseBody(context[r], Sent(shape[r]))} :
         \E fault \in {ChecksBeforeStore(shape[r], parsed)} :
           LET forced == Forced(r, FirstStage(shape[r]))
           IN /\ result' = [result EXCEPT ![r] = IF fault # Ok THEN fault ELSE forced.fault]
              /\ pc' = [pc EXCEPT ![r] = IF fault # Ok THEN "settle" ELSE forced.stage]
    /\ UNCHANGED <<shape, context, lease, idle, rows, commits, answer>>

(* A relationship handler fetches its parent in a transaction of its own;  *)
(* related() reads the route's id and the related query only now.          *)
Load(r) ==
    /\ pc[r] = "load"
    /\ \E failure \in {Ok, "DatabaseFailure"} :
         LET s == shape[r]
             fault == IF s.endpoint = "related" /\ IdFault(s.routeId) # Ok THEN IdFault(s.routeId)
                      ELSE IF failure # Ok THEN failure
                      ELSE IF s.routeId \notin rows THEN "RecordNotFound"
                      ELSE IF s.endpoint = "related" THEN QueryFault(s.relatedQuery)
                      ELSE Ok
         IN /\ result' = [result EXCEPT ![r] = fault]
            /\ pc' = [pc EXCEPT ![r] = IF fault = Ok THEN "execute" ELSE "settle"]
    /\ UNCHANGED <<shape, context, lease, idle, rows, commits, answer>>

(* What the handler's store operation may end with. *)
SubmittedId(s) == s.payload.document.data[1].id

StoreFaults(s) ==
    {"DatabaseFailure"} \cup
    CASE s.endpoint = "create"  -> {"ConstraintViolation", "RelatedRecordNotFound"}
      [] s.endpoint = "update"  -> {"ConstraintViolation", "RelatedRecordNotFound", "RecordNotFound"}
      [] s.endpoint \in Targeted -> {"ConstraintViolation", "RelatedRecordNotFound", "RecordNotFound",
                                     "MismatchedRelationshipKind"}
      [] s.endpoint \in {"show", "delete"} -> {"RecordNotFound"}
      [] OTHER                  -> {}

Succeeds(s) ==
    CASE s.endpoint = "create" -> SubmittedId(s) \notin rows
      [] s.endpoint \in {"show", "update", "delete"} -> s.routeId \in rows
      [] OTHER                 -> TRUE

RowsAfter(s) ==
    CASE s.endpoint = "create" /\ SubmittedId(s) # NoId -> rows \cup {SubmittedId(s)}
      [] s.endpoint = "delete" -> rows \ {s.routeId}
      [] OTHER                 -> rows

(* The store operation: it commits, or fails and leaves nothing behind. *)
Commit(r) ==
    /\ pc[r] = "execute"
    /\ Succeeds(shape[r])
    /\ rows' = RowsAfter(shape[r])
    /\ commits' = [commits EXCEPT ![r] = IF shape[r].endpoint \in Writes THEN @ + 1 ELSE @]
    /\ result' = [result EXCEPT ![r] = Ok]
    /\ pc' = [pc EXCEPT ![r] = IF shape[r].endpoint = "delete" THEN "settle" ELSE "render"]
    /\ UNCHANGED <<shape, context, lease, idle, answer>>

RollBack(r) ==
    /\ pc[r] = "execute"
    /\ \E fault \in StoreFaults(shape[r]) : result' = [result EXCEPT ![r] = fault]
    /\ pc' = [pc EXCEPT ![r] = "settle"]
    /\ UNCHANGED <<shape, context, lease, idle, rows, commits, answer>>

\* Mutant: the included records are looked up after the commit.
RenderFaultsOfLoading == SerialisationErrors \cup {"RecordNotFound"}

(* to_document runs after the store has committed, and may fail. *)
RenderFaults == SerialisationErrors

\* Mutant: a document that cannot be built sends the handler back to its store call.
RenderRetrying(r) ==
    /\ pc[r] = "render"
    /\ pc' = [pc EXCEPT ![r] = IF commits[r] = 1 THEN "execute" ELSE "settle"]
    /\ UNCHANGED <<shape, context, lease, idle, rows, commits, result, answer>>

Render(r) ==
    /\ pc[r] = "render"
    /\ \E fault \in {Ok} \cup RenderFaults : result' = [result EXCEPT ![r] = fault]
    /\ pc' = [pc EXCEPT ![r] = "settle"]
    /\ UNCHANGED <<shape, context, lease, idle, rows, commits, answer>>

-----------------------------------------------------------------------------
(* The way out. *)

Success(endpoint) ==
    [kind   |-> IF endpoint = "delete" THEN "empty" ELSE "document",
     status |-> CASE endpoint = "create" -> 201
                  [] endpoint = "delete" -> 204
                  [] OTHER               -> 200,
     code   |-> Ok, source |-> NoSource]

(* The boundary renders every error of the tier into a document; a 5xx is  *)
(* redacted first (a release build).                                       *)
ErrorDocument(code) ==
    LET error == Funnelled(code)
        shown == IF error.status >= 500 THEN Redacted(error) ELSE error
    IN [kind |-> "document", status |-> shown.status, code |-> shown.code, source |-> shown.source]

(* Stamping the response may find that a header it minted is invalid. *)
StampFaults(endpoint) == IF endpoint = "create" THEN {Ok, "GeneratedInvalidHeader"} ELSE {Ok}

(* Dropping a context gives back the handle it acquired, and a middleware  *)
(* the one it borrowed.                                                    *)
\* Mutant: a handle that was never acquired is given back too.
HandlesOfAnyForce(r) == (IF lease[r].request = "unforced" THEN 0 ELSE 1) + (IF lease[r].own THEN 1 ELSE 0)

HandlesOf(r) == (IF lease[r].request = "held" THEN 1 ELSE 0) + (IF lease[r].own THEN 1 ELSE 0)

\* Mutant: the context keeps its handle when its handler failed.
DropContextOnSuccess(r) ==
    LET given == IF result[r] = Ok /\ lease[r].request = "held" THEN 1 ELSE 0
    IN /\ idle' = idle + given + (IF lease[r].own THEN 1 ELSE 0)
       /\ lease' = [lease EXCEPT ![r] = [request |-> IF given = 1 THEN "unforced" ELSE @.request,
                                         own |-> FALSE]]

DropContext(r) ==
    /\ idle' = idle + HandlesOf(r)
    /\ lease' = [lease EXCEPT ![r] = [request |-> IF @.request = "held" THEN "unforced" ELSE @.request,
                                      own |-> FALSE]]

(* The handler returns, its context and with it the handle is dropped, the *)
(* boundary renders and stamps, and the document becomes bytes: only the   *)
(* failure of that last step escapes.                                      *)
Settle(r) ==
    /\ pc[r] = "settle"
    /\ \E stamp \in StampFaults(shape[r].endpoint), written \in BOOLEAN :
         LET code == IF result[r] # Ok THEN result[r] ELSE stamp
             rendered == IF code = Ok THEN Success(shape[r].endpoint) ELSE ErrorDocument(code)
         IN /\ result' = [result EXCEPT ![r] = code]
            /\ answer' = [answer EXCEPT ![r] =
                             IF written \/ rendered.kind = "empty" THEN rendered
                                                                   ELSE Escaped("Unserialisable")]
    /\ DropContext(r)
    /\ pc' = [pc EXCEPT ![r] = "answered"]
    /\ UNCHANGED <<shape, context, rows, commits>>

(* An error of the primary tier is the embedder's. *)
Escape(r) ==
    /\ pc[r] = "escape"
    /\ answer' = [answer EXCEPT ![r] = Escaped(result[r])]
    /\ DropContext(r)
    /\ pc' = [pc EXCEPT ![r] = "answered"]
    /\ UNCHANGED <<shape, context, rows, commits, result>>

-----------------------------------------------------------------------------
(* A request's thread; it waits for nothing but the pool. *)
Advance(r) == \/ Wrap(r) \/ Obtain(r) \/ Expire(r) \/ Enter(r) \/ Check(r) \/ Load(r) \/ Commit(r)
              \/ RollBack(r) \/ Render(r) \/ Settle(r) \/ Escape(r)

Next == \E r \in Requests : Arrive(r) \/ Advance(r)

Spec == Init /\ [][Next]_vars
FairSpec == Spec /\ \A r \in Requests : WF_vars(Advance(r))

-----------------------------------------------------------------------------
(* Properties *)

Answered(r) == pc[r] = "answered"
Succeeded(r) == Answered(r) /\ answer[r].status \in 200..299

(* Once a write has committed, only a fault of the server itself (the      *)
(* document, a header or the bytes could not be built) may keep the client *)
(* from its success: a refusal (4xx) always means nothing was written.     *)
(* controller create/update/link: commit first, to_document after.         *)
RefusedRequestsWroteNothing ==
    \A r \in Requests : Answered(r) /\ commits[r] > 0 /\ ~Succeeded(r) =>
        answer[r].kind = "escaped" \/ answer[r].status = 500

(* A success answered to a write is the answer of exactly one committed    *)
(* transaction, and a read never writes.                                   *)
SuccessfulWritesCommittedOnce ==
    \A r \in Requests : Succeeded(r) =>
        commits[r] = IF shape[r].endpoint \in Writes THEN 1 ELSE 0

(* Negotiation's probe and the parser agree on the body: "no body" is only *)
(* said of a request that sent none (or null), "malformed" only of one     *)
(* that is, "consumed" only behind a middleware that took it.              *)
ParserSeesWhatWasSent ==
    \A r \in Requests : Answered(r) =>
        /\ result[r] \in {"MissingResourceBody", "MissingLinkageBody"} =>
               shape[r].bytes = <<>> \/ shape[r].payload.form = "null"
        /\ result[r] = "MalformedRequestBody" =>
               shape[r].payload.form = "malformed" \/ shape[r].broken = "later"
        /\ result[r] = "RequestBodyConsumed" => shape[r].wrap = "drains"

(* A request reaches the store only under headers JSON:API allows: at most *)
(* the one literal media type without weight or extension on its body, and *)
(* either no Accept or one usable instance in it.  No ext is supported.    *)
Usable(media) ==
    /\ media.essence \in Accepted
    /\ \A i \in DOMAIN media.parameters :
         \/ media.parameters[i].name = "profile"
         \/ media.parameters[i].name = "q" /\ media.parameters[i].weight # "malformed"
    /\ NamedParameters(media, "q") # {} =>
           \E i \in NamedParameters(media, "q") : media.parameters[i].weight = "some"
ConformingHeaders(s) ==
    /\ s.accept.sent => /\ s.accept.readable
                        /\ \E m \in ToSet(s.accept.instances) : Usable(m)
    /\ s.contentType.sent =>
         /\ s.contentType.readable
         /\ \A m \in ToSet(s.contentType.instances) :
              m.essence = "" \/ /\ m.essence = "json_api"
                                /\ Usable(m)
                                /\ NamedParameters(m, "q") = {}
    /\ ~s.contentType.sent => s.bytes = <<>>
StoreBehindNegotiation ==
    \A r \in Requests :
        pc[r] \in {"load", "execute", "render"} \/ Succeeded(r) => ConformingHeaders(shape[r])

(* A request that borrows nothing but its context's connection never waits *)
(* for the pool while it holds one of its handles: it cannot starve itself *)
(* (connection() is forced once and shared).                               *)
NoWaitWhileHolding ==
    \A r \in Requests :
        pc[r] \in {"wait_own", "wait_peek", "wait_store"} /\ ~lease[r].own =>
            lease[r].request # "held"

(* A failed acquire is the request's last word on the database: it is      *)
(* cached, so no later store() of the request reads or writes.             *)
FailedAcquireIsFinal ==
    \A r \in Requests : lease[r].request = "failed" =>
        /\ pc[r] \notin {"wait_store", "load", "execute", "render"}
        /\ commits[r] = 0

(* Every handle is idle or held by an unanswered request: no path out of a *)
(* handler, refusal and escape included, keeps one.                        *)
HeldHandles == {h \in Requests \X {"request", "own"} :
                  IF h[2] = "own" THEN lease[h[1]].own ELSE lease[h[1]].request = "held"}
NoHandleLeaks ==
    /\ idle + Cardinality(HeldHandles) = PoolSize
    /\ \A r \in Requests : Answered(r) => lease[r].request # "held" /\ ~lease[r].own

(* Past the crossing every error is answered as a document; nothing but a  *)
(* document that cannot be written, or a primary middleware's own failure, *)
(* escapes to the embedder, and a 5xx shows nothing of its cause.          *)
BoundaryAnswersItself ==
    \A r \in Requests : Answered(r) =>
        /\ answer[r].kind = "escaped" => \/ answer[r].code = "Unserialisable"
                                         \/ shape[r].wrap \in {"own", "probes"}
        /\ answer[r].status >= 500 => /\ answer[r].code = "InternalServerError"
                                      /\ answer[r].source = NoSource

(* Every request that arrives is answered: the pool's timeout frees even   *)
(* the one that waits for a handle it holds itself.                        *)
EveryRequestIsAnswered ==
    \A r \in Requests : (pc[r] # "idle") ~> Answered(r)
=============================================================================
