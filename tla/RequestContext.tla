--------------------------- MODULE RequestContext ---------------------------
(***************************************************************************)
(* What a request's context does with its body and route parameters, and   *)
(* the checks ResourceContext makes of a submitted document.               *)
(*                                                                         *)
(* A context is [held, bytes, broken, present]: whether the stream is      *)
(* still there to take, the bytes it will yield, when it breaks ("never",  *)
(* "at_once", "later") and what the first probe found ("unprobed" before   *)
(* it).  A payload is what the whole body decodes to: [form, document]     *)
(* with form "malformed", "foreign" (JSON that is no document), "null" or  *)
(* "document"; a document is [content, data], a resource is                *)
(* [type, id, attributes, convertible, relationships, bare].               *)
(***************************************************************************)
EXTENDS ErrorFunnel, Sequences, FiniteSets, SequencesExt

CONSTANTS Schema,           \* the endpoint's schema: [name, key, attributes, relationships]
          IntegerIds,       \* the identifiers that parse as an integer
          AcceptsClientIds  \* the controller's configuration
ASSUME SchemaAssumption ==
    /\ Schema.key \in {"integer", "text"}
    /\ \A name \in DOMAIN Schema.relationships :
           Schema.relationships[name].kind \in {"belongs_to", "has_one", "has_many"}
ASSUME ClientIdsAssumption == AcceptsClientIds \in BOOLEAN

NoId == "none"

(* The first check that fails decides what the request is refused with. *)
FirstFault(checks) ==
    LET faults == {i \in DOMAIN checks : checks[i] # Ok}
    IN IF faults = {} THEN Ok ELSE checks[Min(faults)]

AnyFault(codes) == IF codes \subseteq {Ok} THEN Ok ELSE CHOOSE code \in codes : code # Ok

-----------------------------------------------------------------------------
(* PrimaryContext *)

FromRequest(bytes, broken) ==
    [held |-> TRUE, bytes |-> bytes, broken |-> broken, present |-> "unprobed"]

(* require_body takes the stream: a second caller finds it consumed. *)
RequireBody(c) ==
    [fault   |-> IF c.held THEN Ok ELSE "RequestBodyConsumed",
     bytes   |-> IF c.held THEN c.bytes ELSE <<>>,
     context |-> [c EXCEPT !.held = FALSE, !.bytes = <<>>]]

\* Mutant: the probed byte is not put back.
ContainsBodyEating(c) ==
    IF c.present # "unprobed" THEN [fault |-> Ok, found |-> c.present = "yes", context |-> c]
    ELSE [fault   |-> RequireBody(c).fault,
          found   |-> c.bytes # <<>>,
          context |-> [c EXCEPT !.bytes = IF @ = <<>> THEN <<>> ELSE Tail(@),
                                !.present = IF c.bytes = <<>> THEN "no" ELSE "yes"]]

(* contains_body reads one byte off the taken stream and chains it back in *)
(* front; when the read fails the stream is gone and nothing is cached.    *)
ContainsBody(c) ==
    LET taken == RequireBody(c)
        peeked == IF taken.bytes = <<>> THEN <<>> ELSE <<Head(taken.bytes)>>
        rest == IF taken.bytes = <<>> THEN <<>> ELSE Tail(taken.bytes)
    IN IF c.present # "unprobed" THEN [fault |-> Ok, found |-> c.present = "yes", context |-> c]
       ELSE IF taken.fault # Ok
            THEN [fault |-> taken.fault, found |-> FALSE, context |-> taken.context]
       ELSE IF c.broken = "at_once"
            THEN [fault |-> "RequestBodyPeekFailed", found |-> FALSE, context |-> taken.context]
       ELSE [fault   |-> Ok,
             found   |-> peeked # <<>>,
             context |-> [taken.context EXCEPT
                             !.held = TRUE, !.bytes = peeked \o rest,
                             !.present = IF peeked = <<>> THEN "no" ELSE "yes"]]

-----------------------------------------------------------------------------
(* ResourceContext: parse_body and the require_* family.  Each gives the   *)
(* fault it refuses with; `sent` is the [bytes, payload] the client sent.  *)

(* serde_json reads the stream to its end: a tail of the body is not JSON, *)
(* a stream that breaks is an I/O error.                                   *)
Decode(bytes, broken, sent) ==
    IF broken = "later" THEN [fault |-> JsonError("Io"), payload |-> sent.payload]
    ELSE IF bytes # sent.bytes \/ sent.payload.form = "malformed"
         THEN [fault |-> JsonError("Syntax"), payload |-> sent.payload]
    ELSE IF sent.payload.form = "foreign"
         THEN [fault |-> JsonError("Data"), payload |-> sent.payload]
    ELSE [fault |-> Ok, payload |-> sent.payload]

(* parse_body gives no document for a bodyless request and a JSON null. *)
ParseBody(c, sent) ==
    LET probe == ContainsBody(c)
        taken == RequireBody(probe.context)
        decoded == Decode(taken.bytes, c.broken, sent)
        none == [form |-> "null", document |-> sent.payload.document]
    IN IF probe.fault # Ok THEN [fault |-> probe.fault, payload |-> none]
       ELSE IF ~probe.found THEN [fault |-> Ok, payload |-> none]
       ELSE IF taken.fault # Ok THEN [fault |-> taken.fault, payload |-> none]
       ELSE decoded

(* materialise_id: a typed key out of a submitted identifier. *)
MaterialiseFault(identifier, type, key) ==
    IF identifier.id = NoId THEN "UnresolvableIdentifier"
    ELSE IF identifier.type # type THEN "IdentifierTypeMismatch"
    ELSE IF key = "integer" /\ identifier.id \notin IntegerIds THEN "InvalidIntegerIdentifier"
    ELSE Ok

(* require_id, of the route's :id parameter. *)
IdFault(routeId) ==
    IF routeId = NoId THEN "RequiredRouteParameterMissing"
    ELSE IF Schema.key = "integer" /\ routeId \notin IntegerIds
         THEN "FailedToParseRouteParameter"
    ELSE Ok

(* require_relationship: linkage is [form, ids]; absent and null linkage   *)
(* clear the relationship, a cardinality of the wrong kind is refused.     *)
RelationshipFault(linkage, descriptor) ==
    IF linkage.form \in {"absent", "null"} THEN Ok
    ELSE IF (linkage.form = "many") # (descriptor.kind = "has_many")
         THEN "ResourceValidationFailure"
    ELSE FirstFault([i \in DOMAIN linkage.ids |->
             MaterialiseFault(linkage.ids[i], descriptor.related, descriptor.key)])

(* require_resource: the document is one resource object of this type, and *)
(* at a targeted endpoint it carries the id of the route.                  *)
ResourceFault(parsed, routeId) ==
    LET document == parsed.payload.document
        resource == document.data[1]
    IN IF parsed.fault # Ok THEN parsed.fault
       ELSE IF parsed.payload.form = "null" THEN "MissingResourceBody"
       ELSE IF document.content = "errors" THEN "ErrorDocumentSubmitted"
       ELSE IF document.content # "record" THEN "PrimaryDataIsNotAResource"
       ELSE IF resource.type # Schema.name THEN "ResourceTypeMismatch"
       ELSE IF routeId # NoId /\ resource.id = NoId THEN "ResourceIdMissing"
       ELSE IF routeId # NoId /\ resource.id # routeId THEN "ResourceIdMismatch"
       ELSE Ok

(* require_record: the resource's own id, then its attributes, then its    *)
(* relationships, each against the schema.  They come in a map without     *)
(* order: one of their faults comes first.                                 *)
RecordFault(parsed, routeId) ==
    LET resource == parsed.payload.document.data[1]
        id == IF resource.id = NoId THEN Ok
              ELSE MaterialiseFault(resource, Schema.name, Schema.key)
        attributes == IF ~(resource.attributes \subseteq Schema.attributes) THEN "UnknownAttribute"
                      ELSE IF ~resource.convertible THEN JsonError("Data")
                      ELSE Ok
        Attached(name) == IF name \notin DOMAIN Schema.relationships
                          THEN "ResourceValidationFailure"
                          ELSE RelationshipFault(resource.relationships[name],
                                                 Schema.relationships[name])
    IN IF ResourceFault(parsed, routeId) # Ok THEN ResourceFault(parsed, routeId)
       ELSE FirstFault(<<id, attributes, AnyFault({Attached(n) : n \in DOMAIN resource.relationships})>>)

(* The check create makes before it opens the store. *)
ClientIdFault(resource) ==
    IF resource.id # NoId /\ ~AcceptsClientIds THEN "ClientGeneratedIdNotSupported" ELSE Ok

(* require_linkage: every resource object is a bare identifier. *)
LinkageFault(parsed) ==
    LET document == parsed.payload.document
    IN IF parsed.fault # Ok THEN parsed.fault
       ELSE IF parsed.payload.form = "null" THEN "MissingLinkageBody"
       ELSE IF document.content = "errors" THEN "ErrorDocumentSubmitted"
       ELSE IF \E r \in ToSet(document.data) : ~r.bare THEN "InvalidLinkage"
       ELSE Ok

(* The linkage a checked document carries. *)
LinkageOf(document) ==
    [form |-> CASE document.content = "empty"      -> "null"
                [] document.content = "record"     -> "one"
                [] document.content = "collection" -> "many",
     ids  |-> [i \in DOMAIN document.data |->
                  [type |-> document.data[i].type, id |-> document.data[i].id]]]

(* link and unlink add to or take from a to-many only. *)
ManyFault(linkage, descriptor) ==
    IF linkage.form \in {"one", "many"} /\ descriptor.kind # "has_many"
    THEN "MismatchedRelationshipKind" ELSE Ok
=============================================================================
