---------------------------- MODULE ErrorFunnel ----------------------------
(***************************************************************************)
(* The error funnel: what each error variant of the routing, database and  *)
(* serialisation layers answers.  A variant is its code (a string); this   *)
(* module gives its HTTP status, what of the request it names as its       *)
(* source, and what of it is left once the boundary has redacted it.       *)
(***************************************************************************)
EXTENDS Naturals

Ok == "ok"

BadRequest ==
    {"RequiredRouteParameterMissing", "FailedToParseRouteParameter",
     "MalformedRequestBody", "RequestBodyPeekFailed", "InvalidHeaderValue",
     "ParseParameterFailure", "InvalidEncodingFailure", "QueryValidationFailure"}

Unprocessable ==
    {"MissingResourceBody", "MissingLinkageBody", "PrimaryDataIsNotAResource",
     "ErrorDocumentSubmitted", "InvalidRequestBodyContent", "UnknownAttribute",
     "InvalidLinkage", "UnresolvableIdentifier", "IdentifierTypeMismatch",
     "InvalidIntegerIdentifier", "ResourceValidationFailure",
     "InvalidAttributeSet", "InvalidAttribute", "InvalidOperation"}

Conflict == {"ResourceTypeMismatch", "ResourceIdMismatch", "ResourceIdMissing",
             "ConstraintViolation"}

Forbidden == {"ClientGeneratedIdNotSupported", "UnsupportedOperation"}

UnsupportedMediaType ==
    {"MissingContentType", "UnsupportedContentType", "InvalidContentType",
     "ContentTypeCarriesQuality", "UnsupportedJsonApiExtension",
     "UnsupportedMediaTypeParameter", "UnsupportedQualityValue"}

NotAcceptable ==
    {"InvalidAcceptHeader", "NoAcceptableMediaType",
     "UnusableAcceptMediaTypes", "UnsatisfiableJsonApiExtension"}

NotFound == {"RecordNotFound", "RelatedRecordNotFound"}

(* The match of Error::status in each layer; every variant not named above *)
(* is a broken invariant of the server.                                    *)
RoutingStatus(code) ==
    CASE code \in BadRequest           -> 400
      [] code \in Forbidden            -> 403
      [] code \in NotAcceptable        -> 406
      [] code \in Conflict             -> 409
      [] code \in UnsupportedMediaType -> 415
      [] code \in Unprocessable        -> 422
      [] OTHER                         -> 500

DatabaseStatus(code) ==
    CASE code \in BadRequest    -> 400
      [] code \in NotFound      -> 404
      [] code \in Conflict      -> 409
      [] code \in Unprocessable -> 422
      [] OTHER                  -> 500

SerialisationStatus(code) == 500

(* Error::code of each layer. *)
RoutingErrors ==
    {"RequiredRouteParameterMissing", "FailedToParseRouteParameter", "MissingResourceBody",
     "MissingLinkageBody", "PrimaryDataIsNotAResource", "ErrorDocumentSubmitted",
     "MalformedRequestBody", "InvalidRequestBodyContent", "RequestBodyConsumed",
     "RequestBodyPeekFailed", "UnknownAttribute", "ResourceTypeMismatch", "ResourceIdMismatch",
     "ResourceIdMissing", "ClientGeneratedIdNotSupported", "InvalidLinkage",
     "UnresolvableIdentifier", "IdentifierTypeMismatch", "InvalidIntegerIdentifier",
     "InvalidHeaderValue", "NotAJsonApiMediaType", "ResponseConstructionFailed",
     "GeneratedInvalidHeader", "UnsupportedOperation", "MisorderedMiddleware"}
    \cup UnsupportedMediaType \cup NotAcceptable

DatabaseErrors ==
    {"ParseParameterFailure", "InvalidEncodingFailure", "InconsistentSchema",
     "QueryValidationFailure", "ResourceValidationFailure", "UnknownSchema",
     "InvalidAttributeSet", "InvalidAttribute", "InvalidAttributeConversion",
     "InvalidAttributeAccess", "InvalidRelationshipAccess", "UnexpectedCollection",
     "MismatchedRelationshipKind", "MismatchedQueryParameters", "InvalidOperation",
     "DatabaseFailure", "ConstraintViolation", "RecordNotFound", "RelatedRecordNotFound",
     "DataLoadingError", "UnloadedAttributeAccess", "UnloadedRelationshipAccess",
     "MissingRecordId", "InconsistentCollection", "DuplicateIndexKey", "IndexEntryFailure"}

SerialisationErrors == {"DocumentSerialisationError", "LinkGenerationFailed"}

(* A nested failure answers for itself. *)
Status(code) ==
    CASE code \in DatabaseErrors      -> DatabaseStatus(code)
      [] code \in SerialisationErrors -> SerialisationStatus(code)
      [] OTHER                        -> RoutingStatus(code)

(* The part of the request an error names: the primary data, one member of *)
(* it, a header, or nothing.  Only routing errors name one.                *)
NoSource == [kind |-> "none", name |-> ""]
Member(name) == [kind |-> "member", name |-> name]
InHeader(name) == [kind |-> "header", name |-> name]
PrimaryData == [kind |-> "data", name |-> ""]

Source(code) ==
    CASE code \in {"PrimaryDataIsNotAResource", "InvalidLinkage",
                   "UnresolvableIdentifier", "IdentifierTypeMismatch",
                   "InvalidIntegerIdentifier"} -> PrimaryData
      [] code = "UnknownAttribute" -> Member("attributes")
      [] code = "ResourceTypeMismatch" -> Member("type")
      [] code \in {"ResourceIdMismatch", "ResourceIdMissing",
                   "ClientGeneratedIdNotSupported"} -> Member("id")
      [] code \in UnsupportedMediaType -> InHeader("Content-Type")
      [] code \in NotAcceptable -> InHeader("Accept")
      [] code \in {"InvalidHeaderValue", "GeneratedInvalidHeader"} -> InHeader("the named one")
      [] OTHER -> NoSource

(* From<JsonError>: bytes that are not JSON (or could not be read) are     *)
(* malformed, JSON that is not a document is invalid content.              *)
JsonError(category) ==
    IF category = "Data" THEN "InvalidRequestBodyContent"
                         ELSE "MalformedRequestBody"

(* From<Error> for yajac::Error, then for the wire error object. *)
Funnelled(code) == [status |-> Status(code), code |-> code, source |-> Source(code)]

\* Mutant: the code of the cause is left in.
RedactedSource(error) == [error EXCEPT !.source = NoSource]

Redacted(error) ==
    [error EXCEPT !.code = "InternalServerError", !.source = NoSource]
=============================================================================
