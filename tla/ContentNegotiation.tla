------------------------- MODULE ContentNegotiation -------------------------
(***************************************************************************)
(* ContentNegotiator: which Content-Type and Accept headers the JSON:API   *)
(* boundary lets through.  A header is [sent, readable, instances]: an     *)
(* instance is one comma-separated media type, its essence one of          *)
(* "json_api", "wildcard" (application/... or any), "other" or "" (blank), *)
(* its parameters a sequence of [name, value] with name "profile", "ext",  *)
(* "q" or anything else; an ext value is a set of extension URIs, a q      *)
(* value is "none", "zero", "some" or "malformed".                         *)
(***************************************************************************)
EXTENDS ErrorFunnel, Sequences, FiniteSets, SequencesExt, FiniteSetsExt

SupportedExtensions == {}
Accepted == {"json_api", "wildcard"}

(* What parsing leaves of a header: an ext value names at least one URI     *)
(* (split(' ') gives one even of nothing), and a q value is a number or not. *)
IsParameter(p) ==
    /\ p.name = "ext" => p.uris # {}
    /\ p.name = "q" => p.weight \in {"zero", "some", "malformed"}
IsHeader(header) ==
    \A media \in ToSet(header.instances) :
        /\ media.parameters \in Seq(ToSet(media.parameters))
        /\ \A p \in ToSet(media.parameters) : IsParameter(p)

(* MediaType::list_from drops an instance that has no essence. *)
ListFrom(header) == {i \in DOMAIN header.instances : header.instances[i].essence # ""}

(* What one parameter makes of the media type: the first one that is       *)
(* neither profile, ext nor a readable q fails the whole type.             *)
ParameterFault(p) ==
    CASE p.name \in {"profile", "ext"}            -> Ok
      [] p.name = "q" /\ p.weight = "malformed"   -> "UnsupportedQualityValue"
      [] p.name = "q" /\ p.weight # "malformed"   -> Ok
      [] OTHER                                    -> "UnsupportedMediaTypeParameter"

NamedParameters(media, name) ==
    {i \in DOMAIN media.parameters : media.parameters[i].name = name}

JsonApiMediaType(media) ==
    LET faulty == {i \in DOMAIN media.parameters :
                       ParameterFault(media.parameters[i]) # Ok}
        weights == NamedParameters(media, "q")
    IN [fault      |-> IF media.essence \notin Accepted THEN "NotAJsonApiMediaType"
                       ELSE IF faulty = {} THEN Ok
                       ELSE ParameterFault(media.parameters[Min(faulty)]),
        extensions |-> UNION {media.parameters[i].uris : i \in NamedParameters(media, "ext")},
        quality    |-> IF weights = {} THEN "none" ELSE media.parameters[Max(weights)].weight]

Unsupported(media) == media.extensions \ SupportedExtensions

(* extract_json_api_content_type, then negotiate's check of its extensions. *)
ContentTypeFault(header, required) ==
    LET listed == ListFrom(header)
        media == header.instances[CHOOSE i \in listed : TRUE]
        typed == JsonApiMediaType(media)
    IN IF ~header.sent THEN IF required THEN "MissingContentType" ELSE Ok
       ELSE IF ~header.readable THEN "InvalidHeaderValue"
       ELSE IF \A i \in listed : listed # {i} THEN "InvalidContentType"
       ELSE IF media.essence # "json_api" THEN "UnsupportedContentType"
       ELSE IF typed.fault # Ok THEN typed.fault
       ELSE IF typed.quality # "none" THEN "ContentTypeCarriesQuality"
       ELSE IF Unsupported(typed) # {} THEN "UnsupportedJsonApiExtension"
       ELSE Ok

(* extract_json_api_accept: an instance with a bad parameter or a zero     *)
(* weight is set aside, never an error of its own.                         *)
\* Mutant: a type of zero weight still counts as accepted.
AcceptableTypesUnweighed(media) ==
    {t \in {JsonApiMediaType(m) : m \in {m \in media : m.essence \in Accepted}} : t.fault = Ok}

AcceptableTypes(media) ==
    {t \in {JsonApiMediaType(m) : m \in {m \in media : m.essence \in Accepted}} :
        t.fault = Ok /\ t.quality # "zero"}

AcceptFault(header) ==
    LET media == {header.instances[i] : i \in ListFrom(header)}
        types == AcceptableTypes(media)
    IN IF ~header.sent THEN Ok
       ELSE IF ~header.readable THEN "InvalidHeaderValue"
       ELSE IF media = {} THEN "InvalidAcceptHeader"
       ELSE IF \A m \in media : m.essence \notin Accepted THEN "NoAcceptableMediaType"
       ELSE IF types = {} THEN "UnusableAcceptMediaTypes"
       ELSE IF \A t \in types : Unsupported(t) # {} THEN "UnsatisfiableJsonApiExtension"
       ELSE Ok

(* ContentNegotiator::negotiate, once the body has been probed. *)
Negotiate(contentType, accept, bodied) ==
    LET typed == ContentTypeFault(contentType, bodied)
    IN IF typed # Ok THEN typed ELSE AcceptFault(accept)
=============================================================================
