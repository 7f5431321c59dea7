SPECIFICATION Spec
CONSTANTS
    Encoding <- MCEncoding
    Undecodable = {"%FF"}
    Schemas <- MCSchemas
    Methods = {"GET"}
    Leaves <- MCLeaves
    Segments <- MCSegments
    Guards = {"g", "h"}
    Configs <- MCConfigs
    Names = {"comments", "nothing"}
    Resources <- MCResources
    MaxCalls = 4
    MaxDepth = 4
INVARIANTS
    TypeOK
    LinksLandOnTheirEndpoint
    EndpointsAreLinked
    ReadOnlyKindsNeverWrite
    MiddlewareWrapsItsBlock
PROPERTIES
    ImplementsRouteTable
CHECK_DEADLOCK FALSE
