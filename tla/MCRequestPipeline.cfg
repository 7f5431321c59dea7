SPECIFICATION FairSpec
CONSTANTS
    r1 = r1
    r2 = r2
    Requests = {r1, r2}
    Shapes <- MCShapes
    PoolSize = 1
    Rows <- MCRows
    Schema <- MCSchema
    IntegerIds <- MCIntegerIds
    AcceptsClientIds = FALSE
INVARIANTS
    TypeOK
    RefusedRequestsWroteNothing
    SuccessfulWritesCommittedOnce
    ParserSeesWhatWasSent
    StoreBehindNegotiation
    NoWaitWhileHolding
    FailedAcquireIsFinal
    NoHandleLeaks
    BoundaryAnswersItself
PROPERTIES
    EveryRequestIsAnswered
CHECK_DEADLOCK FALSE
