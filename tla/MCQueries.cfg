\* Every application, request, query and batch, on every database.
SPECIFICATION Spec
CONSTANTS
  Null = Null
  Numbers = 32
  Malformed <- MCMalformed
  Variables = 8
  Worlds <- MCWorlds
INVARIANTS
  TypeOK
  LinkageIsTrue
  FullLinkage
  AcceptedQueriesAreServed
  FieldsetsAreHonoured
  BatchPairsRowsWithRecords
PROPERTY
  ImplementsCompoundDocument
CHECK_DEADLOCK FALSE
