\* A fieldset that leaves out what another model is joined by.
SPECIFICATION Spec
CONSTANTS
  Null = Null
  Numbers = 32
  Malformed <- MCMalformed
  Variables = 8
  Worlds <- MCCatalogue
INVARIANT NothingUnrequested
CHECK_DEADLOCK FALSE
