\* A record of the primary data that an include path leads back to.
SPECIFICATION Spec
CONSTANTS
  Null = Null
  Numbers = 32
  Malformed <- MCMalformed
  Variables = 8
  Worlds <- MCBlog
INVARIANT OneObjectPerRecord
CHECK_DEADLOCK FALSE
