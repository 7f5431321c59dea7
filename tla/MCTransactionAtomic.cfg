\* One connection's callers propagate errors, as the crate's own handlers and
\* store do, and its engine may fail; the other's may catch them, and only
\* single statements of its fail.
SPECIFICATION Spec
CONSTANTS
  Connections = {c1, c2}
  Writes = {w1, w2, w3}
  Nobody = Nobody
  MaxDepth = 3
  Recovering = {c1}
  Fragile = {c2}
INVARIANTS
  TypeOK
  IdleIsClean
  DepthCoversStacks
  AtomicOutcome
PROPERTY
  ImplementsAtomicTransactions
