\* An Ok that is not durable, after a COMMIT that was refused.
SPECIFICATION Spec
CONSTANTS
  Connections = {c1, c2}
  Writes = {w1, w2}
  Nobody = Nobody
  MaxDepth = 3
  Recovering = {c1, c2}
  Fragile = {c1, c2}
SYMMETRY Symmetry
INVARIANT OkIsDurable
