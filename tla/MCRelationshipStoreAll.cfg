\* Every declaration, two relationship requests in flight.
SPECIFICATION Spec
CONSTANTS
  Requests = {r1, r2}
  Owners = {o1, o2}
  Members = {m1, m2}
  Keys = {o1, o2}
  Null = Null
  Absent = Absent
  Schemas <- AllSchemas
SYMMETRY Symmetry
INVARIANT TypeOK
PROPERTIES
  IdRepliesAreMembership
  RequestsMoveOnlyTheirMembers
  ReplacementIsExact
