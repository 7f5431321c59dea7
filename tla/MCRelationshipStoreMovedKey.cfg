\* A key that moves between the two transactions of a POST to a has_many.
SPECIFICATION Spec
CONSTANTS
  Requests = {r1}
  Owners = {o1, o2}
  Members = {m1, m2}
  Keys = {o1, o2}
  Null = Null
  Absent = Absent
  Schemas <- ByKey
PROPERTY LinkAddsItsMembers
