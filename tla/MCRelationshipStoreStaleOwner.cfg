\* A belongs_to that moves between the two transactions of a GET.
SPECIFICATION Spec
CONSTANTS
  Requests = {r1}
  Owners = {o1, o2}
  Members = {m1, m2}
  Keys = {o1, o2}
  Null = Null
  Absent = Absent
  Schemas <- ById
PROPERTY NoneOnlyWhenEmpty
