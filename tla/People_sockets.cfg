CONSTANTS
  User = {u, v, w}
  Request = {q, r}
  Role = {"USER", "TEACHER", "ADMIN"}
  Person = {x, y}
  Link = {l1, l2}
  Call = {q, r}
  MaxPassword = 1
  Nothing = Nothing
SPECIFICATION PeopleSpec
INVARIANT OldSocketsDie
SYMMETRY PeopleSymmetry
CHECK_DEADLOCK FALSE
