CONSTANTS
  User = {u, v, w}
  Request = {q, r}
  Role = {"USER", "TEACHER", "ADMIN"}
  Person = {x, y}
  Link = {l1, l2}
  Call = {q, r}
  MaxPassword = 1
  Nothing = Nothing
SPECIFICATION PeopleSpec
INVARIANTS PeopleTypeOK RootStays SuspendedOrAdmin AdminRemains OldLoginsDie ShownOwnsToken LinkOpensOnce StuckGateHasDeadToken
SYMMETRY PeopleSymmetry
CHECK_DEADLOCK FALSE
