CONSTANTS
  Schedule = {s}
  Month = {m1, m2}
  Task = {t1, t2}
  MaxVersion = 3
  Nothing = Nothing
  Subject = {1, 2, 3}
  Call = {q, r}
  MaxOrder = 3
  MaxName = 3
  MaxCopy = 4
  MaxPresses = 3
  Target = {"post", "comment"}
  Member = {m, n}
  Request = {q, r}
  MaxReports = 2
  On <- MCOn
  Press = {p1, p2}
  MaxComments = 2
SPECIFICATION ClubSpec
INVARIANTS ClubTypeOK ListIsOfItsMonth OwnWritesShow ShownIsStored ActionTakenIsGone ClosedIsTold ToldWhatWasRecorded PageShowsStored
SYMMETRY ClubSymmetry
CHECK_DEADLOCK FALSE
