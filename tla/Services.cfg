CONSTANTS
  Problem = {a, b}
  Points = {1, 2}
  TopN = 1
  Job = {j, k}
  MaxAccepted = 2
  Submission = {a, b}
  Get = {j, k}
  MaxOpens = 2
  Nowhere = Nowhere
  Run = {a, b}
  Chain = {h}
  StepMax = 1
  Stale = 3
  NoRun = NoRun
  MaxTests = 2
  OrphanAge = 2
  SweepEvery = 1
  Exercise = {a, b}
  Editor = {j, k}
SPECIFICATION ServicesSpec
INVARIANTS ServicesTypeOK RatingIsTrue SettledPageIsFinal RoomsArePages OneDeployment PageShowsOutcome VerdictIsEarned LeftoversAreSwept MeantIsStored
SYMMETRY ServicesSymmetry
CHECK_DEADLOCK FALSE
