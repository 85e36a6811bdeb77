\* Two requests at a time, none of which dies.
CONSTANTS
  Same = Same
  Handler = {h1, h2}
  Type <- MCType
  Kind <- MCKind
  Accepts <- MCAccepts
  Faults = {}
  Tab = {h1, h2}
  MaxDraft = 2
  MaxKeys = 2
  MaxVisits = 2
  MaxSaves = 2
  Change = {h1, h2}
  Image = {i1, i2}
  Language = {c, p}
  MaxTyped = 2
  None = None
SPECIFICATION ProblemsSpec
INVARIANTS ReReviewHolds
CHECK_DEADLOCK FALSE
