\* Two requests at a time, either of which may die between its writes.
CONSTANTS
  Same = Same
  Handler = {h1, h2}
  Type <- MCType
  Kind <- MCKind
  Accepts <- MCAccepts
  Faults = {"request"}
  Tab = {h1, h2}
  MaxDraft = 2
  MaxKeys = 2
  MaxVisits = 2
  MaxSaves = 2
  Change = {h1, h2}
  Image = {i1, i2}
  Language = {c, p}
  MaxTyped = 2
  None = None
SPECIFICATION ProblemsSpec
SYMMETRY Symmetry
INVARIANTS ProblemsTypeOK PublicIsReviewed PublicFitsType UnverifiedDisappears DraftsHold SettingsHold
CHECK_DEADLOCK FALSE
