CONSTANTS
  LastItem = 2
  ItemId <- MCItemId
  DecisionId = {d1, d2, d3}
  Run <- MCPhoto
  NoRun = NoRun
  Unresolved = Unresolved
  Persister = {t1}
  Config <- MCConfig
  WriteResult = {"verified", "unverified"}
  LostRuns <- MCLostRuns
  PhotosMayFail = FALSE
  Commands = {"persist", "rescan"}
  MaxItemRevision = 2
  MaxCommands = 3
  MaxCrashes = 1
SYMMETRY Symmetry
SPECIFICATION Spec
INVARIANTS
  ReadyHasManifest
  CardsHaveOwnPhotos
  SavesHaveAnOwner
PROPERTIES
  WritesAsApproved
CHECK_DEADLOCK FALSE
