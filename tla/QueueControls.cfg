CONSTANTS
  LastItem = 2
  ItemId <- MCItemId
  DecisionId = {d1, d2}
  Run <- MCPhoto
  NoRun = NoRun
  Unresolved = Unresolved
  Persister = {t1, t2}
  Config <- MCConfigs
  WriteResult = {"verified", "unverified"}
  LostRuns <- MCLostRuns
  PhotosMayFail = TRUE
  Commands = {"persist", "discard", "pause", "resume", "update", "stop"}
  MaxItemRevision = 2
  MaxCommands = 3
  MaxCrashes = 0
SYMMETRY Symmetry
SPECIFICATION Spec
INVARIANT ResourcesRespected
PROPERTY ControlsAreKept
CHECK_DEADLOCK FALSE
