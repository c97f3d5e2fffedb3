CONSTANTS
  LastItem = 2
  ItemId <- MCItemId
  DecisionId = {d1, d2}
  Run <- MCPhoto
  NoRun = NoRun
  Unresolved = Unresolved
  Persister = {}
  Config <- MCConfig
  WriteResult = {"verified", "unverified"}
  LostRuns <- MCLostRuns
  PhotosMayFail = FALSE
  Commands = {"pause", "resume"}
  MaxItemRevision = 1
  MaxCommands = 2
  MaxCrashes = 0
SPECIFICATION FairSpec
PROPERTY CardsAdvanceAfterResume
CHECK_DEADLOCK FALSE
