CONSTANTS
  LastItem = 2
  ItemId <- MCItemId
  DecisionId = {d1, d2}
  Run <- MCPhoto
  NoRun = NoRun
  Unresolved = Unresolved
  Persister = {t1}
  Config <- MCConfigs
  WriteResult = {"verified", "unverified"}
  LostRuns <- MCLostRuns
  PhotosMayFail = FALSE
  Commands = {"persist", "discard", "pause", "resume", "update", "stop"}
  MaxItemRevision = 1
  MaxCommands = 2
  MaxCrashes = 0
SPECIFICATION FairSpec
PROPERTIES
  CardsAdvance
  WindowRefills
  SavesAndStopsEnd
CHECK_DEADLOCK FALSE
