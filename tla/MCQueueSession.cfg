CONSTANTS
  ItemId = {c1}
  DecisionId = {d1, d2}
  Run = {run1}
  NoRun = NoRun
  Config <- MCConfig
  StageState <- MCStageState
  MaxRevision = 3
  MaxItemRevision = 2
SPECIFICATION Spec
SYMMETRY Symmetry
INVARIANTS
  TypeOK
  RevisionNamesLedger
  RescansMatchRevisions
PROPERTY SupersededRevisionsFrozen
CHECK_DEADLOCK FALSE
