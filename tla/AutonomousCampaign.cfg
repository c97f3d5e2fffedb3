CONSTANTS
  Total = 2
  PhotoCount = 2
  MaxActivations = 2
  MaxPauses = 1
  MaxFailures = 1
  MaxCrashes = 1
SPECIFICATION FairSpec
INVARIANTS
  AppliesOnce
  OutcomesMatchPhotos
  CountersFollowEvidence
  IdleIsHonest
PROPERTIES
  AdmissionNeedsActivation
  DrivesEnd
CHECK_DEADLOCK FALSE
