CONSTANTS
  MaxRequests = 3
  MaxBatches = 1
  Commands = {"manual", "cancel", "queue_start", "queue_resume", "queue_pause", "queue_persist", "queue_stop", "start", "resume", "pause"}
  ResumesOwned = FALSE
SPECIFICATION FairSpec
INVARIANTS
  FamiliesExclusive
PROPERTIES
  DriveNeedsActivation
  RequestsAnswered
  ShutdownEnds
CHECK_DEADLOCK FALSE
