SPECIFICATION Spec
CONSTANTS
  PhotoCount = 2
  Keyword <- MCKeyword
  Key <- MCKey
  Proposed <- MCProposed
  Captioned <- MCCaptioned
  Library <- MCLibrary
  MaxOperations = 3
  MaxEdits = 2
  MaxCrashes = 1
INVARIANTS
  JournalStaysUsable
  NoForgottenWrite
  ReceiptsAreEarned
  RemovalIsComplete
  AdviceIsFollowable
PROPERTIES
  SeenKeywordsSurvive
  RollbackTakesOnlyOurs
  JournalSpec
CHECK_DEADLOCK FALSE
