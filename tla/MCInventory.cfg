SPECIFICATION Spec
CONSTANTS
  Libraries <- MCLibraries
  ChunkSize = 2
  FanIn = 2
  MaxRestarts = 1
INVARIANT WalkIsTheLibrary
CHECK_DEADLOCK FALSE
