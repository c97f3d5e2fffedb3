SPECIFICATION Spec
CONSTANTS
  Queries = 3
  MaxParallel = 2
  Places = {a, b, c}
  Unsafe = Unsafe
  MaxItems = 2
  MaxResults = 2
INVARIANTS NoStall AnswerCoversAll
PROPERTY LookupEnds
CHECK_DEADLOCK FALSE
