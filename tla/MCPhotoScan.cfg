CONSTANTS
  s1 = s1
  s2 = s2
  s3 = s3
  p1 = p1
  p2 = p2
  k1 = k1
  k2 = k2
  Scans = {s1, s2, s3}
  Alone = {s3}
  NoScan = NoScan
  Photos = {p1, p2}
  ModelKeywords = {k1, k2}
  TypedKeywords = {typed}
  RefusedKeywords = {refused}
  SelectionsOf <- Selectable
  OutcomesOf <- Tried
SPECIFICATION Spec
CHECK_DEADLOCK FALSE
INVARIANTS ExportsInUse StaleWorkspacesGo ScanIsRecorded AdviceMatchesReview ReviewsAreAccepted
