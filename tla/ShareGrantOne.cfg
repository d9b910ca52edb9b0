\* One share, three devices, stale identifiers and a clock that is set back.
SPECIFICATION Spec
CONSTANTS
  GrantIDs = {g1}
  Actors = {s, a, b}
  Manifests = {m1}
  Codes = {k1}
  ClaimIDs = {c1, c2}
  ApprovalIDs = {p1}
  TaskIDs = {t1, t2}
  Plans = {l1, l2}
  Null = Null
  OfferTTL = 3
  ClaimTTL = 2
  ResumeTTL = 3
  Retention = 2
  MaxTotal = 2
  MaxActive = 1
  MaxPending = 1
  ReapLimit = 2
  AllowRollback = TRUE
  MaxTime = 7
  LastCreation = 1
  MaxClaims = 2
SYMMETRY Renamings
INVARIANTS GrantInv RetryIsAnswered
PROPERTIES ApprovalIsExclusive GenerationFences FinishedIsFinal
