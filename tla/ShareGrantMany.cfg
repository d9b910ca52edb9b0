\* Two shares and three devices against the quotas, and a reaper that handles one row per pass.
SPECIFICATION FairSpec
CONSTANTS
  GrantIDs = {g1, g2}
  Actors = {s, a, b}
  Manifests = {m1}
  Codes = {k1, k2}
  ClaimIDs = {c1}
  ApprovalIDs = {p1}
  TaskIDs = {t1}
  Plans = {l1}
  Null = Null
  OfferTTL = 1
  ClaimTTL = 1
  ResumeTTL = 1
  Retention = 1
  MaxTotal = 2
  MaxActive = 1
  MaxPending = 1
  ReapLimit = 1
  AllowRollback = FALSE
  MaxTime = 3
  LastCreation = 1
  MaxClaims = 1
INVARIANTS Quotas
PROPERTIES EveryShareEnds
