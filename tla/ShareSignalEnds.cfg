\* Connections end and Close returns, under the fairness of the goroutines.
SPECIFICATION SignalFairSpec
CONSTANTS
  GrantIDs = {g1}
  Actors = {s, r}
  Manifests = {m1}
  Codes = {k1}
  ClaimIDs = {c1}
  ApprovalIDs = {p1}
  TaskIDs = {t1}
  Plans = {l1}
  Null = Null
  OfferTTL = 1
  ClaimTTL = 1
  ResumeTTL = 1
  Retention = 1
  MaxTotal = 1
  MaxActive = 1
  MaxPending = 1
  ReapLimit = 1
  AllowRollback = FALSE
  MaxTime = 2
  LastCreation = 1
  MaxClaims = 1
  OwnerIDs = {o1}
  ConnIDs = {x1, x2}
  IceSessions = {i1}
  NegotiationTTL = 1
  MaxCandidates = 1
  QueueSize = 1
  MaxScopes = 1
  MaxConnections = 2
  MaxActorConnections = 1
  MaxFrames = 0
  MayClose = TRUE
INVARIANTS SignalInv
PROPERTIES SignalEnds
