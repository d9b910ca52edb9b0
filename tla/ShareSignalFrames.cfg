\* Two devices exchange frames and one returns on a third connection in the middle of a negotiation.
SPECIFICATION SignalSpec
CONSTANTS
  GrantIDs = {g1}
  Actors = {s, r}
  Manifests = {m1}
  Codes = {k1}
  ClaimIDs = {c1}
  ApprovalIDs = {p1}
  TaskIDs = {t1}
  Plans = {l1}
  Null = Null
  OfferTTL = 1
  ClaimTTL = 1
  ResumeTTL = 1
  Retention = 1
  MaxTotal = 1
  MaxActive = 1
  MaxPending = 1
  ReapLimit = 1
  AllowRollback = FALSE
  MaxTime = 2
  LastCreation = 1
  MaxClaims = 1
  OwnerIDs = {o1}
  ConnIDs = {x1, x2, x3}
  IceSessions = {i1, i2}
  NegotiationTTL = 1
  MaxCandidates = 1
  QueueSize = 2
  MaxScopes = 1
  MaxConnections = 3
  MaxActorConnections = 1
  MaxFrames = 2
  MayClose = FALSE
SYMMETRY Renamings
INVARIANTS RequestComesFirst
PROPERTIES CleanupIsOwn
