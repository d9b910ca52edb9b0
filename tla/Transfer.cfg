SPECIFICATION TogetherSpec
CONSTANTS
    NFiles = 2
    Parts = 1
    Inside <- Inner
    MaxNames = 1
    Bounds <- FaultsOrTouches
    Identities = {1, 2}
    MaxRequests = 3
    MaxConnections = 2
    MaxSessionsPerDevice = 1
    MaxAttempts = 2
    MeetingScenarios <- CalmMeetings
INVARIANTS CompletedMeansPublished TransferInv AcknowledgedStays
PROPERTIES AttemptsEnd DialsMeet
CHECK_DEADLOCK FALSE
