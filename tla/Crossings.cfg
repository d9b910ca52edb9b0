SPECIFICATION CrossingsSpec
CONSTANTS
    ClipDevices = {1, 2, 3}
    ClipScenarios <- Scenarios
    MaxLeases = 2
    Identities = {1, 2, 3}
    MaxRequests = 3
    MaxConnections = 2
    MaxSessionsPerDevice = 1
    MaxAttempts = 2
    MeetingScenarios <- MeetingCases
INVARIANTS OnlyOwnCopiesTravel NegotiationsAreCurrent
PROPERTIES NewestWins WithdrawnLeasesAreQuiet
CHECK_DEADLOCK FALSE
