SPECIFICATION ConnectionsSpec
CONSTANTS
    Devices <- MCDevices
    MaxSessions = 2
    MaxGeneration = 2
    SessionScenarios <- SessionCases
    Peers <- MCPeers
    MaxGroups = 2
    MemberScenarios <- MemberCases
INVARIANTS SessionsInv MembersInv
PROPERTIES ReservedStays ShutdownCompletes GrantsAreFenced RemovalReachesServer
CHECK_DEADLOCK FALSE
