SPECIFICATION Spec
CONSTANTS
    Unset = Unset
    Setting <- MCSetting
    Default <- MCDefault
    Scenarios <- MCScenarios
    MaxConnections = 1
    MaxSubscribers = 2
    MaxPeers = 1
    MaxThreads = 1
INVARIANTS FileIgnoresOptions StaysUp
PROPERTIES ClientsServed Exits BackupFollowsDay
CHECK_DEADLOCK FALSE
