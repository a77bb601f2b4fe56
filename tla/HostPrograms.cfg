CONSTANTS
    FULL = 255
    LongMod = 1073741824
    IntMod = 65536
    Rates <- MCRates
    TreeRate <- MCTreeRate
    Pins <- MCPins
    NULL = NULL
    Speeds <- MCSpeeds
    Loadable <- MCLoadable
    BootFsms <- MCBoot
    HostFsms <- MCHostFsms
    HostCommands <- MCCommands
    HostLimit = 4
    RxCap = 2
    MaxSends = 3
    BATCHES = 17
    PAUSE = 16
    RECEIVE = 2
    LeftFsms <- MCLeft
    PATIENCE = 39
SPECIFICATION MonitorFairSpec
CHECK_DEADLOCK FALSE
INVARIANTS LitIsOwned ClearLeavesNothing FadesWholeCycles OnlyTheLastIsMissed
PROPERTIES MonitorEnds WatchdogLostOnlyByDestroy TreeLeavesEmergencyAlone SpinnersTakeTurns
