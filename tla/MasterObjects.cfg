CONSTANTS
    p1 = p1
    a1 = a1
    a2 = a2
    a3 = a3
    NULL = NULL
    Pins = {p1}
    Addr <- MCAddr
    BlinkDelay = 1
    SentryDelay = 1
    TIMEOUT = 2
    FOREVER = 7
    MaxFsm = 4
    TimeMod = 16
    BootFsms <- BootBlink
    HostMessages <- ObjectMsgs
    BufferLength = 16
    DescLength <- MCDescLength
    RxCap = 1
    HostLimit = 3
    Horizon = 0
    PassBudget = 1
SPECIFICATION FairSpec
INVARIANTS EncoderSafe ArrayOwnsItsSentries
PROPERTIES RegistrySpec ListsEveryFsm MessagesHandled
