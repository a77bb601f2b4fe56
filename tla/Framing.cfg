CONSTANTS
    Base = 6
    BUFFERLENGTH = 5
    HostMessages <- MCMessages
    MaxSends = 3
    MaxLost = 1
SPECIFICATION FairSpec
CHECK_DEADLOCK FALSE
PROPERTIES HandlesWhatWasSent MessagesArrive LineRecovers
