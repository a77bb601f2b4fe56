CONSTANTS
    MaxOpens = 1
    MaxFails = 1
SPECIFICATION FairSpec
CHECK_DEADLOCK FALSE
INVARIANT ReadsOnOpenBus
PROPERTIES FramesAreWhole DataIsRead CloseReturns
