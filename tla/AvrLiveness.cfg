CONSTANTS
    c1 = c1
    c2 = c2
    f1 = f1
    f2 = f2
    NULL = NULL
    Clients = {c1}
    FsmIDs = {f1}
    Publishers = {f1}
    OwnerCalls = {"Open", "Close", "Reset"}
    ClientCalls = {"Send", "Query", "Receive"}
    MaxOpens = 1
    MaxCalls = 2
SPECIFICATION FairSpec
CHECK_DEADLOCK FALSE
PROPERTIES CloseReturns QueueDrains ReadResumes
