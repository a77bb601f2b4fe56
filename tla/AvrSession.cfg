CONSTANTS
    c1 = c1
    c2 = c2
    f1 = f1
    f2 = f2
    NULL = NULL
    Clients = {c1, c2}
    FsmIDs = {f1, f2}
    Publishers = {f2}
    OwnerCalls = {"Open", "Close", "Reset"}
    ClientCalls = {"Query", "Receive"}
    MaxOpens = 1
    MaxCalls = 1
SPECIFICATION Spec
SYMMETRY MCSymmetry
CHECK_DEADLOCK FALSE
INVARIANTS WritesToOpenPort OneCallback AnswersAreWhole CloseGoesOn
PROPERTY OutgoingSpec
