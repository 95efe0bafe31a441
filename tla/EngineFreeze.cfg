SPECIFICATION FairSpec
CONSTANTS
    d1 = d1  d2 = d2  c1 = c1  c2 = c2
    Devs = {d1, d2}
    Cmds = {c1}
    Junk = {0}
    NoDev = NoDev  NoCmd = NoCmd
    MAX_CMD_RETRIES = 2
    BLE_OPERATION_TIMEOUT = 2
    DisconnectDelay = 2
    StartDelay = 2
    ApDelay = 3
    MaxRequests = 1
    Sources = {"net"}
    ApFalls = FALSE
    Faults = {"lose"}
CHECK_DEADLOCK FALSE
PROPERTIES OperationEnds
