SPECIFICATION Spec
CONSTANTS
    d1 = d1  d2 = d2  c1 = c1  c2 = c2
    Devs = {d1, d2}
    Cmds = {c1, c2}
    Junk = {0}
    NoDev = NoDev  NoCmd = NoCmd
    MAX_CMD_RETRIES = 3
    BLE_OPERATION_TIMEOUT = 2
    DisconnectDelay = 2
    StartDelay = 2
    ApDelay = 3
    MaxRequests = 3
    Sources = {"net"}
    ApFalls = FALSE
    Faults = {}
CHECK_DEADLOCK FALSE
SYMMETRY Symmetry
INVARIANTS AttemptsBounded OneConversation NoLostWakeup
PROPERTIES WriteToAddressee
