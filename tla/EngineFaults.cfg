SPECIFICATION Spec
CONSTANTS
    d1 = d1  d2 = d2  c1 = c1
    Devs = {d1, d2}
    Cmds = {c1}
    Junk = {0}
    NoDev = NoDev  NoCmd = NoCmd
    MAX_CMD_RETRIES = 1
    BLE_OPERATION_TIMEOUT = 1
    DisconnectDelay = 1
    StartDelay = 1
    ApDelay = 1
    MaxRequests = 3
    Sources = {"uart"}
    ApFalls = TRUE
    Faults = {"lose", "late", "nochar"}
CHECK_DEADLOCK FALSE
SYMMETRY Symmetry
INVARIANTS TypeOK TimerToken DelayedCommandTicks VerdictFindsItsCommand
