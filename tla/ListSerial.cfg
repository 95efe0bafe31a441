SPECIFICATION FairSpec
CONSTANTS
    a1 = a1  a2 = a2  a3 = a3  d1 = d1  d2 = d2  c1 = c1  c2 = c2
    t1 = t1  t2 = t2  NULL = NULL
    Cells = {a1, a2, a3}
    Tasks = {t1}
    Devs = {d1, d2}
    Cmds = {c1, c2}
    Junk = {0}
    MAX_CMD_RETRIES = 3
    MaxRequests = 3
CHECK_DEADLOCK FALSE
INVARIANTS NothingLost ListInOrder
PROPERTIES ImplementsQueue CallReturns
