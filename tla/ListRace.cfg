SPECIFICATION Spec
CONSTANTS
    a1 = a1  a2 = a2  a3 = a3  d1 = d1  d2 = d2  c1 = c1  c2 = c2
    t1 = t1  t2 = t2  NULL = NULL
    Cells = {a1, a2}
    Tasks = {t1, t2}
    Devs = {d1, d2}
    Cmds = {c1}
    Junk = {0}
    MAX_CMD_RETRIES = 2
    MaxRequests = 2
CHECK_DEADLOCK FALSE
SYMMETRY Symmetry
INVARIANTS NothingLost
