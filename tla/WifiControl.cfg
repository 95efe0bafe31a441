SPECIFICATION FairSpec
CONSTANTS
    s1 = s1  m1 = m1  m2 = m2  None = None
    Ssids = {s1}
    Brokers = {m1, m2}
    MAXCONNATTEMPTS = 1
    MaxEvents = 1
    OverrideGpio = TRUE
INVARIANTS NeverStranded RestartOnlyAsAp ClientIsCurrent NeverWrongLayout
PROPERTIES ModesAlternate
