SPECIFICATION FairSpec
CONSTANTS
    d1 = d1  d2 = d2
    Devs = {d1, d2}
    MaxScans = 4
    MqttDrops = TRUE
CHECK_DEADLOCK FALSE
INVARIANTS TypeOK CountIsLength PublishedOnce ListIsTheScan WalkedListIsAlive
PROPERTIES ScanEnds
