SPECIFICATION Spec
CONSTANTS
    NULL = NULL
    NUM_LOG_ENTRIES = 4
    MaxAdds = 8
    Length <- MCLength
INVARIANTS HeldIsAlive PageHasNoGap LatestKept
