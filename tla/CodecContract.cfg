SPECIFICATION Spec
CONSTANTS
    Args <- MCArgs
    TimeArgs <- MCTimeArgs
    Clocks <- MCClocks
    Garbage <- MCGarbage
    Lens = {6, 15}
    Own <- MCOwn
INVARIANTS ClockIsSet OffsetShownIfSimple
PROPERTIES KeepsContract
