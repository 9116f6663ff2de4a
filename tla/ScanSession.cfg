CONSTANTS Ports = {p1, p2}
SPECIFICATION Spec
INVARIANTS TypeOK SavesWhenQuiet SavedBeforeShown NobodyIsLeft
PROPERTIES ScanEnds
CHECK_DEADLOCK FALSE
