SPECIFICATION FairSpec
CONSTANTS
    MaxTerminals = 3
    MaxMoves = 1
INVARIANTS TypeOK PaneInSync NoLeakedSession NoDragIndexNeverLow
PROPERTIES SessionsKeepContract OrphansReaped FirstTabCloses
CHECK_DEADLOCK FALSE
