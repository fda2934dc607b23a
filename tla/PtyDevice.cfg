SPECIFICATION FairSpec
CONSTANTS
    CHUNKSIZE = 2
    Lengths = {1, 3}
    Room = 2
    MaxSent = 5
    MaxPrinted = 3
INVARIANTS TypeOK NothingStuck
PROPERTIES BytesInOrder TypedArrives EofReturns
CHECK_DEADLOCK FALSE
