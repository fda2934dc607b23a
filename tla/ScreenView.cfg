SPECIFICATION FairSpec
CONSTANTS
    FixedSizes = {1, 2}
    Amounts = {1}
    MaxFile = 3
    MaxDropped = 2
INVARIANTS TypeOK TrackedViewAtEnd
PROPERTIES CountedViewStays OutputShown
CHECK_DEADLOCK FALSE
