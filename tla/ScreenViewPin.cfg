SPECIFICATION Spec
CONSTANTS
    FixedSizes = {1, 2}
    Amounts = {1}
    MaxFile = 3
    MaxDropped = 2
PROPERTIES PinnedViewStays
CHECK_DEADLOCK FALSE
