SPECIFICATION MCSpec
CONSTANTS
    MapThreshold <- Threshold
    IntMin <- Least
    IntMax = 1
    Garbage <- Trash
    BlockLength = 5
    LineSize = 2
    FormatSize = 1
    CodeSize = 1
    Codes = {97, 98}
    Marks = {769, 800}
    Pens = {"plain", "red"}
    Default = "plain"
    Height = 2
    Columns = 2
    Sizes = {0, 1}
    MaxLines = 2
INVARIANTS StorageInv RowsShowTyped
PROPERTIES ImplementsLineStore
CHECK_DEADLOCK FALSE
