SPECIFICATION MCSpec
CONSTANTS
    Chars = {"a", "b"}
    Args = {0, 1, 2, 3}
    Sizes <- AllSizes
    FirstSize <- S32
    HistoryTypes <- AllTypes
INVARIANTS TypeOK InBounds SelectionInside
PROPERTIES SelectionFollowsText ImplementsPaper
CHECK_DEADLOCK FALSE
