SPECIFICATION ListSpec
CONSTANTS
    Base = 1
    Limit = 9
    Sizes = {1, 3}
    NodeSize = 1
    Values = {1, 2}
    MaxNodes = 5
    Top = 12
    OddCalls = 0
INVARIANTS BlocksTile FreeBlocksMerge NodesStayApart WalksShowTheItems
CHECK_DEADLOCK FALSE
