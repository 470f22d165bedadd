SPECIFICATION Spec
CONSTANTS
    Letters = {x, y}
    Blank = blank
    Nul = nul
    Empty = empty
    Cursor = cursor
    BufferSize = 3
    ClearedColumns = 3
    MaxKeys = 6
INVARIANTS
    ExecutesTheLine
    ScreenShowsTheLine
PROPERTIES
    ReturnIsProcessed
