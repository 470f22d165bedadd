SPECIFICATION LogSpec
CONSTANTS
    Calls <- MCCalls
    HandlerCalls <- MCHandlerCalls
    FormatCases <- MCFormatCases
    Alphabet <- MCAlphabet
    BeforeBaseChars <- MCBeforeBaseChars
    LogSize = 7
    GroupSize = 6
    SerialSize = 14
    TextSize = 4
    LineLimit = 3
    MaxCalls = 3
    MaxInterrupts = 2
    MaxGroups = 2
CHECK_DEADLOCK FALSE
INVARIANTS
    FormatsLikeC
    LinesAreRight
    StaysInBuffers
