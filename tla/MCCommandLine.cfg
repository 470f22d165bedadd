SPECIFICATION Spec
CONSTANTS
    Letters = {"a", "b", "c"}
    Blank = " "
    Quote = "q"
    Nul = "0"
    Code <- MCCode
    Commands <- MCCommands
    BufferSize = 8
    MaxArgs = 4
    Lines <- MCLines
    WordLists <- MCWordLists
    MaxLines = 2
CHECK_DEADLOCK FALSE
INVARIANTS
    TypeOK
    WordsAreArgs
    CommandRuns
