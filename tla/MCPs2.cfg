SPECIFICATION Spec
CONSTANTS
    Letter = letter
    Shift = shift
    Caps = caps
    Code <- MCCode
    Boots <- MCBoots
    Ready = 3
    KeepsRequest = {TRUE, FALSE}
    MaxKeys = 5
    MaxMoves = 2
CONSTRAINT UpToTheMishap
CHECK_DEADLOCK FALSE
INVARIANTS
    KeyboardIsOn
    KeysAreHeard
    PacketsAligned
