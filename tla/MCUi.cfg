SPECIFICATION UiSpec
CONSTANTS
    Height = 7
    ScrollFrom = 4
    MaxAnswer = 4
    RowChars = 6
    TypedLengths = {0, 1, 3, 6, 60}
    ClearedColumns = 3
    BoxUpdates = 34
    MaxUpdates = 63
    Blank = blank
    MaxCommands = 3
    VGA_WIDTH = 12
    VGA_HEIGHT = 12
    Boxes <- MCBoxes
    ShellBox = 3
    Texts <- MCTexts
    Answers <- MCAnswers
CONSTRAINT FewAfterWrapping
INVARIANTS
    QueueFits
    ScreenIsTail
    ShownIsDrawn
    CellsShowRows
    PanesStay
