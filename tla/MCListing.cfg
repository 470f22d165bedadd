SPECIFICATION ListingSpec
CONSTANTS
    BaseLength = 2
    ExtLength = 1
    LineSize = 4
    SectorSize = 3
    Base = 8
    Size = 9
    AtBoot = 1
    Typed <- MCTyped
    Texts <- MCTexts
    MaxFiles = 2
    MaxCommands = 3
    Leftovers = {0, 120}
CHECK_DEADLOCK FALSE
INVARIANTS
    ListShowsTheNames
    ListedNamesFind
    ReadShowsTheFile
