SPECIFICATION WalkSpec
CONSTANTS
    NEntries <- MCNEntries
    Values <- MCValues
    InitialFats <- MCInitialFats
    Volumes <- MCVolumes
    Directory <- MCDirectory
    OtherNames <- MCOtherNames
INVARIANTS
    ReadsTheFile
PROPERTIES
    ImplementsTable
CHECK_DEADLOCK FALSE
