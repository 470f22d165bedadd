SPECIFICATION BootSpec
CONSTANTS
    Lines = {0, 1, 4, 12}
    Installed = {0, 1, 12}
    Dword0 = 100
    MaxRaises = 2
    Faults = {0, 6, 13, 14}
    MaxFaults = 2
CHECK_DEADLOCK FALSE
INVARIANTS
    Acknowledged
    RoutinesRun
    EverythingIsTaken
PROPERTIES
    RequestsAnswered
