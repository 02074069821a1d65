SPECIFICATION FairSpec
CONSTANTS
    MaxFrames = 4
    LineLimit = 2
    StartupOnly = TRUE
CHECK_DEADLOCK FALSE
INVARIANTS
    TypeOK
    RelaysLinesInOrder
    OneLineAfterQuit

    
