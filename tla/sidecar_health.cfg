SPECIFICATION FairSpec
CONSTANTS
    MaxFails <- DefaultMaxFails
    RetryCount <- DefaultRetries
INVARIANT
    TypeOK
PROPERTIES
    
    UnhealthyIsFailed
