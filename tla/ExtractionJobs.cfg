SPECIFICATION LiveSpec
CONSTANTS
    Jobs = {j1, j2}
    Slots = {s1, s2}
    NoJob = NoJob
    Permits = 1
    MaxRetries = 1
    Attempts = 2
    MaxStalls = 1
    MaxCrashes = 1
INVARIANT TypeOK
INVARIANT PermitsConserved
INVARIANT RecordTellsOutcome
PROPERTY JobSettles
CHECK_DEADLOCK FALSE
