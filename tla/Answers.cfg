CONSTANTS
    MaxAttempts = 3
    MaxChanges = 2
    MaxIntrusions = 2
SPECIFICATION FairSpec
INVARIANTS TypeOK DropIsJustified StoredIsReal
PROPERTIES RetriesShortTroubles ImplementsContract
CHECK_DEADLOCK FALSE
