CONSTANTS
    Keys = {1, 2, 3}
    Names = {1, 2}
    Purposes = {1, 2}
    Selectors <- MCSelectors
    MaxChanges = 2
SPECIFICATION FairSpec
INVARIANTS TypeOK OutcomeIsJustified
PROPERTIES LookupEnds
CHECK_DEADLOCK FALSE
