CONSTANTS
    keyed = keyed
    unkeyed = unkeyed
    read = read
    Calls = {keyed}
    Kind <- MCKind
    MaxAttempts = 4
    MinDelay = 2
    MaxDelay = 9
    RetryAfters = {5, 12}
SPECIFICATION FairSpec
INVARIANTS TypeOK AtMostOneEffect SuccessWasExecuted BackoffIsBoundedExponential EffectsAreAccountedFor
PROPERTIES CallsReturn ImplementsContract
CHECK_DEADLOCK FALSE
