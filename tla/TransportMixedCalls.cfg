CONSTANTS
    keyed = keyed
    unkeyed = unkeyed
    read = read
    Calls = {unkeyed, read}
    Kind <- MCKind
    MaxAttempts = 3
    MinDelay = 1
    MaxDelay = 2
    RetryAfters = {}
SPECIFICATION FairSpec
INVARIANTS AtMostOneEffect
PROPERTIES ImplementsContract
CHECK_DEADLOCK FALSE
