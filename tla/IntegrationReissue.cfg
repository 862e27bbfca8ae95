CONSTANTS
    maxSecretReissueAttempts = 3
    Triggers = {1, 2}
    MaxDisturbances = 1
    MaxLosses = 4
    MaxEdits = 0
    Destroys = FALSE
SPECIFICATION Spec
INVARIANTS TypeOK
PROPERTIES LostVersionsAreRevoked
