CONSTANTS
    maxSecretReissueAttempts = 3
    Triggers = {1, 2}
    MaxDisturbances = 2
    MaxLosses = 1
    MaxEdits = 1
    Destroys = FALSE
SPECIFICATION FairSpec
PROPERTIES Recovers
