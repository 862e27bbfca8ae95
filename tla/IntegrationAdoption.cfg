CONSTANTS
    maxSecretReissueAttempts = 3
    Triggers = {1}
    MaxDisturbances = 0
    MaxLosses = 0
    MaxEdits = 1
    Destroys = FALSE
SPECIFICATION Spec
PROPERTIES AdoptsOnlyHumanOwned
