CONSTANTS
    UUIDs <- MCUUIDs
    Configurations <- MCConfigurations
    Rulesets <- MCRulesets
    MaxEdits = 1
SPECIFICATION Spec
INVARIANTS TypeOK RejectionsAreDeserved OnlySoundRulesAreSent StateIsSound
PROPERTIES ApplyStoresTheConfiguration
CHECK_DEADLOCK FALSE
