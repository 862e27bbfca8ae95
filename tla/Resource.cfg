CONSTANTS
    Configurations = {"a", "b"}
    MaxDisturbances = 2
    MaxLosses = 2
    MaxEdits = 2
SPECIFICATION FairSpec
INVARIANTS TypeOK SnapshotsAreHonest
PROPERTIES NoLostUpdate Converges
