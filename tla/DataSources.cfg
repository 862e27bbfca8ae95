CONSTANTS
    Ids = {"id1", "id2"}
    Names = {"n1", "n2"}
    Catalogs <- MCCatalogs
SPECIFICATION Spec
INVARIANTS TypeOK RejectionsAreDeserved
PROPERTIES StateIsWhatWasAskedFor
