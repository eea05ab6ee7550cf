SPECIFICATION RetentionSpec
CONSTANTS
    Archivist = {o1}
    OldRun = 0
    Anchor = {1, 2}
    Row = {1, 2, 3, 4}
    Late = {3}
    ParentOf <- Parents
    AnchorBatch = 2
    MaxPuts = 3
    None = none
    Bad = bad
    HotTriples = 2
    MaxTriples = 3
    DeletionBatch = 1

PROPERTY OnlyArchivedRowsDeleted
