SPECIFICATION FairSpec
CONSTANTS
    Value = {"low", "high"}
    WriteId = {1}
    RefreshId = {1, 2}
    MaxChanges = 2
    MaxSaves = 1
    MaxReloads = 1
INVARIANTS
    TypeOK
    NothingInvented
PROPERTIES
    DisplayCatchesUp
    SnapshotSettles
