SPECIFICATION Spec
CONSTANTS
    Index = {1}
    Name = {"heat"}
    Value = {v1, v2}
    Volatile = {}
    ValidValue <- AllValid
    Menus <- OneSetting
    Options <- AlwaysOn
    RefreshId = {r1}
    OpId = {o1}
    WriteId = {w1}
    MaxPending = 1
    TTL = 1
    MaxAttempts = 2
    MaxNow = 0
    MaxToken = 1
    MaxGuest = 2
SYMMETRY ValueSymmetry
INVARIANTS
    TypeOK
    RevertExplainsOneChange
