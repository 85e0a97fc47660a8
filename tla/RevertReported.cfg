SPECIFICATION Spec
CONSTANTS
    Index = {1}
    Name = {"heat"}
    Value = {1, 2}
    Volatile = {}
    ValidValue <- AllValid
    Menus <- OneSetting
    Options <- AlwaysOn
    RefreshId = {r1, r2}
    OpId = {o1}
    WriteId = {}
    MaxPending = 1
    TTL = 1
    MaxAttempts = 2
    MaxNow = 0
    MaxToken = 2
    MaxGuest = 1
INVARIANT
    OwnRevertNotReported
