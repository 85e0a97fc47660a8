SPECIFICATION Spec
CONSTANTS
    Index = {1, 2}
    Name = {"heat", "mode"}
    Value = {1, 2}
    Volatile = {}
    ValidValue <- AllValid
    Menus <- TwoSettings
    Options <- AllOptions
    RefreshId = {r1}
    OpId = {}
    WriteId = {}
    MaxPending = 1
    TTL = 1
    MaxAttempts = 1
    MaxNow = 1
    MaxToken = 3
    MaxGuest = 3
INVARIANTS
    PendingMatchesLastPoll
    PendingBounded
