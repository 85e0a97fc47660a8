SPECIFICATION Spec
CONSTANTS
    Index = {1}
    Name = {"heat"}
    Value = {v1, v2}
    Volatile = {}
    ValidValue <- AllValid
    Menus <- OneSetting
    Options <- AllOptions
    RefreshId = {r1}
    OpId = {o1, o2}
    WriteId = {}
    MaxPending = 2
    TTL = 1
    MaxAttempts = 2
    MaxNow = 0
    MaxToken = 2
    MaxGuest = 2
SYMMETRY Symmetry
INVARIANTS
    UnsupersededTapIsCurrent
    TokenUsedOnce
    OneActionPerSetting
    ExpectationHasOwner
PROPERTIES
    TokensAreFresh
    PromiseKept
    RevertWriteAuthorised
