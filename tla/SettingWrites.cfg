SPECIFICATION Spec
CONSTANTS
    Bit = {"b0"}
    Index = {1, 2}
    Name = {"heat", "mask"}
    Value <- Integers
    Volatile = {}
    ValidValue <- Numbers
    MaskName = "mask"
    MaskIndex = 2
    Toggles <- OneToggle
    Menus <- BothOrMask
    WriteId = {w1}
    RestoreId = {r1}
    MaxGuest = 1
INVARIANT
    TypeOK
PROPERTIES
    CleanWritesAttributed
    RestoreTriesEverything
    RestoreConverges
