SPECIFICATION Spec
CONSTANTS
    h1 = h1
    h2 = h2
    ours = ours
    other = other
    Host = {h1, h2}
    Login = {l1}
    Device = {ours, other}
    Nobody = nobody
    NoId = noid
    Places <- Moves
    FlowId = {f1, f2}
    IssueAfter = 1
    MaxNow = 1
    MaxChanges = 1
SYMMETRY Symmetry
INVARIANTS
    TypeOK
    LoadedApiMatchesEntry
    IssueMeansOutage
PROPERTY
    OnlyKnownControllers
