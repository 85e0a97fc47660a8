SPECIFICATION FairSpec
CONSTANTS
    h1 = h1
    h2 = h2
    ours = ours
    other = other
    Host = {h1}
    Login = {l1, l2}
    Device = {ours, other}
    Nobody = nobody
    NoId = noid
    Places <- OnePlace
    FlowId = {f1}
    IssueAfter = 1
    MaxNow = 1
    MaxChanges = 1
PROPERTIES
    AppliedIsUsed
    IssueClears
    OnlyKnownControllers
