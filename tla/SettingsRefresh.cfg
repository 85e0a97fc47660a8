SPECIFICATION FairSpec
CONSTANTS
    MaxChanges = 2
    MaxSetUps = 1
INVARIANTS
    TypeOK
    EarlyRefreshKept
    AuditIsGapless
PROPERTIES
    LogKept
    
    
