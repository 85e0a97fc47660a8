SPECIFICATION Spec
CONSTANTS
    Capture = {c1, c2}
    Stamp = {t1, t2}
    None = None
INVARIANTS
    TypeOK
    SnapshotsComplete
PROPERTIES
    CapturesAreKept
    PathIsOwn
    PublishedAtomically
