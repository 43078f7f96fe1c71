SPECIFICATION Spec
CONSTANTS
    None = None
    Assets = {a1, a2}
    Other = a2
    Refs = {r1, r2}
    Tasks = {t1, t2}
    Handlers = {h1, h2}
    MaxReferences = 1
SYMMETRY Symmetry
CONSTRAINTS
    NoneStale
    OtherStands
INVARIANTS
    LockedMasterApproved
    OneReferencePerTask
PROPERTIES
    LockedIsProtected
    GatedSendsMaster
CHECK_DEADLOCK FALSE
