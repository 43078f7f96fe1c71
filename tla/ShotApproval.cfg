SPECIFICATION Spec
CONSTANTS
    Media = {i1, i2, v1}
    Images = {i1, i2}
    Findings = {f1}
    Handlers = {h1, h2}
    ManualStatuses = {"planned"}
SYMMETRY Symmetry
INVARIANTS
    OneApprovedPerType
    ApprovedImageIsCleared
PROPERTIES
    FinalKeepsItsMedia
    FinalizedThroughGate
