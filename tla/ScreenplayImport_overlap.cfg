SPECIFICATION Spec
CONSTANTS
    outline = outline
    draft = draft
    longer = longer
    x = x
    z = z
    c1 = c1
    c2 = c2
    None = None
    Texts = {outline, draft, longer}
    Breakdown <- Screenplays
    NoHeading = None
    Shots = {s1}
    Handlers = {h1, h2}
    ManualNumbers = {2}
    MaxRuns = 2
    MaxScenes = 3
CONSTRAINT OneShort
SYMMETRY Symmetry
INVARIANTS
    OneApprovedRun
    OnlyUnseenShotsAreOrphaned
PROPERTIES
    UnconfirmedOnlyAdds
    PlanIsExact
    HeadingKeepsRow
CHECK_DEADLOCK FALSE
