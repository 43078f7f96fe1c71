SPECIFICATION Spec
CONSTANTS
    MaxId = 2
    MaxVersion = 2
    MaxWrites = 2
    MaxRuns = 3
INVARIANTS
    PostgresIsUsable
    ReadyMeansImportable
PROPERTIES
    ImportIsExact
    ImportNeverOverwrites
CHECK_DEADLOCK FALSE
