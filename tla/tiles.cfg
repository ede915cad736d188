CONSTANTS
    Deg = 4
    FieldBuffer = 1
    SyncBuffer = 2
    MaxTiles = 4
    Boxes <- MCBoxes
    Boundaries <- MCBoundaries
    Areas <- MCAreas
    NoBox = NoBox
SPECIFICATION Spec
CHECK_DEADLOCK FALSE
INVARIANTS
    TypeOK
    EveryPointCovered
    NoIdleTile
    NoTileTwice
    LimitIsExact
    SameFiles
PROPERTIES
    Decided
