CONSTANTS
    Rows = 2
    Cols = 4
    Straight = 10
    Diagonal = 14
    NoMask = NoMask
    Terrains <- MCTerrains
    Options <- MCOptions
    MaxSteps = 5
    RidgeCap = 2
    Corridor = 1
    Never = 100
SPECIFICATION Spec
CHECK_DEADLOCK FALSE
INVARIANTS
    TypeOK
    PathsSound
    BestOfUnit
    WidestFirst
    DrawsDistinct
    NoDrawLost
PROPERTIES
    WalksBounded
    Ends
