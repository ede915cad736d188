CONSTANTS
    Profiles <- MCProfiles
    Options <- MCOptions
    EpsNum = 1
    EpsDen = 4
    Rounds = 3
    Grain = 100
SPECIFICATION Spec
CHECK_DEADLOCK FALSE
INVARIANT
    ConvexSteepens
