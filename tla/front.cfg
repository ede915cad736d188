CONSTANTS
    k1 = k1
    Instances = {i1}
    Consumers = {k1}
    NoConsumer = NoConsumer
    Catalogs <- MCCatalogs
    NoCatalog = NoCatalog
    Enabled = TRUE
    HasToken = TRUE
    Refresh = 1
    MaxVersions = 2
    Requests = {r1, r2}
    NoRequest = NoRequest
    Calls <- MCCalls
    Budget = 1
    MaxCopies = 1
    MaxNow = 2
SPECIFICATION FairSpec
INVARIANTS
    TypeOK
    EffectsAreDue
    AnswerIsTrue
    OwnRender
PROPERTIES
    RecentCatalog
    Answered
CHECK_DEADLOCK FALSE
