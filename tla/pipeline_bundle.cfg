CONSTANTS
    m1 = m1
    m2 = m2
    Messages <- OneMessage
    Bodies <- AllBodies
    MaxJobs = 2
    MaxReceive = 2
    Concurrency = 2
    Copies = TRUE
    PostAnswers <- AnyAnswer
SPECIFICATION Spec
INVARIANTS
    TypeOK
    DeletedMeansAccepted
    BilledOnlyLanded
    BilledOncePerDelivery
    SiblingsAttempted
PROPERTIES
    ImplementsContract
CHECK_DEADLOCK FALSE
