CONSTANTS
    m1 = m1
    m2 = m2
    Messages <- OneMessage
    Bodies <- PairBodies
    MaxJobs = 2
    MaxReceive = 2
    Concurrency = 1
    Copies = FALSE
    PostAnswers <- NoRedirect
SPECIFICATION Spec
INVARIANTS
    BilledOnce
CHECK_DEADLOCK FALSE
