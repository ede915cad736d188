CONSTANTS
    m1 = m1
    m2 = m2
    Messages <- OneMessage
    Bodies <- ScalarBodies
    MaxJobs = 2
    MaxReceive = 2
    Concurrency = 1
    Copies = FALSE
    PostAnswers <- NoRedirect
SPECIFICATION Spec
INVARIANTS
    BilledMeansStored
CHECK_DEADLOCK FALSE
