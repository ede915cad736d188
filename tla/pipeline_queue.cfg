CONSTANTS
    m1 = m1
    m2 = m2
    Messages <- TwoMessages
    Bodies <- QueueBodies
    MaxJobs = 2
    MaxReceive = 2
    Concurrency = 1
    Copies = TRUE
    PostAnswers <- PlainAnswers
SPECIFICATION FairSpec
PROPERTIES
    Settles
    KeepsContract
    RejectedIsParked
CHECK_DEADLOCK FALSE
