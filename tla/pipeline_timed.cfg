CONSTANTS
    m1 = m1
    m2 = m2
    Messages <- TwoMessages
    Bodies <- TimedBodies
    MaxJobs = 1
    MaxReceive = 2
    Concurrency = 2
    Copies = TRUE
    PostAnswers <- PlainAnswers
    LambdaTimeout = 2
    VisibilityTimeout = 4
SPECIFICATION TimedSpec
INVARIANTS
    AloneUnlessLate
    HeldUnlessLate
CHECK_DEADLOCK FALSE
