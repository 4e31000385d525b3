\* docker-compose.yml: the API, a worker and the command line all process.
CONSTANTS
    NumDocs = 1
    Workers = {w1}
    Clis = {c1}
    Handlers = {h1}
    MaxAttempts = 2
    BatchSize = 2
    CliBatchSize = 2
    ProcessInApi = TRUE
    UserOps = {"retry"}
    Outcomes = {"text", "bad"}
    MaxFaults = 0
SPECIFICATION Spec
CONSTRAINT TwoSessions
INVARIANTS
    AttemptsWithinLimit
PROPERTIES
    FinishedNotReclaimed
