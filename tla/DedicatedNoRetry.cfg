\* One worker and no retries: attempts that are used up, crashes, database
\* errors, deletions, lost files, and a batch that two stuck documents fill.
CONSTANTS
    NumDocs = 3
    Workers = {w1}
    Clis = {}
    Handlers = {h1}
    MaxAttempts = 2
    BatchSize = 2
    CliBatchSize = 2
    ProcessInApi = FALSE
    UserOps = {"delete"}
    Outcomes = {"text", "bad", "raises"}
    MaxFaults = 2
SPECIFICATION FairSpec
INVARIANTS
    RowAgreesWithStatus
PROPERTIES
    QueuedIsSettled
    FollowsLifecycle
