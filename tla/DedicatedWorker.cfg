\* docker-compose.secure.yml: one worker does all the processing.
CONSTANTS
    NumDocs = 1
    Workers = {w1}
    Clis = {}
    Handlers = {h1, h2}
    MaxAttempts = 1
    BatchSize = 2
    CliBatchSize = 2
    ProcessInApi = FALSE
    UserOps = {"retry", "delete"}
    Outcomes = {"text", "bad", "raises"}
    MaxFaults = 1
SPECIFICATION Spec
SYMMETRY Symmetry
INVARIANTS
    TypeOK
    SearchableIsProcessed
    ClaimHasOwner
PROPERTIES
    FollowsLifecycle
