\* The API's background job and the worker take the same document.
CONSTANTS
    NumDocs = 1
    Workers = {w1}
    Clis = {}
    Handlers = {h1}
    MaxAttempts = 2
    BatchSize = 2
    CliBatchSize = 2
    ProcessInApi = TRUE
    UserOps = {}
    Outcomes = {"text"}
    MaxFaults = 0
SPECIFICATION Spec
INVARIANTS
    NoDuplicateProcessing
