\* Two functions of the user's and one refresh of the timer's under way at once,
\* so that an upload, its polls and a deletion of its document overlap.
CONSTANTS
    UserTasks = {u1, u2}
    TimerTasks = {t1}
    MaxDocuments = 1
    PageLimit = 1
    MaxPolls = 1
    MaxFaults = 1
SPECIFICATION Spec
INVARIANTS
    TypeOK
PROPERTIES
    ListCatchesUp
    UploadEnds
    GoneIsDeselected
