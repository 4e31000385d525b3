\* Four chunks in every order of both lists, pages of two out of at most three
\* candidates of each list, one change of the data meanwhile.
CONSTANTS
    Chunks = {1, 2, 3, 4}
    Limit = 2
    Slack = 1
    Cap = 3
    RankOffset = 60
    MaxChanges = 1
SPECIFICATION Spec
CHECK_DEADLOCK FALSE
INVARIANTS
    TypeOK
    PagesPartition
    AgreementKept
    NothingDeletedShown
