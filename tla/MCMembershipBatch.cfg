CONSTANTS
    first = first
    again = again
    other = other
    Requests <- MCRequests
    Keyed <- MCKeyed
    Retry = again
    NItems = 2
    KeyAllowance = 2
    Allowances = {0}
    MaxVersion = 2
SPECIFICATION BatchFairSpec
CHECK_DEADLOCK FALSE
INVARIANTS
    AppliedOnce
    AllowanceHolds
    AnswerIsTheEnd
PROPERTIES
    OnlyTheHolderSettles
    ImplementsContract
    ExecutionEnds
    KeyIsAnswered
