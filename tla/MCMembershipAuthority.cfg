CONSTANTS
    ann = ann
    bob = bob
    Callers <- MCCallers
    NMemberships = 2
    MaxVersion = 4
    MaxSecurity = 2
SPECIFICATION AuthoritySpec
SYMMETRY CallerSymmetry
CHECK_DEADLOCK FALSE
INVARIANTS
    EveryVersionHasItsEvent
    HistoryFollowsTheMachine
    ActsOnWhatWasShown
    SecurityVersionsFollowVersions
PROPERTIES
    ImplementsLedger
