\* Four effects, every failure action, up to three attempts.
SPECIFICATION FairSpec
CONSTANTS
    N = 4
    FailureAction <- MCFailureAction
    MaxAttempts <- MCMaxAttempts
INVARIANTS
    TypeOK
    NoOrphan
    WithdrawalIsAccounted
    AcceptanceIsExact
PROPERTIES
    PublishedInPlanOrder
    CompensatedInReverse
    EventuallyResolved
    ImplementsContract
CHECK_DEADLOCK FALSE
