SPECIFICATION FairSpec
CONSTANTS
    Names <- MCNames
    Schema <- MCSchema
    Scale = 10
    MaxRetries = 2
    Attempts = 3
    Replies <- MCReplies
    Verdicts <- MCVerdicts
INVARIANTS
    TypeOK
    DoubtsAreFlagged
    EarlyResultIsClean
    RepromptIsAboutLastReply
    CallsWithinBudget
    ErrorNamesItsCause
PROPERTIES
    VerifierFailsOpen
    BegunRequestsEnd
    ImplementsContract
