SPECIFICATION Spec
CONSTANTS
    Names <- MCNames
    Schema <- MCSchema
    Scale = 10
    MaxRetries = 2
    Attempts = 3
    Replies <- MCReplies
    Verdicts <- MCVerdicts
INVARIANT
    FabricatedCitationsTriggerRetry
