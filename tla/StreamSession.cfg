SPECIFICATION FairSpec
CONSTANTS
    Names <- MCNames
    Schema <- MCSchema
    Scale = 10
    Versions = {"1.0.0", "1.1.0"}
    Unversioned = "none"
    MaxDeltas = 3
    Replies <- MCReplies
INVARIANTS
    TypeOK
    JudgedTextWasSent
    PinIsKept
    AnswerMatchesPrompt
PROPERTIES
    OpenStreamEnds
    ImplementsProtocol
