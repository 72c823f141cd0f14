SPECIFICATION RequestSpec
CONSTANTS
    MaxPages = 3
    MaxPageChars = 2
    MaxDocumentTextChars = 7
    RasterMaxPages = 2
    Names <- MCNames
    Schema <- MCSchema
    Scale = 10
    MaxRetries = 1
    Attempts = 2
    Replies <- MCReplies
    Verdicts <- MCVerdicts
INVARIANTS
    TypeOK
    TextIsComplete
    ImagesAreFirstPages
    NothingLeaks
PROPERTIES
    ImplementsContract
    UploadEnds
