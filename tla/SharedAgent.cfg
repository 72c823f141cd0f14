SPECIFICATION Spec
CONSTANTS
    Requests = {form, stream}
    Streamed = {stream}
    MaxRetries = 1
    MaxMessages = 6
INVARIANT
    ModelSeesOwnTurns
