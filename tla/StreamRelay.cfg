CONSTANTS
    MaxAttempts = 2
    MaxLines = 2
    Capacity = 1
SPECIFICATION FairSpec
INVARIANTS
    FailoverHasNoChunks
    DrainedIsComplete
    StatusSound
PROPERTIES
    StreamsEnd
