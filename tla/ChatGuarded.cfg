CONSTANTS
    MaxKeys = 4
    MaxChunks = 2
SPECIFICATION ChatSpec
CHECK_DEADLOCK FALSE
INVARIANTS
    AnswerIsWhole
    StreamsTracked
    FailureIsShown
