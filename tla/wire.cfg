\* Files and calls through small buffers; the client stops at the end.
CONSTANTS
    LineSize = 8
    SendSize = 16
    RecvSize = 7
    FileLen = 5
    Char <- AllChars
    Files <- AllFiles
    Calls <- WordCalls
SPECIFICATION Spec
INVARIANTS FileUnderstood FailureReported Arrives
CHECK_DEADLOCK FALSE
