\* main's init, then log calls of every level with main's messages.
CONSTANTS
    LogInits <- MCLogInits
    Messages <- MCMessages
    RequestIds <- MCRequestIds
    MaxLines = 2
INIT MCInit
NEXT MCNext
INVARIANT LogLineIsJson
CHECK_DEADLOCK FALSE
