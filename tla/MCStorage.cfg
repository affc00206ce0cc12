\* Every checkpoint map over two keys, in every iteration order.
CONSTANTS
    NL <- MCNL
    BodyChars <- MCBodyChars
    UrlLines <- MCUrlLines
    MetaInputs <- MCMetaInputs
    CkStates <- MCCkStates
SPECIFICATION Spec
INVARIANT CheckpointRoundTrip
CHECK_DEADLOCK FALSE
