\* Every body of up to four characters, saved and loaded back.
CONSTANTS
    NL <- MCNL
    BodyChars <- MCBodyChars
    UrlLines <- MCUrlLines
    MetaInputs <- MCMetaInputs
    CkStates <- MCCkStates
SPECIFICATION Spec
INVARIANT DocumentRoundTrip
CHECK_DEADLOCK FALSE
