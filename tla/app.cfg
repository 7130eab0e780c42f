SPECIFICATION Spec
CONSTANTS
    Names <- MCNames
    MaxSessions = 3
    EarlyErrors = FALSE
INVARIANTS
    TypeOK
    NothingIsMisused
    ErrorsAreTold
    SessionsAreDisposedOf
    LastNameDecides
CHECK_DEADLOCK FALSE
