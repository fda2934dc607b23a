SPECIFICATION FairSpec
CONSTANTS
    Nobody = Nobody
    Sessions = {s1, s2}
INVARIANTS TypeOK FinishedOnce
PROPERTIES ImplementsContract ClosedSessionsEnd CloseReturns
CHECK_DEADLOCK FALSE
