SPECIFICATION FairSpec
CONSTANTS
    Nobody = Nobody
    Sessions = {s1}
PROPERTIES CloseEmitsFinished
CHECK_DEADLOCK FALSE
