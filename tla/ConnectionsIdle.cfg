\* A connection with a system account, left idle.
CONSTANTS
    Creators = {c1}
    Removers = {}
    Testers = {}
    Timeout = 1
    SerialCreates = FALSE
    None = None
SPECIFICATION FairSpec
PROPERTY RetiredSysCloses
\* Requests are finitely many: the system may stop.
CHECK_DEADLOCK FALSE
