\* Two connects that overlap.
CONSTANTS
    Creators = {c1, c2}
    Removers = {}
    Testers = {}
    Timeout = 1
    SerialCreates = FALSE
    None = None
SPECIFICATION Spec
INVARIANT SingleConnection
\* Requests are finitely many: the system may stop.
CHECK_DEADLOCK FALSE
