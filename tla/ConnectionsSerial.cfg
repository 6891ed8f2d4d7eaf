\* One connect at a time, against a disconnect, expiry and shutdown.
CONSTANTS
    Creators = {c1, c2}
    Removers = {r1}
    Testers = {}
    Timeout = 0
    SerialCreates = TRUE
    None = None
SPECIFICATION FairSpec
PROPERTIES
    ImplementsSingleSlot
    RequestsAreAnswered
    IdleEntriesAreRemoved
\* Requests are finitely many: the system may stop.
CHECK_DEADLOCK FALSE
