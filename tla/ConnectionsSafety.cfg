\* Overlapping connects, a disconnect, a connection test, expiry and shutdown.
CONSTANTS
    Creators = {c1, c2}
    Removers = {r1}
    Testers = {t1}
    Timeout = 1
    SerialCreates = FALSE
    None = None
SYMMETRY Symmetry
SPECIFICATION Spec
INVARIANTS
    TypeOK
    ReplacesWhatItSaw
    MainHandlesAreDrained
    AnsweredLeavesNothingOpen
PROPERTY ImplementsRegistry
\* Requests are finitely many: the system may stop.
CHECK_DEADLOCK FALSE
