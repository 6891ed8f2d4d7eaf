\* A job, a direct build of the same stream and a cancel request; the database
\* rejects, the process dies.
CONSTANTS
    Jobs = {j1}
    Direct = {d1}
    Cancels = {k1}
    Streams = {s1}
    MaxMessages = 4
    Interval = 2
    DbFails = TRUE
    Crashes = TRUE
    None = None
SPECIFICATION FairSpec
INVARIANTS
    TypeOK
    CompletedIsSearchable
    EndedRunIsTerminal
    CancelStopsScan
PROPERTIES
    CancelFlagSticks
    BuildsEnd
\* Requests are finitely many: the system may stop.
CHECK_DEADLOCK FALSE
