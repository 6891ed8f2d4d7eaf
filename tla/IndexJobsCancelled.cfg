\* One job and one cancel request; nothing fails.
CONSTANTS
    Jobs = {j1}
    Direct = {}
    Cancels = {k1}
    Streams = {s1}
    MaxMessages = 1
    Interval = 2
    DbFails = FALSE
    Crashes = FALSE
    None = None
SPECIFICATION Spec
PROPERTIES
    CancelledStaysCancelled
\* Requests are finitely many: the system may stop.
CHECK_DEADLOCK FALSE
