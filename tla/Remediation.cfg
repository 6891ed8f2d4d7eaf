\* A message that is redelivered into a second session, and two applies that overlap.
CONSTANTS
    Messages = {m1}
    Fetches = {f1, f2}
    Applies = {a1, a2}
    BatchSize = 1
    MaxSequences = 1
    None = None
SPECIFICATION FairSpec
INVARIANTS
    TypeOK
    SessionOffersUnhandled
    ReportedAckIsFinal
    EmptySessionIsGone
PROPERTIES
    AppliesAreAnswered
    HandledOnce
\* Requests are finitely many: the system may stop.
CHECK_DEADLOCK FALSE
