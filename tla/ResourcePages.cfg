\* Each of the six lists, two streams, buckets or stores with two items each, and
\* another client that removes, creates or drops twice.
CONSTANTS
    Scopes = {s1, s2}
    Names = {n1, n2}
    MaxForeign = 2
    MaxCalls = 1
    None = None
SYMMETRY Symmetry
SPECIFICATION Spec
INVARIANTS
    TypeOK
    BulkRunsAccount
PROPERTY SentAsShown
\* A page that was left stops.
CHECK_DEADLOCK FALSE
